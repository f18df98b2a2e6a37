SPECIFICATION GSSpec
CONSTANTS
    j1 = j1
    j2 = j2
    j3 = j3
    t1 = t1
    Job = {j1, j2, j3}
    Group = {t1}
    GroupOf <- OneGroup
    ValidAt <- Dates
    Window = 1
    Batches <- TwoBatches
    NoJob = NoJob
    DeleteCall = {}
    MaxCrashes = 1
INVARIANTS
    Accounted
    InOrder
PROPERTIES
    SequentialContext
    ImplementsFifo
    Settles
