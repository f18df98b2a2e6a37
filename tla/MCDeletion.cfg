SPECIFICATION GSSpec
CONSTANTS
    j1 = j1
    j2 = j2
    j3 = j3
    t1 = t1
    Job = {j1, j2}
    Group = {t1}
    GroupOf <- OneGroup
    ValidAt <- SameDate
    Window = 2
    Batches <- SingleJobs
    NoJob = NoJob
    DeleteCall = {d1}
    MaxCrashes = 1
INVARIANTS
    FactsHaveSources
PROPERTIES
    CleanDelete
    DeletedStaysDeleted
    DeletionEnds
