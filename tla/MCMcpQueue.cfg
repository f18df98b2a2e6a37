SPECIFICATION Spec
CONSTANTS
    j1 = j1
    j2 = j2
    j3 = j3
    j4 = j4
    g1 = g1
    g2 = g2
    Job = {j1, j2, j3, j4}
    Group = {g1, g2}
    GroupOf <- MCGroupOf
CHECK_DEADLOCK FALSE
INVARIANTS
    InOneHand
    OneWorkerUnlessCrowded
PROPERTIES
    Settles
