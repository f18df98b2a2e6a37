SPECIFICATION Spec
CONSTANTS
    N = 4
    MaxFacts = 6
    MaxWrites = 0
PROPERTIES
    Terminates
CHECK_DEADLOCK FALSE
