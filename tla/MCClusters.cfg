SPECIFICATION Spec
CONSTANTS
    N = 4
    MaxFacts = 6
    MaxWrites = 1
INVARIANTS
    StaysConnected
    MissedOnlyIfGrown
PROPERTIES
    EndsOrAlternates
CHECK_DEADLOCK FALSE
