SPECIFICATION Spec
CONSTANTS
    MaxFacts = 3
    MaxPerEpisode = 2
    MaxTime = 2
    Never = Never
    Window <- MCWindow
INVARIANTS
    ContradictionsApart
PROPERTIES
    WindowsOnlyShrink
CHECK_DEADLOCK FALSE
