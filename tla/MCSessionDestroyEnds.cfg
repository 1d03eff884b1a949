SPECIFICATION FairSpec
CHECK_DEADLOCK FALSE
CONSTANTS
    Ops = {"Pause", "ToggleBreakpoint"}
    MaxRequests = 2
PROPERTIES
    DestroyEnds
