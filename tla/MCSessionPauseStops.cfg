SPECIFICATION FairSpec
CHECK_DEADLOCK FALSE
CONSTANTS
    Ops = {"Pause", "SaveSnapshot"}
    MaxRequests = 2
PROPERTIES
    PauseStops
