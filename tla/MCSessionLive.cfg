SPECIFICATION FairSpec
CHECK_DEADLOCK FALSE
CONSTANTS
    Ops = {"Pause", "Continue", "StepInto", "ToggleBreakpoint", "Reset",
           "LoadSnapshot", "CopperBreakpoint", "WaitScanLines", "SaveSnapshot"}
    MaxRequests = 2
PROPERTIES
    OperationsDrain
    BreakInStops
    StepComesBack
    SnapshotServed
    DestroyEndsClean
