SPECIFICATION Spec
CHECK_DEADLOCK FALSE
CONSTANTS
    Ops = {"Pause", "Continue", "StepInto", "StepOut", "TraceStart", "CopperStep",
           "ToggleBreakpoint", "CopperBreakpoint", "WaitScanLines", "Reset",
           "SaveSnapshot", "LoadSnapshot"}
    MaxRequests = 3
INVARIANTS
    TypeOK
    StoppedIsVisible
    EventMeansCommand
    NoSnapshotWhileStopped
    Armed
