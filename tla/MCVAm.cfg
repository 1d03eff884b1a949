SPECIFICATION FairSpec
CONSTANTS
  Ops = {"Pause", "Continue", "TraceStart", "StepInto", "Turbo", "Reset", "LoadSnapshot"}
  MaxRequests = 2
  MaxKeys = 1
INVARIANTS TypeOK InitFindsVm CallbackReadsLive DebuggerReadsLive NothingLeft ModeIsTrue
PROPERTIES InitializeReturns QueuesDrain DestroyEnds
CHECK_DEADLOCK FALSE
