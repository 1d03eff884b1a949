SPECIFICATION Spec
CONSTANTS
  Ops = {"Pause", "Continue"}
  MaxRequests = 2
  MaxKeys = 0
PROPERTIES ContinueRuns
CHECK_DEADLOCK FALSE
