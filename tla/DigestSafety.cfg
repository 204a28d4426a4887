\* A minute of delay at most; lost answers, a failed write and a crash.
SPECIFICATION Spec
CONSTANTS
  Period = 2
  Minute = 1
  Threads = 2
  MaxRetries = 1
  ProviderSets <- MCBoth
  Silent <- MCNothing
  Slack = 1
  Manual <- MCTwo
  MaxMsgs = 3
  MaxClock = 4
  FaultKinds <- MCAny
  MaxFaults = 2
  None = None
INVARIANTS BoundedDuplicates
PROPERTIES KeepsLedger
CHECK_DEADLOCK FALSE
