\* No fault, no delay: the phase of Beat alone costs readings.
SPECIFICATION Spec
CONSTANTS
  Period = 3
  Minute = 1
  Threads = 1
  MaxRetries = 3
  ProviderSets <- MCBoth
  Silent <- MCNothing
  Slack = 0
  Manual <- MCNothing
  MaxMsgs = 2
  MaxClock = 10
  FaultKinds <- MCNothing
  MaxFaults = 0
  None = None
INVARIANTS DigestCoversWindow
CHECK_DEADLOCK FALSE
