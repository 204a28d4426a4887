\* Beat, the threads and the fetch up to a minute late; lost answers, a failed
\* statement, a crash.
SPECIFICATION Spec
CONSTANTS
  Period = 3
  Minute = 1
  Threads = 1
  MaxRetries = 1
  ProviderSets <- MCEach
  Silent <- MCQuiet
  Slack = 1
  Manual <- MCNothing
  MaxMsgs = 4
  MaxClock = 13
  FaultKinds <- MCAny
  MaxFaults = 2
  None = None
INVARIANTS TypeOK NoTwoWindowsMissed
CHECK_DEADLOCK FALSE
