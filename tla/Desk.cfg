\* Two sessions that save thresholds beside the collector; two runs of the
\* migration, with the stack running or stopped; a session's charts.
SPECIFICATION Spec
CONSTANTS
  Sessions = {s1, s2}
  Profiles <- MCProfiles
  Default <- MCDefault
  Readings <- MCReadings
  Forecasts <- MCForecasts
  NoValue <- MCNoValue
  Reload = 2
  MaxSaves = 2
  MaxCrashes = 1
  BatchSize = 2
  Retention = 2
  MaxPoints = 2
  MinSpan = 2
  MaxCommands = 1
  MaxProofs = 1
  MaxTime = 3
  MaxRuns = 2
  Dates = {0, 1, 9}
  NoDate = NoDate
  QuickRanges = {2, 5}
  Hour = 5
  MaxRange = 8
INVARIANTS TypeOK AppliesInTime SectionsKept VerdictsAgree NothingLost NoReplay RangeFaithful LabelNamesRange
CHECK_DEADLOCK FALSE
