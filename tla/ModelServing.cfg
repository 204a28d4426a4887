\* Two trainings of one model_id, read by the stand at any time.
SPECIFICATION Spec
CONSTANTS
  CsvFiles <- MCFiles
  HorizonSets <- MCHorizons
  Keep = 8
  Minute = 2
  Lag = 1
  TestPct = 30
  ValPct = 30
  SeqLen = 2
  Subsample = 7
  OutputChunk = 2
  MinMinutes = 4
  Reference = 1
  Epochs = 3
  Patience = 2
  Losses = {1, 2}
  MaxLen = 2
  MaxHorizon = 4
  MaxJobs = 2
  Windows <- MCWindows
  Wanted = 2
INVARIANTS TypeOK TestHeldOut LabelsReachHorizon BestEpochKept ForecastSound ReadyServes
CHECK_DEADLOCK FALSE
