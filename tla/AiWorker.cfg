\* Every kind of artifact, two switches, a kill or a restart, a failing store or .env.
SPECIFICATION FairSpec
CONSTANTS
  Models <- MCTwo
  Kinds <- MCKinds
  EnvFiles <- MCEnvs
  MaxTasks = 2
  MaxQueue = 2
  MaxClicks = 2
  MaxCrashes = 1
  MaxFaults = 1
INVARIANTS TypeOK RowsNamed ChoiceSurvivesRestart
PROPERTIES PredictionsResume
