\* SQLite with all sensors, one of which fails once.
SPECIFICATION FairSpec
CONSTANTS
  Deployments <- MCGlitch
  MaxCmds = 1
  MaxCount = 2
PROPERTIES SurvivesGlitch
