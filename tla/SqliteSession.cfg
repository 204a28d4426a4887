\* Every deployment; two commands of the dashboard.
SPECIFICATION FairSpec
CONSTANTS
  Deployments <- MCDeployments
  MaxCmds = 2
  MaxCount = 4
INVARIANTS TypeOK EffectsRecorded
PROPERTIES ReadingsResume
