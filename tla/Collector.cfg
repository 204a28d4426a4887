\* Two commands of five kinds, one restart of any kind, one fault of store or hardware.
SPECIFICATION FairSpec
CONSTANTS
  fan = fan
  arm = arm
  Devices <- MCDevices
  Owner <- MCOwner
  BootSets <- MCBoots
  Ops <- MCOps
  RateLimit = 2
  Never = Never
  None = None
  MaxCmds = 2
  MaxTime = 2
  MaxBoots = 2
  MaxFaults = 1
INVARIANTS TypeOK DamageConfined LimiterSound OutputsSafe
PROPERTIES CommandsDecided SigtermStops KeepsContract
