\* Liveness: one handler, the kill switch among its commands, one lost write, a crash or a stop.
SPECIFICATION FairSpec
CONSTANTS
  toggle = toggle
  apply = apply
  fan = fan
  lamp = lamp
  None = None
  Handlers = {toggle}
  Outputs <- MCOutputs
  Owner <- MCOwner
  Ops <- MCOthers
  BootSets <- MCOneBoot
  BootMayFail = TRUE
  MayRaise = {}
  DbMayBlock = FALSE
  SampleTicks = 1
  ServoTicks = 3
  KillWait = 4
  MaxCmds = 2
  MaxKills = 1
  MaxCrashes = 1
  MaxDbFaults = 1
PROPERTIES CommandsSettle KillsAnswered
