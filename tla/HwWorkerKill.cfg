\* No fault at all: two strokes in one batch outlast the kill switch.
SPECIFICATION Spec
CONSTANTS
  toggle = toggle
  apply = apply
  fan = fan
  lamp = lamp
  None = None
  Handlers = {toggle}
  Outputs <- MCOutputs
  Owner <- MCOwner
  Ops <- MCStrokes
  BootSets <- MCOneBoot
  BootMayFail = FALSE
  MayRaise = {}
  DbMayBlock = FALSE
  SampleTicks = 1
  ServoTicks = 3
  KillWait = 4
  MaxCmds = 2
  MaxKills = 1
  MaxCrashes = 0
  MaxDbFaults = 0
PROPERTIES KillGatesActuators
