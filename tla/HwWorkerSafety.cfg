\* Faults of every kind: a crash or a stop, a lost status update, a driver that raises.
SPECIFICATION Spec
CONSTANTS
  toggle = toggle
  apply = apply
  fan = fan
  lamp = lamp
  None = None
  Handlers = {toggle, apply}
  Outputs <- MCOutputs
  Owner <- MCOwner
  Ops <- MCStrokes
  BootSets <- MCBoots
  BootMayFail = FALSE
  MayRaise = {"relay", "servo"}
  DbMayBlock = TRUE
  SampleTicks = 1
  ServoTicks = 3
  KillWait = 4
  MaxCmds = 2
  MaxKills = 1
  MaxCrashes = 1
  MaxDbFaults = 1
INVARIANTS TypeOK HardwareOrderly RepeatNeedsFault HandlerOrder
PROPERTIES BusyBehindLongWork KeepsContract
SYMMETRY MCSymmetry
