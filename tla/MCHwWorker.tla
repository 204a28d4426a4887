---------------------------- MODULE MCHwWorker ----------------------------
(***************************************************************************)
(* A small stand: one relay channel and the traffic light, and a dashboard *)
(* that can click six kinds of command.                                    *)
(***************************************************************************)
EXTENDS HwWorker, TLC

CONSTANTS fan, lamp, toggle, apply

Cmd(actuator, action, output) ==
  [actuator |-> actuator, action |-> action, output |-> output]

FanOn  == Cmd("relay", "lit", fan)
FanOff == Cmd("relay", "dark", fan)
Turn   == Cmd("servo", "set_angle", None)
Park   == Cmd("servo", "neutral", None)
Stop   == Cmd("system", "kill_switch", None)
Bogus  == Cmd("unknown", "rejected", None)

MCSymmetry == Permutations({toggle, apply})
MCOwner    == (fan :> "relay") @@ (lamp :> "leds")
MCOutputs  == {fan, lamp}
MCStrokes  == {FanOn, Turn}
MCOthers   == {FanOff, Turn, Park, Stop, Bogus}
MCBoots    == {{"relay", "leds"}, {"leds", "servo"}}
MCOneBoot  == {{"relay", "leds"}}
============================================================================
