---------------------------- MODULE MCCollector ----------------------------
(***************************************************************************)
(* A fan on a relay channel and a servo; the relay may be missing.         *)
(***************************************************************************)
EXTENDS Collector

CONSTANTS fan, arm

MCDevices == {fan, arm}
MCOwner   == [d \in MCDevices |-> IF d = fan THEN "relay" ELSE "servo"]
MCBoots   == {{"relay", "servo"}, {"servo"}}
MCOps     == [device : {fan}, to : {"lit", "dark"}]
             \cup [device : {arm}, to : {"lit", "rejected"}] \cup {KillSwitch}
============================================================================
