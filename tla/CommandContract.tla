-------------------------- MODULE CommandContract --------------------------
(***************************************************************************)
(* What the commands table promises to whoever inserts a row, without the  *)
(* executor, the lock, the snapshots and the faults: a row is pending,     *)
(* then once and for all applied or failed, and it is applied only after   *)
(* its command took effect on an actuator.                                 *)
(***************************************************************************)
CONSTANT Commands

VARIABLES
  state,     \* "none", "pending", "applied" or "failed"
  effective  \* the commands that took effect at least once

vars == <<state, effective>>

Init ==
  /\ state = [c \in Commands |-> "none"]
  /\ effective = {}

Insert(c) ==
  /\ state[c] = "none"
  /\ state' = [state EXCEPT ![c] = "pending"]
  /\ UNCHANGED effective

TakeEffect(c) ==
  /\ state[c] = "pending"
  /\ effective' = effective \cup {c}
  /\ UNCHANGED state

Apply(c) ==
  /\ state[c] = "pending" /\ c \in effective
  /\ state' = [state EXCEPT ![c] = "applied"]
  /\ UNCHANGED effective

Fail(c) ==
  /\ state[c] = "pending"
  /\ state' = [state EXCEPT ![c] = "failed"]
  /\ UNCHANGED effective

Next == \E c \in Commands : Insert(c) \/ TakeEffect(c) \/ Apply(c) \/ Fail(c)

Spec == Init /\ [][Next]_vars
=============================================================================
