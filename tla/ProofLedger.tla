---------------------------- MODULE ProofLedger ----------------------------
(***************************************************************************)
(* What the proofs table promises to an auditor, without tasks, retries    *)
(* and clocks: documents are pinned and messages appended for ever, and a  *)
(* window gets at most one proof, whose CID and sequence number lead to    *)
(* evidence with the hash that the proof records.                          *)
(***************************************************************************)
EXTENDS Naturals, Sequences

CONSTANTS Windows, Digests, None

VARIABLES pins, hcs, proofs

vars == <<pins, hcs, proofs>>

Body(d, c) == [digest |-> d, cid |-> c]

\* The evidence a proof row of window w points to.
Backed(w, p) ==
  /\ p.body.digest.window = w
  /\ p.cid # None \/ p.seq # 0
  /\ p.cid # None => p.cid \in pins /\ p.body = Body(p.cid, p.cid)
  /\ p.seq # 0 => p.seq \in 1..Len(hcs) /\ hcs[p.seq] = p.body

Init == pins = {} /\ hcs = <<>> /\ proofs = [w \in Windows |-> None]

Pin(d) == pins' = pins \cup {d} /\ UNCHANGED <<hcs, proofs>>

Append1(d, c) == hcs' = Append(hcs, Body(d, c)) /\ UNCHANGED <<pins, proofs>>

Prove(w, d, c, n) ==
  LET p == [body |-> Body(d, c), cid |-> c, seq |-> n] IN
  /\ proofs[w] = None /\ Backed(w, p)
  /\ proofs' = [proofs EXCEPT ![w] = p]
  /\ UNCHANGED <<pins, hcs>>

Next ==
  \E d \in Digests : \E c \in {d, None} :
    \/ Pin(d)
    \/ Append1(d, c)
    \/ \E w \in Windows, n \in 0..Len(hcs) : Prove(w, d, c, n)

Spec == Init /\ [][Next]_vars
=============================================================================
