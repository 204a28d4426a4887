---------------------------- MODULE DigestProofs ----------------------------
(***************************************************************************)
(* Safety of publish_digest_task for every period, number of threads,      *)
(* retry limit and set of providers, and any number of messages and        *)
(* faults.                                                                 *)
(*                                                                         *)
(* The inductive invariant says what the local variables of a running task *)
(* stand for: which document it holds, that its CID is that document and   *)
(* is pinned, that its sequence number is the message with its payload,    *)
(* and that its window was closed when the task chose it.  Two more        *)
(* invariants rest on it: one counts the messages a window was paid for    *)
(* (PaidInv), one says that a task is at work on every window that has     *)
(* just closed (PaceInv).                                                  *)
(***************************************************************************)
EXTENDS DigestPublisher, FiniteSetTheorems, TLAPS

\* The window w is aligned and lies in the past.
Past(w) == w % Period = 0 /\ w + Period <= now

Sound(d) == Past(d.window) /\ d.window <= d.from /\ d.from < d.window + Period

\* Every document in the world or in the hands of a task is sound.
ClosedInv ==
  /\ \A d \in pins : Sound(d)
  /\ \A i \in 1..Len(hcs) : Sound(hcs[i].digest)
  /\ \A m \in Msgs : digest[m] # None => Sound(digest[m])
  /\ \A m \in Msgs : pc[m] = "fetch" => Past(window[m])

Holding == {"pin", "submit", "decide"}

\* What a task holds at each step.
TaskInv ==
  \A m \in Msgs :
    /\ pc[m] \in Holding => digest[m] \in Digests /\ digest[m].window = window[m]
    /\ pc[m] \notin Holding => digest[m] = None
    /\ pc[m] \notin {"submit", "decide"} => cid[m] = None
    /\ pc[m] # "decide" => seq[m] = 0
    /\ cid[m] # None => cid[m] = digest[m] /\ cid[m] \in pins
    /\ seq[m] # 0 => seq[m] \in 1..Len(hcs) /\ hcs[seq[m]] = Body(digest[m], cid[m])

IInv == TypeOK /\ Period <= now /\ ClosedInv /\ TaskInv /\ ProofMatchesChain

LEMMA FloorWindow ==
  ASSUME NEW t \in Nat
  PROVE  /\ floor_window(t) \in Nat /\ floor_window(t) <= t
         /\ t < floor_window(t) + Period
         /\ floor_window(t) % Period = 0
  <1>1. t % Period \in 0..(Period - 1)
    BY ConstantTypes DEF ConstantTypes
  <1>2. floor_window(t) \in Nat /\ floor_window(t) <= t /\ t < floor_window(t) + Period
    BY <1>1, ConstantTypes DEF ConstantTypes, floor_window
  <1>3. floor_window(t) % Period = 0
    <2>1. PICK q \in Nat : t = Period * q + (t % Period)
      <3>1. t = Period * (t \div Period) + (t % Period) /\ t \div Period \in Nat
        BY ConstantTypes DEF ConstantTypes
      <3> QED
        BY <3>1
    <2>2. floor_window(t) = Period * q
      BY <2>1, <1>1, ConstantTypes DEF ConstantTypes, floor_window
    <2>3. (Period * q) % Period = 0
      <3>a. PICK x \in Nat : x = Period * q
        BY ConstantTypes DEF ConstantTypes
      <3>b. x = Period * (x \div Period) + (x % Period) /\ x \div Period \in Nat
            /\ x % Period \in 0..(Period - 1)
        BY ConstantTypes DEF ConstantTypes
      <3>1. PICK k \in Nat, r \in 0..(Period - 1) :
              r = (Period * q) % Period /\ Period * q = Period * k + r
        BY <3>a, <3>b
      <3>2. \A a, b \in Nat : Period * (a + b) = Period * a + Period * b
        BY ConstantTypes DEF ConstantTypes
      <3>3. \A a \in Nat : a >= 1 => Period * a >= Period
        BY ConstantTypes DEF ConstantTypes
      <3>4. ~(q > k)
        <4> SUFFICES ASSUME q > k PROVE FALSE
          OBVIOUS
        <4>1. PICK z \in Nat : z >= 1 /\ q = k + z
          <5>1. q - k \in Nat /\ q - k >= 1 /\ q = k + (q - k)
            OBVIOUS
          <5> QED
            BY <5>1
        <4>2. Period * q = Period * k + Period * z /\ Period * z >= Period
          BY <3>2, <3>3, <4>1
        <4>3. Period * k \in Int /\ Period * z \in Int
          BY ConstantTypes DEF ConstantTypes
        <4> QED
          BY <3>1, <4>2, <4>3, ConstantTypes DEF ConstantTypes
      <3>5. ~(k > q)
        <4> SUFFICES ASSUME k > q PROVE FALSE
          OBVIOUS
        <4>1. PICK z \in Nat : z >= 1 /\ k = q + z
          <5>1. k - q \in Nat /\ k - q >= 1 /\ k = q + (k - q)
            OBVIOUS
          <5> QED
            BY <5>1
        <4>2. Period * k = Period * q + Period * z /\ Period * z >= Period
          BY <3>2, <3>3, <4>1
        <4>3. Period * q \in Int /\ Period * z \in Int
          BY ConstantTypes DEF ConstantTypes
        <4> QED
          BY <3>1, <4>2, <4>3, ConstantTypes DEF ConstantTypes
      <3>6. k = q /\ Period * q \in Int
        BY <3>4, <3>5, ConstantTypes DEF ConstantTypes
      <3> QED
        BY <3>1, <3>6
    <2> QED
      BY <2>2, <2>3
  <1> QED
    BY <1>2, <1>3

LEMMA LookBackNat == LookBack \in Nat
  BY ConstantTypes DEF ConstantTypes, LookBack

LEMMA CountdownNat == \A r \in Nat : Countdown(r) \in Nat
  BY ConstantTypes DEF ConstantTypes, Countdown

LEMMA ZeroWindow == 0 \in Windows /\ Windows \subseteq Nat
  <1>1. floor_window(0) = 0 /\ 0 \in 0..MaxClock
    BY ConstantTypes DEF ConstantTypes, floor_window
  <1>2. \A t \in 0..MaxClock : floor_window(t) \in Nat
    BY FloorWindow, ConstantTypes DEF ConstantTypes
  <1> QED
    BY <1>1, <1>2 DEF Windows

\* The window a task chooses has closed; it is one of the model's windows.
LEMMA ChosenWindow ==
  ASSUME IInv
  PROVE  WindowStart(now) \in Windows /\ Past(WindowStart(now))
  <1>1. now - Period \in 0..MaxClock
    BY ConstantTypes DEF ConstantTypes, IInv, TypeOK
  <1>2. WindowStart(now) <= now - Period /\ WindowStart(now) % Period = 0
        /\ WindowStart(now) \in Nat
    BY <1>1, FloorWindow, ConstantTypes DEF ConstantTypes, WindowStart
  <1>3. WindowStart(now) + Period <= now
    BY <1>1, <1>2, ConstantTypes DEF ConstantTypes, IInv, TypeOK
  <1> QED
    BY <1>1, <1>2, <1>3 DEF Windows, WindowStart, Past

LEMMA InitIInv == Init => IInv
  <1> SUFFICES ASSUME Init PROVE IInv
    OBVIOUS
  <1>1. TypeOK
    BY ZeroWindow, ConstantTypes DEF ConstantTypes, Init, TypeOK, Running, Ended
  <1>2. ClosedInv /\ TaskInv /\ ProofMatchesChain
    BY DEF Init, ClosedInv, TaskInv, ProofMatchesChain, Holding
  <1> QED
    BY <1>1, <1>2, ConstantTypes DEF ConstantTypes, Init, IInv

-----------------------------------------------------------------------------
\* What troubles a window is never forgotten.
LEMMA TroubleStays ==
  ASSUME IInv, NEW m \in Msgs, Task(m)
  PROVE  troubled \subseteq troubled' /\ troubled' \subseteq Windows
  <1>1. window[m] \in Windows /\ WindowStart(now) \in Windows /\ troubled \subseteq Windows
    BY ChosenWindow DEF IInv, TypeOK
  <1>2. \/ troubled' = troubled
        \/ troubled' = troubled \cup {window[m]}
        \/ troubled' = troubled \cup {WindowStart(now)}
    BY DEF Task, Start, StartFails, Fetch, NoData, FetchFails, Pin, PinFails, PinDisabled,
       SubmitMessage, SubmitFails, SubmitDisabled, Retry, GiveUp, Record, RecordRace,
       RecordFails, NoneTook, Trouble, faults
  <1> QED
    BY <1>1, <1>2

\* Documents and messages stay for ever, so what a proof points to stays.
LEMMA EvidenceStays ==
  ASSUME IInv, pins \subseteq pins', proofs' = proofs,
         \A i \in 1..Len(hcs) : i \in 1..Len(hcs') /\ hcs'[i] = hcs[i]
  PROVE  ProofMatchesChain'
  BY DEF IInv, ProofMatchesChain, Body

LEMMA Appended ==
  ASSUME TypeOK, NEW b \in Bodies
  PROVE  /\ Append(hcs, b) \in Seq(Bodies)
         /\ Len(Append(hcs, b)) = Len(hcs) + 1 /\ Len(hcs) \in Nat
         /\ \A i \in 1..Len(hcs) : Append(hcs, b)[i] = hcs[i]
         /\ Append(hcs, b)[Len(hcs) + 1] = b
  BY DEF TypeOK

\* The senders touch no task that runs.
LEMMA SendKeeps ==
  ASSUME IInv, NEW m \in Msgs, NEW mine, Send(m, mine), beatAt' \in Nat
  PROVE  IInv'
  <1>1. TypeOK'
    BY ConstantTypes DEF ConstantTypes, IInv, TypeOK, Send, ext, faults
  <1>2. ClosedInv'
    BY DEF IInv, TypeOK, ClosedInv, Sound, Past, Send, ext
  <1>3. TaskInv'
    BY DEF IInv, TypeOK, TaskInv, Holding, Send, ext
  <1>4. ProofMatchesChain'
    BY DEF IInv, ProofMatchesChain, Send, ext
  <1> QED
    BY <1>1, <1>2, <1>3, <1>4 DEF IInv, Send

LEMMA TickKeeps == ASSUME IInv, Tick PROVE IInv'
  <1>1. now \in Nat /\ now' = now + 1 /\ now' \in 0..MaxClock
    BY ConstantTypes DEF ConstantTypes, IInv, TypeOK, Tick
  <1>2. TypeOK'
    BY <1>1 DEF IInv, TypeOK, Tick, msg, ext, faults
  <1>3. \A w \in Windows : Past(w) => Past(w)'
    BY <1>1, ZeroWindow, ConstantTypes DEF ConstantTypes, Past
  <1>4. \A d \in Digests : d.window \in Windows /\ (Sound(d) => Sound(d)')
    BY <1>3 DEF Sound, Digests
  <1>5. ClosedInv'
    <2>1. pins' = pins /\ hcs' = hcs /\ digest' = digest /\ pc' = pc /\ window' = window
      BY DEF Tick, msg, ext
    <2>2. \A i \in 1..Len(hcs) : hcs[i].digest \in Digests
      <3>1. hcs \in Seq(Bodies)
        BY DEF IInv, TypeOK
      <3>2. \A i \in 1..Len(hcs) : hcs[i] \in Bodies
        BY <3>1
      <3>3. \A b \in Bodies : b.digest \in Digests
        BY DEF Bodies
      <3> QED
        BY <3>2, <3>3
    <2>3. \A d \in pins : Sound(d)'
      BY <1>4 DEF IInv, TypeOK, ClosedInv
    <2>4. \A i \in 1..Len(hcs) : Sound(hcs[i].digest)'
      BY <2>1, <2>2, <1>4 DEF IInv, ClosedInv
    <2>5. \A m \in Msgs : digest[m] # None => Sound(digest[m])'
      BY <2>1, <1>4 DEF IInv, TypeOK, ClosedInv
    <2>6. \A m \in Msgs : pc[m] = "fetch" => Past(window[m])'
      BY <2>1, <1>3 DEF IInv, TypeOK, ClosedInv
    <2> QED
      BY <2>1, <2>3, <2>4, <2>5, <2>6 DEF ClosedInv
  <1>6. TaskInv' /\ ProofMatchesChain'
    BY DEF IInv, TaskInv, ProofMatchesChain, Tick, msg, ext
  <1> QED
    BY <1>1, <1>2, <1>5, <1>6, ConstantTypes DEF ConstantTypes, IInv

\* A task that ends or is retried forgets all it held.
LEMMA LeaveKeeps ==
  ASSUME IInv, NEW m \in Msgs, NEW p \in {"queued", "done", "failed"}, Leave(m, p),
         now' = now, pins' = pins, hcs' = hcs
  PROVE  /\ pc' \in [Msgs -> {"none", "queued"} \cup Running \cup Ended]
         /\ window' \in [Msgs -> Windows]
         /\ digest' \in [Msgs -> Digests \cup {None}]
         /\ cid' \in [Msgs -> Digests \cup {None}] /\ seq' \in [Msgs -> Nat]
         /\ ClosedInv' /\ TaskInv'
  <1>1. /\ pc' \in [Msgs -> {"none", "queued"} \cup Running \cup Ended]
        /\ window' \in [Msgs -> Windows]
        /\ digest' \in [Msgs -> Digests \cup {None}]
        /\ cid' \in [Msgs -> Digests \cup {None}] /\ seq' \in [Msgs -> Nat]
    BY ZeroWindow DEF IInv, TypeOK, Leave, Goto, Ended
  <1>2. ClosedInv'
    BY DEF IInv, TypeOK, ClosedInv, Sound, Past, Leave, Goto
  <1>3. TaskInv'
    BY DEF IInv, TypeOK, TaskInv, Holding, Leave, Goto
  <1> QED
    BY <1>1, <1>2, <1>3

-----------------------------------------------------------------------------
(* One lemma per group of a task's steps.                                  *)

\* The steps after which the task is over or back in the queue and the proofs
\* table is as it was.
LEMMA EndingKeeps ==
  ASSUME IInv, NEW m \in Msgs, NEW p \in {"queued", "done", "failed"}, Leave(m, p),
         providers' = providers, now' = now, beatAt' = beatAt,
         pins' = pins, hcs' = hcs, proofs' = proofs,
         retries' \in [Msgs -> 0..MaxRetries], eta' \in [Msgs -> Nat],
         netFaults' = netFaults, crashes' = crashes, dbFaults' \in Nat,
         netFaults' + dbFaults' + crashes' <= MaxFaults, troubled' \subseteq Windows
  PROVE  IInv'
  <1>1. TypeOK'
    BY LeaveKeeps DEF IInv, TypeOK
  <1>2. ClosedInv' /\ TaskInv'
    BY LeaveKeeps
  <1>3. ProofMatchesChain'
    BY EvidenceStays
  <1> QED
    BY <1>1, <1>2, <1>3 DEF IInv

LEMMA StartKeeps ==
  ASSUME IInv, NEW m \in Msgs, Start(m) \/ StartFails(m)
  PROVE  IInv'
  <1>0. UNCHANGED <<providers, now, beatAt, retries, eta, digest, cid, seq, pins, hcs, proofs,
                    netFaults, crashes>> /\ pc[m] = "queued"
    BY DEF Start, StartFails, time, ext, faults, Ready, At
  <1>1. /\ pc' \in [Msgs -> {"none", "queued"} \cup Running \cup Ended]
        /\ window' \in [Msgs -> Windows]
        /\ dbFaults' \in Nat /\ netFaults + dbFaults' + crashes <= MaxFaults
    <2>1. CASE Start(m)
      BY <2>1, ChosenWindow DEF IInv, TypeOK, Start, Goto, Running, Ended, faults
    <2>2. CASE StartFails(m)
      BY <2>2, ConstantTypes DEF ConstantTypes, IInv, TypeOK, StartFails, Goto, Running, Ended,
         DbFault, MayFail
    <2> QED
      BY <2>1, <2>2
  <1>2. TypeOK'
    <2>1. troubled' \subseteq Windows
      BY TroubleStays DEF Task
    <2> QED
      BY <1>0, <1>1, <2>1 DEF IInv, TypeOK
  <1>3. /\ pc' = [pc EXCEPT ![m] = pc'[m]] /\ pc'[m] \in {"fetch", "done", "failed"}
        /\ window' = [window EXCEPT ![m] = window'[m]]
        /\ pc'[m] = "fetch" => Past(window'[m])
    <2>1. CASE Start(m)
      BY <2>1, ChosenWindow DEF IInv, TypeOK, Start, Goto
    <2>2. CASE StartFails(m)
      BY <2>2 DEF IInv, TypeOK, StartFails, Goto
    <2> QED
      BY <2>1, <2>2
  <1>4. ClosedInv'
    BY <1>0, <1>3 DEF IInv, TypeOK, ClosedInv, Sound, Past
  <1>5. TaskInv'
    BY <1>0, <1>3 DEF IInv, TypeOK, TaskInv, Holding
  <1>6. ProofMatchesChain'
    BY <1>0, EvidenceStays
  <1> QED
    BY <1>0, <1>2, <1>4, <1>5, <1>6 DEF IInv

LEMMA FetchKeeps == ASSUME IInv, NEW m \in Msgs, Fetch(m) PROVE IInv'
  <1>0. /\ UNCHANGED <<providers, now, beatAt, retries, eta, window, cid, seq, pins, hcs, proofs,
                       netFaults, dbFaults, crashes, troubled>>
        /\ pc[m] = "fetch" /\ pc' = [pc EXCEPT ![m] = "pin"]
    BY DEF Fetch, At, Goto, time, ext, faults
  <1>1. PICK d \in Digests :
          d = [window |-> window[m], from |-> CoverFrom(m)]
          /\ digest' = [digest EXCEPT ![m] = d]
    <2>1. window[m] \in Windows /\ window[m] <= now /\ window[m] \in Nat
      <3>1. window[m] \in Windows /\ Past(window[m])
        BY <1>0 DEF IInv, TypeOK, ClosedInv
      <3>2. window[m] \in Nat /\ now \in Nat
        <4>1. window[m] \in Nat
          BY <3>1, ZeroWindow
        <4>2. now \in Nat
          BY ConstantTypes DEF ConstantTypes, IInv, TypeOK
        <4> QED
          BY <4>1, <4>2
      <3> QED
        BY <3>1, <3>2, ConstantTypes DEF ConstantTypes, Past
    <2>2. CoverFrom(m) \in 0..MaxClock
      BY <2>1, LookBackNat, ConstantTypes DEF ConstantTypes, IInv, TypeOK, CoverFrom
    <2> QED
      BY <2>1, <2>2 DEF Digests, Fetch
  <1>2. d.window = window[m] /\ Sound(d)
    <2>1. window[m] \in Nat /\ Past(window[m])
      BY <1>0, ZeroWindow DEF IInv, TypeOK, ClosedInv
    <2>2. window[m] <= CoverFrom(m)
      BY <2>1, LookBackNat, ConstantTypes DEF ConstantTypes, IInv, TypeOK, CoverFrom
    <2>3. CoverFrom(m) < window[m] + Period
      BY DEF Fetch, HasRows
    <2> QED
      BY <1>1, <2>1, <2>2, <2>3 DEF Sound
  <1>3. TypeOK'
    BY <1>0, <1>1 DEF IInv, TypeOK, Running
  <1>4. ClosedInv'
    BY <1>0, <1>1, <1>2 DEF IInv, TypeOK, ClosedInv, Sound, Past
  <1>5. TaskInv'
    BY <1>0, <1>1, <1>2 DEF IInv, TypeOK, TaskInv, Holding
  <1>6. ProofMatchesChain'
    BY <1>0, EvidenceStays
  <1> QED
    BY <1>0, <1>3, <1>4, <1>5, <1>6 DEF IInv

LEMMA PinKeeps ==
  ASSUME IInv, NEW m \in Msgs, Pin(m) \/ PinFails(m) \/ PinDisabled(m)
  PROVE  IInv'
  <1>0. /\ UNCHANGED <<providers, now, beatAt, retries, eta, window, digest, seq, hcs, proofs,
                       dbFaults, crashes>>
        /\ pc[m] = "pin" /\ pc' = [pc EXCEPT ![m] = "submit"]
    BY DEF Pin, PinFails, PinDisabled, At, Goto, time, ext, faults
  <1>1. netFaults' \in Nat /\ netFaults' + dbFaults + crashes <= MaxFaults
    <2>1. /\ netFaults \in Nat /\ dbFaults \in Nat /\ crashes \in Nat /\ MaxFaults \in Nat
          /\ netFaults + dbFaults + crashes <= MaxFaults
      BY ConstantTypes DEF ConstantTypes, IInv, TypeOK
    <2>2. netFaults' = netFaults \/ NetFault
      BY DEF Pin, PinFails, PinDisabled, faults
    <2> QED
      BY <2>1, <2>2 DEF NetFault, MayFail
  <1>2. pins \subseteq pins' /\ pins' \subseteq pins \cup {digest[m]}
    BY DEF Pin, PinFails, PinDisabled, ext
  <1>3. cid' = cid \/ (cid' = [cid EXCEPT ![m] = digest[m]] /\ digest[m] \in pins')
    BY DEF Pin, PinFails, PinDisabled
  <1>4. digest[m] \in Digests /\ digest[m] # None /\ Sound(digest[m]) /\ cid[m] = None
    BY <1>0, NoneIsNew DEF IInv, TaskInv, ClosedInv, Holding
  <1>5. TypeOK'
    <2>1. troubled' \subseteq Windows
      BY TroubleStays DEF Task
    <2> QED
      BY <1>0, <1>1, <1>2, <1>3, <1>4, <2>1 DEF IInv, TypeOK, Running
  <1>6. ClosedInv'
    BY <1>0, <1>2, <1>4 DEF IInv, TypeOK, ClosedInv, Sound, Past
  <1>7. TaskInv'
    BY <1>0, <1>2, <1>3, <1>4 DEF IInv, TypeOK, TaskInv, Holding
  <1>8. ProofMatchesChain'
    BY <1>0, <1>2, EvidenceStays
  <1> QED
    BY <1>0, <1>5, <1>6, <1>7, <1>8 DEF IInv

\* The message a task submits carries the document it holds and its CID.
LEMMA PayloadType ==
  ASSUME IInv, NEW m \in Msgs, pc[m] = "submit"
  PROVE  /\ digest[m] \in Digests /\ digest[m] # None /\ Sound(digest[m])
         /\ Body(digest[m], cid[m]) \in Bodies
         /\ Body(digest[m], cid[m]).digest = digest[m]
  <1>1. digest[m] \in Digests /\ digest[m] # None /\ Sound(digest[m])
    BY NoneIsNew DEF IInv, TaskInv, ClosedInv, Holding
  <1>2. cid[m] \in Digests \cup {None}
    BY DEF IInv, TypeOK
  <1> QED
    BY <1>1, <1>2 DEF Body, Bodies

LEMMA SubmitKeeps ==
  ASSUME IInv, NEW m \in Msgs, SubmitMessage(m) \/ SubmitFails(m) \/ SubmitDisabled(m)
  PROVE  IInv'
  <1>0. /\ UNCHANGED <<providers, now, beatAt, retries, eta, window, digest, cid, pins, proofs,
                       dbFaults, crashes>>
        /\ pc[m] = "submit" /\ pc' = [pc EXCEPT ![m] = "decide"]
    BY DEF SubmitMessage, SubmitFails, SubmitDisabled, At, Goto, time, ext, faults
  <1>1. netFaults' \in Nat /\ netFaults' + dbFaults + crashes <= MaxFaults
    BY ConstantTypes DEF ConstantTypes, IInv, TypeOK, SubmitMessage, SubmitFails,
       SubmitDisabled, NetFault, MayFail, faults
  <1>2. PICK b \in Bodies : b = Body(digest[m], cid[m]) /\ Sound(b.digest)
    BY <1>0, PayloadType
  <1>3. hcs' = hcs \/ hcs' = Append(hcs, b)
    BY <1>2 DEF SubmitMessage, SubmitFails, SubmitDisabled, Payload, ext
  <1>4. seq' = seq \/ (seq' = [seq EXCEPT ![m] = Len(hcs) + 1] /\ hcs' = Append(hcs, b))
    BY <1>2 DEF SubmitMessage, SubmitFails, SubmitDisabled, Payload
  <1>5. /\ hcs' \in Seq(Bodies) /\ Len(hcs) \in Nat /\ Len(hcs') \in Nat
        /\ Len(hcs) <= Len(hcs')
        /\ \A i \in 1..Len(hcs) : hcs'[i] = hcs[i]
        /\ \A i \in 1..Len(hcs') : i \in 1..Len(hcs) \/ hcs'[i] = b
    <2>1. CASE hcs' = hcs
      BY <2>1 DEF IInv, TypeOK
    <2>2. CASE hcs' = Append(hcs, b)
      BY <2>2, Appended DEF IInv
    <2> QED
      BY <1>3, <2>1, <2>2
  <1>6. seq' = seq \/ (/\ seq' = [seq EXCEPT ![m] = Len(hcs) + 1]
                       /\ Len(hcs') = Len(hcs) + 1 /\ hcs'[Len(hcs) + 1] = b)
    BY <1>4, Appended DEF IInv
  <1>7. TypeOK'
    <2>1. seq' \in [Msgs -> Nat]
      BY <1>5, <1>6 DEF IInv, TypeOK
    <2>2. pc' \in [Msgs -> {"none", "queued"} \cup Running \cup Ended]
      BY <1>0 DEF IInv, TypeOK, Running
    <2>3. troubled' \subseteq Windows
      BY TroubleStays DEF Task
    <2> QED
      BY <1>0, <1>1, <1>5, <2>1, <2>2, <2>3 DEF IInv, TypeOK
  <1>8. ClosedInv'
    <2>1. \A i \in 1..Len(hcs') : Sound(hcs'[i].digest)
      BY <1>2, <1>5 DEF IInv, ClosedInv
    <2> QED
      BY <1>0, <2>1 DEF IInv, TypeOK, ClosedInv, Sound, Past
  <1>9. TaskInv'
    <2>1. ASSUME NEW o \in Msgs, o # m, seq[o] # 0
          PROVE  seq[o] \in 1..Len(hcs') /\ hcs'[seq[o]] = Body(digest[o], cid[o])
      <3>1. seq[o] \in 1..Len(hcs) /\ hcs[seq[o]] = Body(digest[o], cid[o])
        BY <2>1 DEF IInv, TaskInv
      <3> QED
        BY <1>5, <3>1
    <2>2. seq'[m] # 0 => seq'[m] \in 1..Len(hcs') /\ hcs'[seq'[m]] = Body(digest[m], cid[m])
      <3>1. seq[m] = 0
        BY <1>0 DEF IInv, TaskInv
      <3> QED
        BY <1>2, <1>5, <1>6, <3>1 DEF IInv, TypeOK
    <2>3. \A o \in Msgs : o # m => seq'[o] = seq[o] /\ pc'[o] = pc[o]
      BY <1>0, <1>6 DEF IInv, TypeOK
    <2>4. pc'[m] = "decide"
      BY <1>0 DEF IInv, TypeOK
    <2> QED
      BY <1>0, <2>1, <2>2, <2>3, <2>4 DEF IInv, TaskInv, Holding
  <1>10. ProofMatchesChain'
    BY <1>0, <1>5, EvidenceStays
  <1> QED
    BY <1>0, <1>7, <1>8, <1>9, <1>10 DEF IInv

LEMMA RetryKeeps == ASSUME IInv, NEW m \in Msgs, Retry(m) PROVE IInv'
  <1>1. Leave(m, "queued") /\ UNCHANGED <<time, ext, proofs, faults>>
    BY DEF Retry
  <1>2. retries' \in [Msgs -> 0..MaxRetries]
    BY ConstantTypes DEF ConstantTypes, IInv, TypeOK, Retry
  <1>3. eta' \in [Msgs -> Nat]
    <2>1. now + Countdown(retries[m]) \in Nat
      <3>1. retries[m] \in Nat /\ now \in Nat
        BY ConstantTypes DEF ConstantTypes, IInv, TypeOK
      <3>2. Countdown(retries[m]) \in Nat
        BY <3>1, CountdownNat
      <3> QED
        BY <3>1, <3>2
    <2> QED
      BY <2>1 DEF IInv, TypeOK, Retry
  <1> QED
    BY <1>1, <1>2, <1>3, EndingKeeps DEF IInv, TypeOK, time, ext, faults

\* The steps that end a task without a proof of its own.
LEMMA EndKeeps ==
  ASSUME IInv, NEW m \in Msgs,
         NoData(m) \/ FetchFails(m) \/ GiveUp(m) \/ RecordRace(m) \/ RecordFails(m)
  PROVE  IInv'
  <1>1. PICK p \in {"queued", "done", "failed"} : Leave(m, p)
    BY DEF NoData, FetchFails, GiveUp, RecordRace, RecordFails
  <1>2. UNCHANGED <<time, retries, eta, ext, proofs, netFaults, crashes>>
    BY DEF NoData, FetchFails, GiveUp, RecordRace, RecordFails, faults
  <1>3. dbFaults' \in Nat /\ netFaults + dbFaults' + crashes <= MaxFaults
    BY ConstantTypes DEF ConstantTypes, IInv, TypeOK, NoData, FetchFails, GiveUp, RecordRace,
       RecordFails, DbFault, MayFail, faults
  <1>4. troubled' \subseteq Windows
    BY TroubleStays DEF Task
  <1> QED
    BY <1>1, <1>2, <1>3, <1>4, EndingKeeps DEF IInv, TypeOK, time, ext

LEMMA RecordKeeps == ASSUME IInv, NEW m \in Msgs, Record(m) PROVE IInv'
  <1>0. /\ Leave(m, "done") /\ UNCHANGED <<time, retries, eta, ext, faults>>
        /\ pc[m] = "decide" /\ (cid[m] # None \/ seq[m] # 0)
    BY DEF Record, Either, At
  <1>1. /\ digest[m] \in Digests /\ digest[m].window = window[m]
        /\ cid[m] # None => cid[m] = digest[m] /\ cid[m] \in pins
        /\ seq[m] # 0 => seq[m] \in 1..Len(hcs) /\ hcs[seq[m]] = Body(digest[m], cid[m])
    BY <1>0 DEF IInv, TaskInv, Holding
  <1>2. cid[m] \in Digests \cup {None} /\ seq[m] \in Nat /\ window[m] \in Windows
    BY DEF IInv, TypeOK
  <1>3. PICK p \in ProofRows :
          /\ p.body = Body(digest[m], cid[m]) /\ p.cid = cid[m] /\ p.seq = seq[m]
          /\ p.body.digest = digest[m] /\ proofs' = [proofs EXCEPT ![window[m]] = p]
    BY <1>1, <1>2 DEF Record, Proof, ProofRows, Bodies, Body
  <1>4. TypeOK'
    BY <1>0, <1>3, LeaveKeeps DEF IInv, TypeOK, time, ext, faults
  <1>5. ClosedInv' /\ TaskInv'
    BY <1>0, LeaveKeeps DEF time, ext
  <1>6. ProofMatchesChain'
    BY <1>0, <1>1, <1>2, <1>3 DEF IInv, TypeOK, ProofMatchesChain, ext
  <1> QED
    BY <1>0, <1>4, <1>5, <1>6 DEF IInv, time

LEMMA CrashKeeps == ASSUME IInv, Crash PROVE IInv'
  <1>0. UNCHANGED <<providers, now, beatAt, retries, pins, hcs, proofs, netFaults, dbFaults>>
    BY DEF Crash, time, ext
  <1>1. TypeOK'
    <2>1. troubled' \subseteq Windows /\ eta' \in [Msgs -> Nat]
      BY ConstantTypes DEF ConstantTypes, IInv, TypeOK, Crash
    <2> QED
      BY <1>0, <2>1, ZeroWindow, ConstantTypes DEF ConstantTypes, IInv, TypeOK, Crash, MayFail
  <1>2. ClosedInv'
    BY <1>0 DEF IInv, TypeOK, ClosedInv, Sound, Past, Crash, Running
  <1>3. TaskInv'
    BY <1>0 DEF IInv, TypeOK, TaskInv, Holding, Crash, Running
  <1>4. ProofMatchesChain'
    BY <1>0, EvidenceStays
  <1> QED
    BY <1>0, <1>1, <1>2, <1>3, <1>4 DEF IInv

LEMMA NextIInv == IInv /\ [Next]_vars => IInv'
  <1> SUFFICES ASSUME IInv, [Next]_vars PROVE IInv'
    OBVIOUS
  <1>1. ASSUME NEW m \in Msgs, Beat(m) PROVE IInv'
    <2>1. Send(m, Msgs \ Manual) /\ beatAt' \in Nat
      BY <1>1, ConstantTypes DEF ConstantTypes, IInv, TypeOK, Beat
    <2> QED
      BY <2>1, SendKeeps
  <1>2. ASSUME NEW m \in Msgs, on_publish_now(m) PROVE IInv'
    <2>1. Send(m, Manual) /\ beatAt' \in Nat
      BY <1>2 DEF IInv, TypeOK, on_publish_now
    <2> QED
      BY <2>1, SendKeeps
  <1>3. ASSUME NEW m \in Msgs, Task(m) PROVE IInv'
    BY <1>3, StartKeeps, FetchKeeps, PinKeeps, SubmitKeeps, RetryKeeps, EndKeeps, RecordKeeps
       DEF Task
  <1>4. CASE UNCHANGED vars
    <2>1. TypeOK'
      BY <1>4 DEF IInv, TypeOK, vars, time, msg, ext, faults
    <2>2. ClosedInv'
      BY <1>4 DEF IInv, ClosedInv, Sound, Past, vars, time, msg, ext
    <2>3. TaskInv' /\ ProofMatchesChain'
      BY <1>4 DEF IInv, TaskInv, ProofMatchesChain, vars, msg, ext
    <2> QED
      BY <1>4, <2>1, <2>2, <2>3 DEF IInv, vars, time
  <1> QED
    BY <1>1, <1>2, <1>3, <1>4, TickKeeps, CrashKeeps DEF Next

THEOREM InductiveInvariant == Spec => []IInv
  <1> QED
    BY InitIInv, NextIInv, PTL DEF Spec

-----------------------------------------------------------------------------
\* Every variable keeps its type, the count of retries its limit, and the
\* clock its bound (publish_digest_task, external.py 143-288).
THEOREM TypeCorrect == Spec => []TypeOK
  <1>1. IInv => TypeOK
    BY DEF IInv
  <1> QED
    BY <1>1, InductiveInvariant, PTL

\* Only closed windows are published, whatever the period, the delay between
\* sending a message and running it, and the number of retries (176, 190).
THEOREM OnlyClosedWindows == Spec => []WindowClosed
  <1>1. IInv => WindowClosed
    BY DEF IInv, ClosedInv, Sound, Past, WindowClosed
  <1> QED
    BY <1>1, InductiveInvariant, PTL

\* Every proof row leads an auditor to evidence with the hash it records,
\* for any number of threads, overlapping tasks, lost answers and crashes
\* (218-219, 257-265).
THEOREM ProofsAreBacked == Spec => []ProofMatchesChain
  <1>1. IInv => ProofMatchesChain
    BY DEF IInv
  <1> QED
    BY <1>1, InductiveInvariant, PTL

-----------------------------------------------------------------------------
(* The refinement of the auditor's ledger, step by step.                   *)

LEMMA LedgerPin ==
  ASSUME IInv, NEW m \in Msgs, Pin(m) \/ PinFails(m)
  PROVE  [Ledger!Next]_(Ledger!vars)
  <1>1. digest[m] \in Digests
    BY DEF IInv, TaskInv, Holding, Pin, PinFails, At
  <1>2. hcs' = hcs /\ proofs' = proofs /\ (pins' = pins \/ pins' = pins \cup {digest[m]})
    BY DEF Pin, PinFails
  <1>3. CASE pins' = pins
    BY <1>2, <1>3 DEF Ledger!vars
  <1>4. CASE pins' = pins \cup {digest[m]}
    <2>1. Ledger!Pin(digest[m])
      BY <1>2, <1>4 DEF Ledger!Pin
    <2> QED
      BY <1>1, <2>1 DEF Ledger!Next
  <1> QED
    BY <1>2, <1>3, <1>4

LEMMA LedgerAppend ==
  ASSUME IInv, NEW m \in Msgs, SubmitMessage(m) \/ SubmitFails(m)
  PROVE  [Ledger!Next]_(Ledger!vars)
  <1>1. pc[m] = "submit"
    BY DEF SubmitMessage, SubmitFails, At
  <1>2. digest[m] \in Digests /\ cid[m] \in {digest[m], None}
    BY <1>1, PayloadType DEF IInv, TaskInv
  <1>3. pins' = pins /\ proofs' = proofs /\ (hcs' = hcs \/ hcs' = Payload(m))
    BY DEF SubmitMessage, SubmitFails, ext
  <1>4. CASE hcs' = hcs
    BY <1>3, <1>4 DEF Ledger!vars
  <1>5. CASE hcs' = Payload(m)
    <2>1. Ledger!Append1(digest[m], cid[m])
      BY <1>3, <1>5 DEF Ledger!Append1, Ledger!Body, Payload, Body
    <2> QED
      BY <1>2, <2>1 DEF Ledger!Next
  <1> QED
    BY <1>3, <1>4, <1>5

LEMMA LedgerProve ==
  ASSUME IInv, NEW m \in Msgs, Record(m)
  PROVE  Ledger!Next
  <1>1. pc[m] = "decide" /\ (cid[m] # None \/ seq[m] # 0) /\ proofs[window[m]] = None
        /\ pins' = pins /\ hcs' = hcs /\ proofs' = [proofs EXCEPT ![window[m]] = Proof(m)]
    BY DEF Record, Either, At, ext
  <1>2. /\ digest[m] \in Digests /\ digest[m].window = window[m]
        /\ cid[m] # None => cid[m] = digest[m] /\ cid[m] \in pins
        /\ seq[m] # 0 => seq[m] \in 1..Len(hcs) /\ hcs[seq[m]] = Body(digest[m], cid[m])
    BY <1>1 DEF IInv, TaskInv, Holding
  <1>3. window[m] \in Windows /\ seq[m] \in 0..Len(hcs)
    <2>1. window[m] \in Windows /\ seq[m] \in Nat /\ Len(hcs) \in Nat
      BY DEF IInv, TypeOK
    <2> QED
      BY <2>1, <1>2
  <1>4. Ledger!Prove(window[m], digest[m], cid[m], seq[m])
    BY <1>1, <1>2 DEF Ledger!Prove, Ledger!Backed, Ledger!Body, Proof, Body
  <1>5. cid[m] \in {digest[m], None}
    BY <1>2
  <1> QED
    BY <1>2, <1>3, <1>4, <1>5 DEF Ledger!Next

LEMMA LedgerStep == IInv /\ [Next]_vars => [Ledger!Next]_(Ledger!vars)
  <1> SUFFICES ASSUME IInv, [Next]_vars PROVE [Ledger!Next]_(Ledger!vars)
    OBVIOUS
  <1>1. ASSUME NEW m \in Msgs, Beat(m) \/ on_publish_now(m)
        PROVE  UNCHANGED Ledger!vars
    BY <1>1 DEF Beat, on_publish_now, Send, ext, Ledger!vars
  <1>2. ASSUME NEW m \in Msgs, Task(m)
        PROVE  [Ledger!Next]_(Ledger!vars)
    <2>1. CASE Pin(m) \/ PinFails(m)
      BY <2>1, LedgerPin
    <2>2. CASE SubmitMessage(m) \/ SubmitFails(m)
      BY <2>2, LedgerAppend
    <2>3. CASE Record(m)
      BY <2>3, LedgerProve
    <2>4. CASE \/ Start(m) \/ StartFails(m) \/ Fetch(m) \/ NoData(m) \/ FetchFails(m)
               \/ PinDisabled(m) \/ SubmitDisabled(m)
               \/ Retry(m) \/ GiveUp(m) \/ RecordRace(m) \/ RecordFails(m)
      BY <2>4 DEF Start, StartFails, Fetch, NoData, FetchFails, PinDisabled, SubmitDisabled,
         Retry, GiveUp, RecordRace, RecordFails, ext, Ledger!vars
    <2> QED
      BY <1>2, <2>1, <2>2, <2>3, <2>4 DEF Task
  <1>3. CASE Tick \/ Crash \/ UNCHANGED vars
    BY <1>3 DEF Tick, Crash, vars, ext, Ledger!vars
  <1> QED
    BY <1>1, <1>2, <1>3 DEF Next

\* publish_digest_task implements the ledger: a proof is written once, never
\* changed, and only after the document and the message it points to.
THEOREM ImplementsLedger == Spec => KeepsLedger
  <1>1. Init => Ledger!Init
    BY DEF Init, Ledger!Init
  <1> QED
    BY <1>1, LedgerStep, InductiveInvariant, PTL DEF Spec, KeepsLedger, Ledger!Spec

-----------------------------------------------------------------------------
(* How often a window is paid for.                                         *)

RunningTasks == {m \in Msgs : pc[m] \in Running}
\* the tasks of a window that may still submit a message
Unsent(w) == {m \in Msgs : window[m] = w /\ pc[m] \in {"fetch", "pin", "submit"}}
\* the tasks of a window that hold the receipt of their message
Receipts(w) == {m \in Msgs : window[m] = w /\ seq[m] # 0}
\* the messages whose task cannot write their proof any more
Lost == Threads * crashes + netFaults + dbFaults

\* Before a window has its proof, every message of it is in the hands of a
\* running task or was lost to a fault; afterwards no task starts on it.
PaidInv ==
  /\ Cardinality(RunningTasks) <= Threads
  /\ \A w \in Windows :
       IF proofs[w] = None
         THEN Cardinality(Published(w)) <= Cardinality(Receipts(w)) + Lost
         ELSE Cardinality(Published(w)) + Cardinality(Unsent(w)) <= Threads + Lost

LEMMA LostNat ==
  ASSUME TypeOK
  PROVE  Lost \in Nat /\ Threads \in Nat /\ Threads * crashes \in Nat
  <1>1. Threads \in Nat /\ crashes \in Nat /\ netFaults \in Nat /\ dbFaults \in Nat
    BY ConstantTypes DEF ConstantTypes, TypeOK
  <1>2. Threads * crashes \in Nat
    BY <1>1
  <1> QED
    BY <1>1, <1>2 DEF Lost

LEMMA Counts ==
  ASSUME TypeOK
  PROVE  /\ \A T \in SUBSET Msgs : IsFiniteSet(T) /\ Cardinality(T) \in Nat
         /\ RunningTasks \in SUBSET Msgs
         /\ \A w \in Windows : Unsent(w) \in SUBSET Msgs /\ Receipts(w) \in SUBSET Msgs
         /\ \A w \in Windows : IsFiniteSet(Published(w)) /\ Cardinality(Published(w)) \in Nat
         /\ Lost \in Nat /\ Threads \in Nat
  <1>1. ASSUME NEW T \in SUBSET Msgs
        PROVE  IsFiniteSet(T) /\ Cardinality(T) \in Nat
    <2>1. IsFiniteSet(Msgs)
      BY FS_Interval, ConstantTypes DEF ConstantTypes, Msgs
    <2>2. IsFiniteSet(T)
      BY <2>1, FS_Subset
    <2> QED
      BY <2>2, FS_CardinalityType
  <1>2. ASSUME NEW w \in Windows
        PROVE  IsFiniteSet(Published(w)) /\ Cardinality(Published(w)) \in Nat
    <2>1. Len(hcs) \in Int /\ Published(w) \in SUBSET (1..Len(hcs))
      BY DEF TypeOK, Published
    <2>2. IsFiniteSet(1..Len(hcs))
      BY <2>1, FS_Interval
    <2>3. IsFiniteSet(Published(w))
      BY <2>1, <2>2, FS_Subset
    <2> QED
      BY <2>3, FS_CardinalityType
  <1>3. Lost \in Nat /\ Threads \in Nat
    BY LostNat
  <1> QED
    BY <1>1, <1>2, <1>3 DEF RunningTasks, Unsent, Receipts

LEMMA Fewer ==
  ASSUME NEW S \in SUBSET Msgs, NEW T \in SUBSET S
  PROVE  Cardinality(T) <= Cardinality(S) /\ Cardinality(T) \in Nat /\ Cardinality(S) \in Nat
  <1>1. IsFiniteSet(Msgs)
    BY FS_Interval, ConstantTypes DEF ConstantTypes, Msgs
  <1>2. IsFiniteSet(S)
    BY <1>1, FS_Subset
  <1>3. IsFiniteSet(T) /\ Cardinality(T) <= Cardinality(S)
    BY <1>2, FS_Subset
  <1> QED
    BY <1>2, <1>3, FS_CardinalityType

\* A task that leaves a set of tasks leaves one fewer.
LEMMA OneFewer ==
  ASSUME NEW S \in SUBSET Msgs, NEW m
  PROVE  /\ Cardinality(S \ {m}) <= Cardinality(S)
         /\ Cardinality(S) <= Cardinality(S \ {m}) + 1
         /\ m \in S => Cardinality(S \ {m}) = Cardinality(S) - 1
         /\ Cardinality(S \cup {m}) <= Cardinality(S) + 1
         /\ m \notin S => Cardinality(S \cup {m}) = Cardinality(S) + 1
         /\ Cardinality(S) \in Nat
  <1>1. IsFiniteSet(S) /\ Cardinality(S) \in Nat
    <2>1. IsFiniteSet(Msgs)
      BY FS_Interval, ConstantTypes DEF ConstantTypes, Msgs
    <2>2. IsFiniteSet(S)
      BY <2>1, FS_Subset
    <2> QED
      BY <2>2, FS_CardinalityType
  <1>2. Cardinality(S \ {m}) = IF m \in S THEN Cardinality(S) - 1 ELSE Cardinality(S)
    BY <1>1, FS_RemoveElement
  <1>3. Cardinality(S \cup {m}) = IF m \in S THEN Cardinality(S) ELSE Cardinality(S) + 1
    BY <1>1, FS_AddElement
  <1> QED
    BY <1>1, <1>2, <1>3

\* A message with the document of window w is one more of that window.
LEMMA PublishedGrows ==
  ASSUME TypeOK, NEW b \in Bodies, hcs' = Append(hcs, b), NEW w \in Windows
  PROVE  /\ b.digest.window = w => Cardinality(Published(w)') = Cardinality(Published(w)) + 1
         /\ b.digest.window # w => Published(w)' = Published(w)
  <1>1. /\ Len(hcs') = Len(hcs) + 1 /\ Len(hcs) \in Nat
        /\ \A i \in 1..Len(hcs) : hcs'[i] = hcs[i]
        /\ hcs'[Len(hcs) + 1] = b
    BY Appended
  <1>2. IsFiniteSet(Published(w)) /\ Len(hcs) + 1 \notin Published(w)
    BY <1>1, Counts DEF Published
  <1>3. CASE b.digest.window = w
    <2>1. Published(w)' = Published(w) \cup {Len(hcs) + 1}
      BY <1>1, <1>3 DEF Published
    <2> QED
      BY <1>2, <1>3, <2>1, FS_AddElement
  <1>4. CASE b.digest.window # w
    BY <1>1, <1>4 DEF Published
  <1> QED
    BY <1>3, <1>4

LEMMA InitPaid == Init => PaidInv
  <1> SUFFICES ASSUME Init PROVE PaidInv
    OBVIOUS
  <1>1. TypeOK
    BY InitIInv DEF IInv
  <1>2. RunningTasks = {} /\ \A w \in Windows : proofs[w] = None /\ Published(w) = {}
    BY DEF Init, RunningTasks, Running, Published
  <1> QED
    BY <1>1, <1>2, Counts, FS_EmptySet DEF PaidInv

\* Steps that publish nothing, write no proof and lose no receipt.
LEMMA QuietKeepsPaid ==
  ASSUME TypeOK, TypeOK', PaidInv, hcs' = hcs, proofs' = proofs, crashes' = crashes,
         netFaults <= netFaults', dbFaults <= dbFaults',
         Cardinality(RunningTasks') <= Threads,
         \A w \in Windows : proofs[w] = None => Receipts(w) \subseteq Receipts(w)',
         \A w \in Windows : proofs[w] # None => Unsent(w)' \subseteq Unsent(w)
  PROVE  PaidInv'
  <1>1. Lost \in Nat /\ Lost' \in Nat /\ Lost <= Lost'
    <2>1. PICK x \in Nat : x = Threads * crashes
      BY LostNat
    <2>2. Lost = x + netFaults + dbFaults /\ Lost' = x + netFaults' + dbFaults'
      BY <2>1 DEF Lost
    <2>3. netFaults \in Nat /\ netFaults' \in Nat /\ dbFaults \in Nat /\ dbFaults' \in Nat
      BY DEF TypeOK
    <2> QED
      BY <2>1, <2>2, <2>3
  <1>2. ASSUME NEW w \in Windows
        PROVE  IF proofs'[w] = None
                 THEN Cardinality(Published(w)') <= Cardinality(Receipts(w)') + Lost'
                 ELSE Cardinality(Published(w)') + Cardinality(Unsent(w)') <= Threads + Lost'
    <2>1. Published(w)' = Published(w) /\ Cardinality(Published(w)) \in Nat
      BY Counts DEF Published
    <2>2. Receipts(w)' \in SUBSET Msgs /\ Unsent(w) \in SUBSET Msgs
      BY DEF Receipts, Unsent
    <2>3. CASE proofs[w] = None
      <3>1. Receipts(w) \in SUBSET Receipts(w)'
        BY <2>3
      <3>2. Cardinality(Receipts(w)) <= Cardinality(Receipts(w)')
            /\ Cardinality(Receipts(w)) \in Nat /\ Cardinality(Receipts(w)') \in Nat
        BY <3>1, <2>2, Fewer
      <3>3. Cardinality(Published(w)) <= Cardinality(Receipts(w)) + Lost
        BY <2>3 DEF PaidInv
      <3> QED
        BY <1>1, <2>1, <2>3, <3>2, <3>3
    <2>4. CASE proofs[w] # None
      <3>1. Unsent(w)' \in SUBSET Unsent(w)
        BY <2>4
      <3>2. Cardinality(Unsent(w)') <= Cardinality(Unsent(w))
            /\ Cardinality(Unsent(w)) \in Nat /\ Cardinality(Unsent(w)') \in Nat
        BY <3>1, <2>2, Fewer
      <3>3. Cardinality(Published(w)) + Cardinality(Unsent(w)) <= Threads + Lost
        BY <2>4 DEF PaidInv
      <3>4. Threads \in Nat
        BY Counts
      <3> QED
        BY <1>1, <2>1, <2>4, <3>2, <3>3, <3>4
    <2> QED
      BY <2>3, <2>4
  <1> QED
    BY <1>2 DEF PaidInv
\* A step of one task m; w is its window.
LEMMA StartKeepsPaid ==
  ASSUME IInv, IInv', PaidInv, NEW m \in Msgs, Start(m) \/ StartFails(m)
  PROVE  PaidInv'
  <1>1. /\ UNCHANGED <<hcs, proofs, seq, netFaults, crashes>> /\ dbFaults <= dbFaults'
        /\ pc[m] = "queued" /\ Cardinality(RunningTasks) < Threads
    BY DEF IInv, TypeOK, Start, StartFails, DbFault, ext, faults, Ready, At, Idle, RunningTasks
  <1>3. /\ pc' = [pc EXCEPT ![m] = pc'[m]] /\ pc'[m] \in {"fetch", "done", "failed"}
        /\ window' = [window EXCEPT ![m] = window'[m]]
        /\ pc'[m] = "fetch" => proofs[window'[m]] = None
    <2>1. CASE Start(m)
      BY <2>1, ChosenWindow DEF IInv, TypeOK, Start, Goto
    <2>2. CASE StartFails(m)
      BY <2>2 DEF IInv, TypeOK, StartFails, Goto
    <2> QED
      BY <2>1, <2>2
  <1>4. Cardinality(RunningTasks') <= Threads
    <2>1. RunningTasks \in SUBSET Msgs /\ RunningTasks' \in SUBSET (RunningTasks \cup {m})
          /\ RunningTasks \cup {m} \in SUBSET Msgs
      BY <1>1, <1>3 DEF IInv, TypeOK, RunningTasks
    <2>2. Cardinality(RunningTasks \cup {m}) <= Cardinality(RunningTasks) + 1
          /\ Cardinality(RunningTasks) \in Nat
      BY <2>1, OneFewer
    <2>3. Cardinality(RunningTasks') <= Cardinality(RunningTasks \cup {m})
          /\ Cardinality(RunningTasks') \in Nat /\ Cardinality(RunningTasks \cup {m}) \in Nat
      BY <2>1, Fewer
    <2> QED
      BY <1>1, <2>2, <2>3, LostNat DEF IInv
  <1>5. \A w \in Windows : proofs[w] = None => Receipts(w) \subseteq Receipts(w)'
    <2>1. seq[m] = 0
      BY <1>1 DEF IInv, TaskInv
    <2> QED
      BY <1>1, <1>3, <2>1 DEF IInv, TypeOK, Receipts
  <1>6. \A w \in Windows : proofs[w] # None => Unsent(w)' \subseteq Unsent(w)
    BY <1>1, <1>3 DEF IInv, TypeOK, Unsent
  <1>7. TypeOK /\ TypeOK'
    BY DEF IInv
  <1>8. netFaults <= netFaults'
    BY <1>1, <1>7 DEF TypeOK
  <1> QED
    BY <1>1, <1>4, <1>5, <1>6, <1>7, <1>8, QuietKeepsPaid

\* The steps of a running task that submit nothing and change no proof: what
\* it forgets when it ends is not the only receipt of an unproved window.
LEMMA OtherKeepsPaid ==
  ASSUME IInv, IInv', PaidInv, NEW m \in Msgs, pc[m] \in Running,
         pc' = [pc EXCEPT ![m] = pc'[m]], pc'[m] \notin {"fetch"},
         pc'[m] = "pin" => pc[m] = "fetch", pc'[m] = "submit" => pc[m] = "pin",
         \/ seq' = seq /\ window' = window
         \/ /\ seq' = [seq EXCEPT ![m] = 0] /\ window' = [window EXCEPT ![m] = 0]
            /\ pc'[m] \notin Running /\ (seq[m] = 0 \/ proofs[window[m]] # None),
         hcs' = hcs, proofs' = proofs, crashes' = crashes,
         netFaults <= netFaults', dbFaults <= dbFaults'
  PROVE  PaidInv'
  <1>1. TypeOK /\ TypeOK'
    BY DEF IInv
  <1>2. Cardinality(RunningTasks') <= Threads
    <2>1. RunningTasks \in SUBSET Msgs /\ RunningTasks' \in SUBSET RunningTasks
      BY <1>1 DEF TypeOK, RunningTasks
    <2>2. Cardinality(RunningTasks') <= Cardinality(RunningTasks)
          /\ Cardinality(RunningTasks') \in Nat /\ Cardinality(RunningTasks) \in Nat
      BY <2>1, Fewer
    <2>3. Cardinality(RunningTasks) <= Threads
      BY DEF PaidInv
    <2> QED
      BY <2>2, <2>3, <1>1, LostNat
  <1>3. ASSUME NEW w \in Windows, proofs[w] = None, NEW o \in Receipts(w)
        PROVE  o \in Receipts(w)'
    <2>1. o \in Msgs /\ window[o] = w /\ seq[o] # 0
      BY DEF Receipts
    <2>2. window'[o] = w /\ seq'[o] # 0
      BY <1>1, <1>3, <2>1 DEF TypeOK
    <2> QED
      BY <2>1, <2>2 DEF Receipts
  <1>4. ASSUME NEW w \in Windows, NEW o \in Unsent(w)'
        PROVE  o \in Unsent(w)
    <2>1. o \in Msgs /\ window'[o] = w /\ pc'[o] \in {"fetch", "pin", "submit"}
      BY <1>4 DEF Unsent
    <2>2. window[o] = w
      BY <1>1, <2>1 DEF TypeOK, Running
    <2>3. pc[o] \in {"fetch", "pin", "submit"}
      BY <1>1, <2>1 DEF TypeOK
    <2> QED
      BY <2>1, <2>2, <2>3 DEF Unsent
  <1> QED
    BY <1>1, <1>2, <1>3, <1>4, QuietKeepsPaid

LEMMA StepKeepsPaid ==
  ASSUME IInv, IInv', PaidInv, NEW m \in Msgs,
         \/ Fetch(m) \/ Pin(m) \/ PinFails(m) \/ PinDisabled(m) \/ SubmitDisabled(m)
  PROVE  PaidInv'
  <1>1. /\ pc[m] \in Running /\ pc' = [pc EXCEPT ![m] = pc'[m]]
        /\ pc'[m] # "fetch" /\ (pc'[m] = "pin" => pc[m] = "fetch")
        /\ (pc'[m] = "submit" => pc[m] = "pin")
    BY DEF IInv, TypeOK, Fetch, Pin, PinFails, PinDisabled, SubmitDisabled, At, Goto, Running
  <1>2. UNCHANGED <<seq, window, hcs, proofs, crashes, dbFaults>>
    BY DEF Fetch, Pin, PinFails, PinDisabled, SubmitDisabled, ext, faults
  <1>3. netFaults <= netFaults' /\ dbFaults <= dbFaults'
    BY <1>2 DEF IInv, TypeOK, Fetch, Pin, PinFails, PinDisabled, SubmitDisabled, NetFault, faults
  <1> QED
    BY <1>1, <1>2, <1>3, OtherKeepsPaid

LEMMA EndKeepsPaid ==
  ASSUME IInv, IInv', PaidInv, NEW m \in Msgs,
         NoData(m) \/ FetchFails(m) \/ Retry(m) \/ GiveUp(m) \/ RecordRace(m)
  PROVE  PaidInv'
  <1>1. PICK p \in {"queued", "done", "failed"} : Leave(m, p)
    BY DEF NoData, FetchFails, Retry, GiveUp, RecordRace
  <1>2. /\ pc[m] \in Running /\ pc' = [pc EXCEPT ![m] = pc'[m]] /\ pc'[m] = p
        /\ seq' = [seq EXCEPT ![m] = 0] /\ window' = [window EXCEPT ![m] = 0]
    BY <1>1 DEF IInv, TypeOK, Leave, Goto, NoData, FetchFails, Retry, GiveUp, RecordRace, At,
       Neither, Either, Running
  <1>3. seq[m] = 0 \/ proofs[window[m]] # None
    BY DEF IInv, TaskInv, NoData, FetchFails, Retry, GiveUp, RecordRace, At, Neither
  <1>4. UNCHANGED <<hcs, proofs, crashes, netFaults>>
    BY DEF NoData, FetchFails, Retry, GiveUp, RecordRace, ext, faults
  <1>5. netFaults <= netFaults' /\ dbFaults <= dbFaults'
    BY <1>4 DEF IInv, TypeOK, NoData, FetchFails, Retry, GiveUp, RecordRace, DbFault, faults
  <1> QED
    BY <1>2, <1>3, <1>4, <1>5, OtherKeepsPaid DEF Running

\* The threads that run, when m takes a step within its task or ends it.
LEMMA RunningStays ==
  ASSUME TypeOK, TypeOK', PaidInv, NEW m \in Msgs, pc[m] \in Running,
         pc' = [pc EXCEPT ![m] = pc'[m]]
  PROVE  Cardinality(RunningTasks') <= Threads
  <1>1. RunningTasks \in SUBSET Msgs /\ RunningTasks' \in SUBSET RunningTasks
    BY DEF TypeOK, RunningTasks
  <1>2. Cardinality(RunningTasks') <= Cardinality(RunningTasks)
        /\ Cardinality(RunningTasks') \in Nat /\ Cardinality(RunningTasks) \in Nat
    BY <1>1, Fewer
  <1>3. Cardinality(RunningTasks) <= Threads
    BY DEF PaidInv
  <1> QED
    BY <1>2, <1>3, LostNat

\* The message joins those of its window; its task joins the receipts or, when
\* the answer is lost, a fault is counted.
LEMMA SubmitKeepsPaid ==
  ASSUME IInv, IInv', PaidInv, NEW m \in Msgs, SubmitMessage(m) \/ SubmitFails(m)
  PROVE  PaidInv'
  <1>1. TypeOK /\ TypeOK'
    BY DEF IInv
  <1>2. /\ UNCHANGED <<window, proofs, dbFaults, crashes>>
        /\ pc[m] = "submit" /\ pc' = [pc EXCEPT ![m] = "decide"] /\ seq[m] = 0
    BY DEF IInv, TaskInv, SubmitMessage, SubmitFails, At, Goto, faults
  <1>3. Cardinality(RunningTasks') <= Threads
    BY <1>1, <1>2, RunningStays DEF TypeOK, Running
  <1>4. PICK b \in Bodies : b = Body(digest[m], cid[m]) /\ b.digest.window = window[m]
    BY <1>2, PayloadType DEF IInv, TaskInv, Holding
  <1>5. \/ hcs' = Append(hcs, b) /\ seq' = [seq EXCEPT ![m] = Len(hcs) + 1] /\ Lost' = Lost
        \/ (hcs' = hcs \/ hcs' = Append(hcs, b)) /\ seq' = seq /\ Lost' = Lost + 1
    <2>1. CASE SubmitMessage(m)
      BY <1>4, <2>1 DEF SubmitMessage, Payload, Lost, faults
    <2>2. CASE SubmitFails(m)
      <3>1. netFaults' = netFaults + 1 /\ netFaults \in Nat /\ dbFaults \in Nat
        BY <1>1, <2>2 DEF TypeOK, SubmitFails, NetFault
      <3>2. PICK x \in Nat : x = Threads * crashes
        BY <1>1, LostNat
      <3>3. Lost = x + netFaults + dbFaults /\ Lost' = x + netFaults' + dbFaults
        BY <1>2, <3>2 DEF Lost
      <3>4. Lost' = Lost + 1
        BY <3>1, <3>2, <3>3
      <3> QED
        BY <1>4, <2>2, <3>4 DEF SubmitFails, Payload
    <2> QED
      BY <2>1, <2>2
  <1>6. ASSUME NEW w \in Windows
        PROVE  IF proofs'[w] = None
                 THEN Cardinality(Published(w)') <= Cardinality(Receipts(w)') + Lost'
                 ELSE Cardinality(Published(w)') + Cardinality(Unsent(w)') <= Threads + Lost'
    <2>1. /\ Unsent(w)' = IF window[m] = w THEN Unsent(w) \ {m} ELSE Unsent(w)
          /\ window[m] = w => m \in Unsent(w)
      BY <1>1, <1>2 DEF TypeOK, Unsent
    <2>2. Cardinality(Unsent(w)') = IF window[m] = w THEN Cardinality(Unsent(w)) - 1
                                                     ELSE Cardinality(Unsent(w))
      BY <1>1, <2>1, Counts, OneFewer
    <2>3. Cardinality(Published(w)') = IF hcs' # hcs /\ window[m] = w
                                         THEN Cardinality(Published(w)) + 1
                                         ELSE Cardinality(Published(w))
      <3>1. CASE hcs' = hcs
        BY <3>1 DEF Published
      <3>2. CASE hcs' = Append(hcs, b) /\ hcs' # hcs
        BY <1>1, <1>4, <3>2, PublishedGrows
      <3> QED
        BY <1>5, <3>1, <3>2
    <2>4. CASE seq' = seq /\ Lost' = Lost + 1
      <3>1. Receipts(w)' = Receipts(w)
        BY <1>2, <2>4 DEF Receipts
      <3> QED
        BY <1>1, <1>2, <2>2, <2>3, <2>4, <3>1, Counts, Fewer DEF PaidInv
    <2>5. CASE seq' = [seq EXCEPT ![m] = Len(hcs) + 1] /\ Lost' = Lost
      <3>1. /\ Receipts(w)' = IF window[m] = w THEN Receipts(w) \cup {m} ELSE Receipts(w)
            /\ m \notin Receipts(w)
        <4>1. Len(hcs) + 1 # 0
          BY <1>1 DEF TypeOK
        <4>2. seq \in [Msgs -> Nat]
          BY <1>1 DEF TypeOK
        <4>3. \A k \in Msgs : seq'[k] # 0 <=> k = m \/ seq[k] # 0
          BY <2>5, <4>1, <4>2
        <4> QED
          BY <1>2, <4>3 DEF Receipts
      <3>2. Cardinality(Receipts(w)') = IF window[m] = w THEN Cardinality(Receipts(w)) + 1
                                                         ELSE Cardinality(Receipts(w))
        BY <1>1, <3>1, Counts, OneFewer
      <3> QED
        BY <1>1, <1>2, <2>2, <2>3, <2>5, <3>2, Counts, Fewer DEF PaidInv
    <2> QED
      BY <1>5, <2>4, <2>5
  <1> QED
    BY <1>3, <1>6 DEF PaidInv

\* A receipt that no proof records any more is paid for by the fault.
LEMMA RecordFailsKeepsPaid ==
  ASSUME IInv, IInv', PaidInv, NEW m \in Msgs, RecordFails(m)
  PROVE  PaidInv'
  <1>1. TypeOK /\ TypeOK'
    BY DEF IInv
  <1>2. /\ UNCHANGED <<hcs, proofs, netFaults, crashes>> /\ dbFaults' = dbFaults + 1
        /\ pc[m] = "decide" /\ pc' = [pc EXCEPT ![m] = "failed"]
        /\ seq' = [seq EXCEPT ![m] = 0] /\ window' = [window EXCEPT ![m] = 0]
    BY DEF RecordFails, Either, At, DbFault, Leave, Goto, ext
  <1>3. Cardinality(RunningTasks') <= Threads
    BY <1>1, <1>2, RunningStays DEF TypeOK, Running
  <1>4. Lost' = Lost + 1
    <2>1. PICK x \in Nat : x = Threads * crashes
      BY <1>1, LostNat
    <2>2. Lost = x + netFaults + dbFaults /\ Lost' = x + netFaults + dbFaults'
      BY <1>2, <2>1 DEF Lost
    <2>3. netFaults \in Nat /\ dbFaults \in Nat
      BY <1>1 DEF TypeOK
    <2> QED
      BY <1>2, <2>1, <2>2, <2>3
  <1>5. ASSUME NEW w \in Windows
        PROVE  IF proofs'[w] = None
                 THEN Cardinality(Published(w)') <= Cardinality(Receipts(w)') + Lost'
                 ELSE Cardinality(Published(w)') + Cardinality(Unsent(w)') <= Threads + Lost'
    <2>1. Published(w)' = Published(w) /\ Unsent(w)' = Unsent(w)
      BY <1>1, <1>2 DEF TypeOK, Published, Unsent
    <2>2. Receipts(w)' = Receipts(w) \ {m}
      BY <1>1, <1>2 DEF TypeOK, Receipts
    <2>3. Receipts(w) \in SUBSET Msgs
      BY DEF Receipts
    <2>4. Cardinality(Receipts(w)) <= Cardinality(Receipts(w)') + 1
          /\ Cardinality(Receipts(w)) \in Nat /\ Cardinality(Receipts(w)') \in Nat
      BY <2>2, <2>3, OneFewer, Fewer
    <2> QED
      BY <1>1, <1>2, <1>4, <2>1, <2>4, Counts DEF PaidInv
  <1> QED
    BY <1>3, <1>5 DEF PaidInv

LEMMA ProofIsNew ==
  ASSUME IInv, NEW m \in Msgs, pc[m] = "decide"
  PROVE  Proof(m) \in ProofRows /\ Proof(m) # None
  <1>1. digest[m] \in Digests /\ cid[m] \in Digests \cup {None} /\ seq[m] \in Nat
    BY DEF IInv, TaskInv, Holding, TypeOK
  <1> QED
    BY <1>1, NoneIsNew DEF Proof, ProofRows, Bodies, Body

\* From now on no task starts on the window: those that may still publish are
\* running already, beside those that hold a receipt.
LEMMA RecordKeepsPaid ==
  ASSUME IInv, IInv', PaidInv, NEW m \in Msgs, Record(m)
  PROVE  PaidInv'
  <1>1. TypeOK /\ TypeOK'
    BY DEF IInv
  <1>2. /\ UNCHANGED <<hcs, netFaults, dbFaults, crashes>> /\ window[m] \in Windows
        /\ proofs' = [proofs EXCEPT ![window[m]] = Proof(m)]
        /\ pc[m] = "decide" /\ pc' = [pc EXCEPT ![m] = "done"]
        /\ seq' = [seq EXCEPT ![m] = 0] /\ window' = [window EXCEPT ![m] = 0]
    BY <1>1 DEF Record, Either, At, Leave, Goto, ext, faults, TypeOK
  <1>3. Cardinality(RunningTasks') <= Threads
    BY <1>1, <1>2, RunningStays DEF TypeOK, Running
  <1>4. Lost' = Lost
    BY <1>2 DEF Lost
  <1>5. ASSUME NEW w \in Windows
        PROVE  IF proofs'[w] = None
                 THEN Cardinality(Published(w)') <= Cardinality(Receipts(w)') + Lost'
                 ELSE Cardinality(Published(w)') + Cardinality(Unsent(w)') <= Threads + Lost'
    <2>1. Published(w)' = Published(w) /\ Unsent(w)' = Unsent(w)
      BY <1>1, <1>2 DEF TypeOK, Published, Unsent
    <2>2. CASE w # window[m]
      <3>1. proofs'[w] = proofs[w] /\ Receipts(w)' = Receipts(w)
        BY <1>1, <1>2, <2>2 DEF TypeOK, Receipts
      <3> QED
        BY <1>4, <2>1, <3>1 DEF PaidInv
    <2>3. CASE w = window[m] /\ proofs[w] = None
      <3>1. proofs'[w] # None
        <4>1. proofs' \in [Windows -> ProofRows \cup {None}] /\ proofs'[w] = Proof(m)
          BY <1>1, <1>2, <2>3 DEF TypeOK
        <4> QED
          BY <1>2, <4>1, ProofIsNew
      <3>2. /\ Receipts(w) \cap Unsent(w) = {} /\ Receipts(w) \cup Unsent(w) \in SUBSET RunningTasks
            /\ RunningTasks \in SUBSET Msgs
        BY DEF IInv, TaskInv, Receipts, Unsent, RunningTasks, Running
      <3>3. Cardinality(Receipts(w) \cup Unsent(w))
              = Cardinality(Receipts(w)) + Cardinality(Unsent(w)) - Cardinality({})
        <4>1. IsFiniteSet(Receipts(w)) /\ IsFiniteSet(Unsent(w))
          BY <1>1, Counts
        <4> QED
          BY <4>1, <3>2, FS_Union
      <3>4. Cardinality(Receipts(w) \cup Unsent(w)) <= Cardinality(RunningTasks)
            /\ Cardinality(RunningTasks) \in Nat
        BY <3>2, Fewer
      <3>5. /\ Cardinality(Published(w)) \in Nat /\ Cardinality(Receipts(w)) \in Nat
            /\ Cardinality(Unsent(w)) \in Nat /\ Lost \in Nat /\ Threads \in Nat
        BY <1>1, Counts
      <3>6. /\ Cardinality(Published(w)) <= Cardinality(Receipts(w)) + Lost
            /\ Cardinality(RunningTasks) <= Threads
        BY <2>3 DEF PaidInv
      <3>7. Cardinality(Published(w)) + Cardinality(Unsent(w)) <= Threads + Lost
        BY <3>3, <3>4, <3>5, <3>6, FS_EmptySet
      <3> QED
        BY <1>4, <2>1, <3>1, <3>7
    <2> QED
      BY <2>2, <2>3 DEF Record
  <1> QED
    BY <1>3, <1>5 DEF PaidInv

\* A crash loses the receipts of as many tasks as there are threads.
LEMMA CrashKeepsPaid ==
  ASSUME IInv, IInv', PaidInv, Crash
  PROVE  PaidInv'
  <1>1. TypeOK /\ TypeOK'
    BY DEF IInv
  <1>2. /\ UNCHANGED <<hcs, proofs, netFaults, dbFaults>> /\ crashes' = crashes + 1
        /\ \A m \in Msgs : pc'[m] \notin Running /\ seq'[m] = 0
    BY DEF Crash, ext, Running
  <1>3. RunningTasks' = {} /\ \A w \in Windows : Receipts(w)' = {} /\ Unsent(w)' = {}
    BY <1>2 DEF RunningTasks, Receipts, Unsent, Running
  <1>4. Lost' = Lost + Threads
    <2>1. crashes \in Nat /\ Threads \in Nat /\ netFaults \in Nat /\ dbFaults \in Nat
      BY <1>1, ConstantTypes DEF TypeOK, ConstantTypes
    <2>2. Threads * (crashes + 1) = Threads * crashes + Threads /\ Threads * crashes \in Nat
      BY <2>1
    <2>3. PICK x \in Nat : x = Threads * crashes
      BY <2>2
    <2>4. Lost = x + netFaults + dbFaults /\ Lost' = x + Threads + netFaults + dbFaults
      BY <1>2, <2>2, <2>3 DEF Lost
    <2> QED
      BY <2>1, <2>3, <2>4
  <1>5. ASSUME NEW w \in Windows
        PROVE  IF proofs'[w] = None
                 THEN Cardinality(Published(w)') <= Cardinality(Receipts(w)') + Lost'
                 ELSE Cardinality(Published(w)') + Cardinality(Unsent(w)') <= Threads + Lost'
    <2>1. Published(w)' = Published(w)
      BY <1>2 DEF Published
    <2>2. Receipts(w) \in SUBSET RunningTasks /\ RunningTasks \in SUBSET Msgs
      BY DEF IInv, TaskInv, Receipts, RunningTasks, Running
    <2>3. Cardinality(Receipts(w)) <= Cardinality(RunningTasks)
      BY <2>2, Fewer
    <2>4. /\ Cardinality(Published(w)) \in Nat /\ Cardinality(Receipts(w)) \in Nat
          /\ Cardinality(Unsent(w)) \in Nat /\ Lost \in Nat /\ Threads \in Nat
          /\ Cardinality(RunningTasks) \in Nat
      BY <1>1, Counts
    <2>5. Cardinality(Published(w)) <= Threads + Lost
      BY <2>3, <2>4 DEF PaidInv
    <2>6. Cardinality(Receipts(w)') = 0 /\ Cardinality(Unsent(w)') = 0
          /\ Cardinality(Published(w)') = Cardinality(Published(w))
      BY <1>3, <2>1, FS_EmptySet
    <2> QED
      BY <1>4, <2>4, <2>5, <2>6
  <1> QED
    BY <1>1, <1>3, <1>5, LostNat, FS_EmptySet DEF PaidInv

LEMMA NextPaid == IInv /\ IInv' /\ PaidInv /\ [Next]_vars => PaidInv'
  <1> SUFFICES ASSUME IInv, IInv', PaidInv, [Next]_vars PROVE PaidInv'
    OBVIOUS
  <1>1. ASSUME NEW m \in Msgs, Task(m) PROVE PaidInv'
    BY <1>1, StartKeepsPaid, StepKeepsPaid, EndKeepsPaid, SubmitKeepsPaid, RecordFailsKeepsPaid,
       RecordKeepsPaid DEF Task
  <1>2. CASE Crash
    BY <1>2, CrashKeepsPaid
  <1>3. CASE Tick \/ UNCHANGED vars \/ \E m \in Msgs : Beat(m) \/ on_publish_now(m)
    <2>1. /\ UNCHANGED <<window, seq, hcs, proofs, netFaults, dbFaults, crashes>>
          /\ \A m \in Msgs : pc'[m] = pc[m] \/ (pc[m] = "none" /\ pc'[m] = "queued")
      BY <1>3 DEF IInv, TypeOK, Tick, Beat, on_publish_now, Send, vars, time, msg, ext, faults
    <2>2. RunningTasks' = RunningTasks /\ Lost' = Lost
      BY <2>1 DEF RunningTasks, Running, Lost
    <2>3. \A w \in Windows : Published(w)' = Published(w) /\ Receipts(w)' = Receipts(w)
                             /\ Unsent(w)' = Unsent(w)
      BY <2>1 DEF Published, Receipts, Unsent
    <2> QED
      BY <2>1, <2>2, <2>3 DEF PaidInv
  <1> QED
    BY <1>1, <1>2, <1>3 DEF Next

\* A window is paid for more than once only by tasks that overlap, a lost
\* receipt, a proof that could not be written and a crash, for any number of
\* threads, messages and faults (external.py 176-188, 219-265).
THEOREM DuplicatesAreBounded == Spec => []BoundedDuplicates
  <1>1. IInv /\ PaidInv => BoundedDuplicates
    <2> SUFFICES ASSUME IInv, PaidInv, NEW w \in Windows
                 PROVE  Cardinality(Published(w)) <= Threads * (1 + crashes) + netFaults + dbFaults
      BY DEF BoundedDuplicates
    <2>1. TypeOK
      BY DEF IInv
    <2>2. Threads * (1 + crashes) + netFaults + dbFaults = Threads + Lost
      <3>1. crashes \in Nat /\ Threads \in Nat /\ netFaults \in Nat /\ dbFaults \in Nat
        BY <2>1, ConstantTypes DEF TypeOK, ConstantTypes
      <3>2. Threads * (1 + crashes) = Threads + Threads * crashes /\ Threads * crashes \in Nat
        BY <3>1
      <3> QED
        BY <3>1, <3>2 DEF Lost
    <2>3. Receipts(w) \in SUBSET RunningTasks /\ RunningTasks \in SUBSET Msgs
      BY DEF IInv, TaskInv, Receipts, RunningTasks, Running
    <2>4. Cardinality(Receipts(w)) <= Cardinality(RunningTasks)
      BY <2>3, Fewer
    <2>5. /\ Cardinality(Published(w)) \in Nat /\ Cardinality(Receipts(w)) \in Nat
          /\ Cardinality(Unsent(w)) \in Nat /\ Lost \in Nat /\ Threads \in Nat
          /\ Cardinality(RunningTasks) \in Nat
      BY <2>1, Counts
    <2>6. Cardinality(Published(w)) <= Threads + Lost
      BY <2>4, <2>5 DEF PaidInv
    <2> QED
      BY <2>2, <2>6
  <1>2. Init => IInv /\ PaidInv
    BY InitIInv, InitPaid
  <1>3. IInv /\ PaidInv /\ [Next]_vars => (IInv /\ PaidInv)'
    BY NextIInv, NextPaid
  <1> QED
    BY <1>1, <1>2, <1>3, PTL DEF Spec

-----------------------------------------------------------------------------
(* No two windows in a row are missed.                                     *)

\* Beat, the queue and the fetch are at most Slack late.  A task that fetches
\* was sent before its window was two periods old.
OnTime ==
  /\ now <= beatAt + Slack /\ beatAt <= now + Period
  /\ \A m \in Msgs : pc[m] \in {"queued", "fetch"} => now <= eta[m] + Slack
  /\ \A m \in Msgs : pc[m] = "fetch" => eta[m] < window[m] + 2 * Period

\* When neither provider took a digest, its window is in trouble.
Excused == \A m \in Msgs : Neither(m) => window[m] \in troubled

\* A window is accounted for that a task chose at the time t or later.
Reached(t) ==
  \E v \in Windows : Accounted(v) /\ v + Period <= now /\ t < v + 2 * Period

\* The last message of Beat reached its window or waits for a thread; then the
\* message before it, at most one period and Slack older, has reached its own.
Followed ==
  \/ beatAt <= 2 * Period
  \/ Reached(beatAt - Period)
  \/ \E m \in Msgs :
       /\ pc[m] = "queued" /\ eta[m] + Period = beatAt
       /\ beatAt <= 3 * Period + Slack \/ Reached(beatAt - 2 * Period - Slack)

PaceInv == Timely => OnTime /\ Excused /\ Followed /\ NoTwoWindowsMissed

LEMMA SameMultiple ==
  ASSUME NEW i \in Nat, NEW j \in Nat,
         Period * i < Period * j + Period, Period * j < Period * i + Period
  PROVE  i = j
  <1>1. \A a, b \in Nat : Period * (a + b) = Period * a + Period * b
    BY ConstantTypes DEF ConstantTypes
  <1>2. \A a \in Nat : a >= 1 => Period * a >= Period
    BY ConstantTypes DEF ConstantTypes
  <1>3. \A a \in Nat : Period * a \in Nat
    BY ConstantTypes DEF ConstantTypes
  <1>4. ASSUME NEW a \in Nat, NEW b \in Nat, a < b PROVE Period * b >= Period * a + Period
    <2>1. PICK z \in Nat : z >= 1 /\ b = a + z
      <3>1. b - a \in Nat /\ b - a >= 1 /\ b = a + (b - a)
        BY <1>4
      <3> QED
        BY <3>1
    <2> QED
      BY <2>1, <1>1, <1>2, <1>3, ConstantTypes DEF ConstantTypes
  <1> QED
    BY <1>3, <1>4, ConstantTypes DEF ConstantTypes

\* A moment lies in one window only.
LEMMA OneWindow ==
  ASSUME NEW w \in Windows, NEW t \in Nat, w <= t, t < w + Period
  PROVE  floor_window(t) = w
  <1>1. PICK u \in 0..MaxClock : w = floor_window(u)
    BY DEF Windows
  <1>2. u \in Nat /\ Period \in Nat /\ Period > 0
    BY ConstantTypes DEF ConstantTypes
  <1>3. u = Period * (u \div Period) + (u % Period) /\ u \div Period \in Nat
        /\ t = Period * (t \div Period) + (t % Period) /\ t \div Period \in Nat
        /\ u % Period \in 0..(Period - 1) /\ t % Period \in 0..(Period - 1)
    BY <1>2
  <1>4. PICK i \in Nat, j \in Nat : w = Period * i /\ floor_window(t) = Period * j
                                    /\ Period * i \in Nat /\ Period * j \in Nat
    <2>1. w = Period * (u \div Period)
      BY <1>1, <1>2, <1>3 DEF floor_window
    <2>2. floor_window(t) = Period * (t \div Period)
      BY <1>2, <1>3 DEF floor_window
    <2>3. \A a \in Nat : Period * a \in Nat
      BY <1>2
    <2> QED
      BY <2>1, <2>2, <2>3, <1>3
  <1>5. floor_window(t) <= t /\ t < floor_window(t) + Period
    BY FloorWindow
  <1>6. i = j
    BY <1>2, <1>4, <1>5, SameMultiple
  <1> QED
    BY <1>4, <1>6

LEMMA LookBackCovers == LookBack \in Nat /\ LookBack >= Period
  <1>1. Period \in Nat /\ Minute \in Nat /\ Minute > 0
    BY ConstantTypes DEF ConstantTypes
  <1>2. PICK q \in Nat : q = Period \div Minute
    BY <1>1
  <1>3. Period = Minute * q + (Period % Minute) /\ Period % Minute \in 0..(Minute - 1)
    BY <1>1, <1>2
  <1>4. (q + 1) * Minute = Minute * q + Minute /\ Minute * q \in Nat
    BY <1>1
  <1>5. PICK y \in Nat : y = Minute * q
    BY <1>4
  <1>6. LookBack = y + Minute
    BY <1>2, <1>4, <1>5 DEF LookBack
  <1> QED
    BY <1>1, <1>3, <1>5, <1>6

\* The window a task chooses is the one before the present.
LEMMA Chosen ==
  ASSUME IInv
  PROVE  /\ WindowStart(now) \in Windows /\ WindowStart(now) \in Nat /\ now \in Nat
         /\ WindowStart(now) + Period <= now /\ now < WindowStart(now) + 2 * Period
         /\ Period \in Nat /\ Period > 0
         /\ \A w \in Windows :
              w \in Nat /\ (w + Period <= now /\ now < w + 2 * Period => w = WindowStart(now))
  <1>1. now - Period \in Nat /\ now \in Nat /\ Period \in Nat /\ Period > 0
    BY ConstantTypes DEF ConstantTypes, IInv, TypeOK
  <1>2. WindowStart(now) \in Windows /\ WindowStart(now) \in Nat
    BY ChosenWindow, ZeroWindow
  <1>3. WindowStart(now) + Period <= now /\ now < WindowStart(now) + 2 * Period
    <2>1. PICK t \in Nat : t = now - Period
      BY <1>1
    <2>2. WindowStart(now) <= t /\ t < WindowStart(now) + Period
      BY <2>1, FloorWindow DEF WindowStart
    <2> QED
      BY <1>1, <1>2, <2>1, <2>2
  <1>4. ASSUME NEW w \in Windows
        PROVE  w \in Nat /\ (w + Period <= now /\ now < w + 2 * Period => w = WindowStart(now))
    <2>1. w \in Nat
      BY ZeroWindow
    <2>2. w + Period <= now /\ now < w + 2 * Period => w <= now - Period /\ now - Period < w + Period
      BY <1>1, <2>1
    <2> QED
      BY <1>1, <2>1, <2>2, OneWindow DEF WindowStart
  <1> QED
    BY <1>1, <1>2, <1>3, <1>4

LEMMA Multiple == \A w \in Windows : \E i \in Nat : w = Period * i
  <1> SUFFICES ASSUME NEW u \in 0..MaxClock PROVE \E i \in Nat : floor_window(u) = Period * i
    BY DEF Windows
  <1>1. u \in Nat /\ Period \in Nat /\ Period > 0
    BY ConstantTypes DEF ConstantTypes
  <1>2. u = Period * (u \div Period) + (u % Period) /\ u \div Period \in Nat
        /\ u % Period \in 0..(Period - 1)
    BY <1>1
  <1>3. PICK x \in Nat : x = Period * (u \div Period)
    BY <1>1, <1>2
  <1>4. floor_window(u) = x
    BY <1>1, <1>2, <1>3 DEF floor_window
  <1> QED
    BY <1>2, <1>3, <1>4

\* What comes less than two periods after a window begins is in that window or
\* in the next.
LEMMA NextWindow ==
  ASSUME NEW v \in Windows, NEW w \in Windows, w < v + Period, v < w + 2 * Period
  PROVE  v = w \/ v = w + Period
  <1>1. v \in Nat /\ w \in Nat /\ Period \in Nat /\ Period > 0
    BY ZeroWindow, ConstantTypes DEF ConstantTypes
  <1>2. floor_window(v) = v
    BY <1>1, OneWindow
  <1>3. CASE v < w + Period
    <2>1. w <= v \/ v <= w
      BY <1>1
    <2>2. w <= v => v = w
      BY <1>1, <1>2, <1>3, OneWindow
    <2>3. v <= w => v = w
      <3>1. v <= w => floor_window(w) = v
        BY <1>1, OneWindow
      <3>2. floor_window(w) = w
        BY <1>1, OneWindow
      <3> QED
        BY <3>1, <3>2
    <2> QED
      BY <2>1, <2>2, <2>3
  <1>4. CASE w + Period <= v
    <2>1. PICK i \in Nat, j \in Nat : w = Period * i /\ v = Period * j
      BY Multiple
    <2>2. PICK k \in Nat : k = i + 1 /\ Period * k = w + Period
      <3>1. \A a \in Nat : Period * (a + 1) = Period * a + Period
        BY <1>1
      <3> QED
        BY <2>1, <3>1
    <2>3. k = j
      BY <1>1, <1>4, <2>1, <2>2, SameMultiple
    <2> QED
      BY <2>1, <2>2, <2>3
  <1> QED
    BY <1>1, <1>3, <1>4

\* The window after one that has ended is a window as well.
LEMMA WindowAfter ==
  ASSUME IInv, NEW w \in Windows, w + 3 * Period <= now
  PROVE  w + Period \in Windows
  <1>1. /\ w \in Nat /\ Period \in Nat /\ Period > 0 /\ now \in Nat /\ MaxClock \in Nat
        /\ now <= MaxClock /\ w + Period \in 0..MaxClock
    <2>1. /\ w \in Nat /\ Period \in Nat /\ Period > 0 /\ MaxClock \in Nat
          /\ now \in 0..MaxClock
      BY ZeroWindow, ConstantTypes DEF ConstantTypes, IInv, TypeOK
    <2> QED
      BY <2>1
  <1>2. PICK i \in Nat : w = Period * i
    BY Multiple
  <1>3. PICK v \in Nat : v = w + Period
    BY <1>1
  <1>4. PICK j \in Nat : floor_window(v) = Period * j
    <2>1. floor_window(v) \in Windows
      BY <1>1, <1>3 DEF Windows
    <2> QED
      BY <2>1, Multiple
  <1>5. PICK k \in Nat : k = i + 1 /\ Period * k = v
    <2>1. \A a \in Nat : Period * (a + 1) = Period * a + Period
      BY <1>1
    <2> QED
      BY <1>2, <1>3, <2>1
  <1>6. floor_window(v) <= v /\ v < floor_window(v) + Period /\ floor_window(v) \in Nat
    BY FloorWindow
  <1>7. k = j
    BY <1>1, <1>4, <1>5, <1>6, SameMultiple
  <1>8. floor_window(v) = v
    BY <1>4, <1>5, <1>7
  <1> QED
    BY <1>1, <1>3, <1>8 DEF Windows

LEMMA InitPace == Init => PaceInv
  <1> SUFFICES ASSUME Init PROVE OnTime /\ Excused /\ Followed /\ NoTwoWindowsMissed
    BY DEF PaceInv
  <1>1. OnTime /\ Excused
    BY ConstantTypes DEF ConstantTypes, Init, OnTime, Excused, Neither, At
  <1>2. Followed
    BY ConstantTypes DEF ConstantTypes, Init, Followed
  <1>3. NoTwoWindowsMissed
    <2>1. \A w \in Windows : ~(w + 3 * Period <= now)
      BY ZeroWindow, ConstantTypes DEF ConstantTypes, Init
    <2> QED
      BY <2>1 DEF NoTwoWindowsMissed
  <1> QED
    BY <1>1, <1>2, <1>3

\* A step of a task touches no other task and leaves the clock alone.
LEMMA TaskFrame ==
  ASSUME IInv, NEW m \in Msgs, Task(m)
  PROVE  /\ UNCHANGED <<now, beatAt>>
         /\ \A k \in Msgs \ {m} : /\ pc'[k] = pc[k] /\ window'[k] = window[k]
                                   /\ eta'[k] = eta[k] /\ cid'[k] = cid[k] /\ seq'[k] = seq[k]
         /\ \A w \in Windows : proofs[w] # None => proofs'[w] = proofs[w]
  <1>1. CASE Start(m) \/ StartFails(m) \/ Fetch(m) \/ NoData(m) \/ FetchFails(m)
    BY <1>1 DEF IInv, TypeOK, Start, StartFails, Fetch, NoData, FetchFails, Goto, Leave, time, ext
  <1>2. CASE Pin(m) \/ PinFails(m) \/ PinDisabled(m)
    BY <1>2 DEF IInv, TypeOK, Pin, PinFails, PinDisabled, Goto, time, ext
  <1>3. CASE SubmitMessage(m) \/ SubmitFails(m) \/ SubmitDisabled(m)
    BY <1>3 DEF IInv, TypeOK, SubmitMessage, SubmitFails, SubmitDisabled, Goto, time, ext
  <1>4. CASE Retry(m) \/ GiveUp(m) \/ RecordRace(m) \/ RecordFails(m)
    BY <1>4 DEF IInv, TypeOK, Retry, GiveUp, RecordRace, RecordFails, Leave, Goto, time, ext
  <1>5. CASE Record(m)
    BY <1>5 DEF IInv, TypeOK, Record, Leave, Goto, time, ext
  <1> QED
    BY <1>1, <1>2, <1>3, <1>4, <1>5 DEF Task

\* The window of a task that fetches is silent, or its rows are in the answer.
LEMMA RowsThere ==
  ASSUME IInv, Timely, OnTime, NEW m \in Msgs, pc[m] = "fetch", window[m] \notin Silent
  PROVE  HasRows(m)
  <1>1. /\ window[m] \in Nat /\ now \in Nat /\ eta[m] \in Nat
        /\ Period \in Nat /\ Period > 0 /\ Slack \in Nat
    <2>1. window[m] \in Windows /\ eta[m] \in Nat
      BY DEF IInv, TypeOK
    <2> QED
      BY <2>1, Chosen, ConstantTypes DEF ConstantTypes
  <1>2. now <= eta[m] + Slack /\ eta[m] < window[m] + 2 * Period /\ Slack <= LookBack - Period
    BY DEF OnTime, Timely
  <1>3. now - LookBack < window[m] + Period
    BY <1>1, <1>2, LookBackNat
  <1> QED
    BY <1>1, <1>3 DEF HasRows, CoverFrom

\* A task that works on a window goes on, or has proved it, or leaves it with
\* the reason.
LEMMA TaskAccounts ==
  ASSUME IInv, Timely, OnTime, Excused, NEW m \in Msgs, Task(m), pc[m] \in Running
  PROVE  \/ pc'[m] \in Running /\ window'[m] = window[m]
         \/ proofs'[window[m]] # None
         \/ window[m] \in Silent \cup troubled'
  <1>0. window[m] \in Windows
    BY DEF IInv, TypeOK
  <1>1. CASE Fetch(m) \/ Pin(m) \/ PinFails(m) \/ PinDisabled(m)
             \/ SubmitMessage(m) \/ SubmitFails(m) \/ SubmitDisabled(m)
    BY <1>1 DEF IInv, TypeOK, Fetch, Pin, PinFails, PinDisabled, SubmitMessage, SubmitFails,
       SubmitDisabled, Goto, Running
  <1>2. CASE NoData(m)
    BY <1>2, RowsThere DEF NoData, At
  <1>3. CASE FetchFails(m) \/ RecordFails(m)
    BY <1>3 DEF FetchFails, RecordFails, Trouble
  <1>4. CASE Retry(m) \/ GiveUp(m)
    BY <1>4 DEF Retry, GiveUp, Excused, faults
  <1>5. CASE Record(m)
    <2>1. Proof(m) # None /\ proofs' = [proofs EXCEPT ![window[m]] = Proof(m)]
      BY <1>5, ProofIsNew DEF Record, Either, At
    <2> QED
      BY <1>0, <2>1 DEF IInv, TypeOK
  <1>6. CASE RecordRace(m)
    BY <1>6 DEF RecordRace, Either
  <1>7. CASE Start(m) \/ StartFails(m)
    BY <1>7 DEF Start, StartFails, Ready, At, Running
  <1> QED
    BY <1>1, <1>2, <1>3, <1>4, <1>5, <1>6, <1>7 DEF Task

LEMMA AccountedStays ==
  ASSUME IInv, Timely, OnTime, Excused, Next, NEW w \in Windows, Accounted(w)
  PROVE  Accounted(w)'
  <1>1. ASSUME NEW m \in Msgs, Task(m) PROVE Accounted(w)'
    <2>1. CASE proofs[w] # None \/ w \in Silent \cup troubled
      BY <1>1, <2>1, TaskFrame, TroubleStays DEF Accounted
    <2>2. CASE AtWork(w)
      <3>1. PICK k \in Msgs : pc[k] \in Running /\ window[k] = w
        BY <2>2 DEF AtWork
      <3>2. CASE k = m
        BY <1>1, <3>1, <3>2, TaskAccounts DEF Accounted, AtWork
      <3>3. CASE k # m
        BY <1>1, <3>1, <3>3, TaskFrame DEF Accounted, AtWork
      <3> QED
        BY <3>2, <3>3
    <2> QED
      BY <2>1, <2>2 DEF Accounted
  <1>2. ASSUME NEW m \in Msgs, Beat(m) \/ on_publish_now(m) PROVE Accounted(w)'
    <2>1. /\ UNCHANGED <<window, proofs, troubled>>
          /\ \A k \in Msgs : pc[k] \in Running => pc'[k] = pc[k]
      BY <1>2 DEF IInv, TypeOK, Beat, on_publish_now, Send, Running, faults
    <2> QED
      BY <2>1 DEF Accounted, AtWork
  <1>3. CASE Tick
    BY <1>3 DEF Tick, Accounted, AtWork, msg, faults
  <1>4. CASE Crash
    <2>1. UNCHANGED proofs /\ troubled \subseteq troubled'
      BY <1>4 DEF Crash
    <2>2. AtWork(w) => w \in troubled'
      BY <1>4 DEF Crash, AtWork
    <2> QED
      BY <2>1, <2>2 DEF Accounted
  <1> QED
    BY <1>1, <1>2, <1>3, <1>4 DEF Next

LEMMA ReachedStays ==
  ASSUME IInv, Timely, OnTime, Excused, Next, now' \in Nat, now' >= now,
         NEW t \in Int, Reached(t)
  PROVE  Reached(t)'
  <1>1. PICK v \in Windows : Accounted(v) /\ v + Period <= now /\ t < v + 2 * Period
    BY DEF Reached
  <1>2. Accounted(v)'
    BY <1>1, AccountedStays
  <1>3. v + Period <= now'
    BY <1>1, ZeroWindow, ConstantTypes DEF ConstantTypes, IInv, TypeOK
  <1> QED
    BY <1>1, <1>2, <1>3 DEF Reached

LEMMA TaskOnTime ==
  ASSUME IInv, OnTime, NEW m \in Msgs, Task(m)
  PROVE  OnTime'
  <1>1. /\ now \in Nat /\ eta[m] \in Nat /\ Slack \in Nat /\ Period \in Nat
        /\ WindowStart(now) \in Nat /\ now < WindowStart(now) + 2 * Period
    BY Chosen, ConstantTypes DEF ConstantTypes, IInv, TypeOK
  <1>2. /\ pc'[m] \in {"queued", "fetch"} => now <= eta'[m] + Slack
        /\ pc'[m] = "fetch" => eta'[m] < window'[m] + 2 * Period
    <2>1. CASE Start(m)
      <3>1. /\ pc[m] = "queued" /\ eta[m] <= now /\ eta'[m] = eta[m]
            /\ pc'[m] = "fetch" => window'[m] = WindowStart(now)
        BY <2>1 DEF IInv, TypeOK, Start, Ready, At, Goto
      <3> QED
        BY <1>1, <3>1 DEF OnTime
    <2>2. CASE Retry(m)
      <3>1. Countdown(retries[m]) \in Nat
        BY CountdownNat, ConstantTypes DEF ConstantTypes, IInv, TypeOK
      <3>2. pc'[m] = "queued" /\ eta'[m] = now + Countdown(retries[m])
        BY <2>2 DEF IInv, TypeOK, Retry, Leave, Goto
      <3> QED
        BY <1>1, <3>1, <3>2
    <2>3. CASE ~(Start(m) \/ Retry(m))
      BY <2>3 DEF IInv, TypeOK, Task, StartFails, Fetch, NoData, FetchFails, Pin, PinFails,
         PinDisabled, SubmitMessage, SubmitFails, SubmitDisabled, GiveUp, Record, RecordRace,
         RecordFails, Leave, Goto
    <2> QED
      BY <2>1, <2>2, <2>3
  <1> QED
    BY <1>2, TaskFrame DEF OnTime

LEMMA TaskExcused ==
  ASSUME IInv, Excused, NEW m \in Msgs, Task(m)
  PROVE  Excused'
  <1>1. ASSUME pc'[m] = "decide", cid'[m] = None, seq'[m] = 0
        PROVE  window'[m] \in troubled'
    <2>1. SubmitMessage(m) \/ SubmitFails(m) \/ SubmitDisabled(m)
      BY <1>1 DEF IInv, TypeOK, Task, Start, StartFails, Fetch, NoData, FetchFails, Pin,
         PinFails, PinDisabled, Retry, GiveUp, Record, RecordRace, RecordFails, Leave, Goto
    <2>2. CASE SubmitMessage(m)
      <3>1. Len(hcs) + 1 # 0 /\ seq'[m] = Len(hcs) + 1
        BY <2>2 DEF IInv, TypeOK, SubmitMessage
      <3> QED
        BY <1>1, <3>1
    <2>3. CASE SubmitFails(m) \/ SubmitDisabled(m)
      BY <1>1, <2>3 DEF SubmitFails, SubmitDisabled, NoneTook, Trouble
    <2> QED
      BY <2>1, <2>2, <2>3
  <1> QED
    BY <1>1, TaskFrame, TroubleStays DEF Excused, Neither, At

\* A task that starts reaches the window that was last closed.
LEMMA TaskFollowed ==
  ASSUME IInv, Timely, OnTime, Excused, Followed, NEW m \in Msgs, Task(m)
  PROVE  Followed'
  <1>0. /\ now \in Nat /\ now' = now /\ beatAt \in Nat /\ beatAt' = beatAt
        /\ Period \in Nat /\ Slack \in Nat
    BY TaskFrame, Chosen, ConstantTypes DEF ConstantTypes, IInv, TypeOK
  <1>1. ASSUME NEW t \in Int, Reached(t) PROVE Reached(t)'
    BY <1>0, <1>1, ReachedStays DEF Next
  <1>2. CASE beatAt <= 2 * Period
    BY <1>0, <1>2 DEF Followed
  <1>3. CASE Reached(beatAt - Period)
    <2>1. Reached(beatAt - Period)'
      <3>1. PICK t \in Int : t = beatAt - Period
        BY <1>0
      <3> QED
        BY <1>0, <1>1, <1>3, <3>1 DEF Reached
    <2> QED
      BY <2>1 DEF Followed
  <1>4. ASSUME NEW k \in Msgs, pc[k] = "queued", eta[k] + Period = beatAt,
               beatAt <= 3 * Period + Slack \/ Reached(beatAt - 2 * Period - Slack)
        PROVE  Followed'
    <2>1. CASE k # m
      <3>1. pc'[k] = "queued" /\ eta'[k] = eta[k]
        BY <1>4, <2>1, TaskFrame
      <3>2. PICK t \in Int : t = beatAt - 2 * Period - Slack
        BY <1>0
      <3>3. Reached(t) => Reached(t)'
        BY <1>1
      <3>4. Reached(beatAt - 2 * Period - Slack) => Reached(beatAt - 2 * Period - Slack)'
        BY <1>0, <3>2, <3>3 DEF Reached
      <3> QED
        BY <1>0, <1>4, <3>1, <3>4 DEF Followed
    <2>2. CASE k = m
      <3>1. Start(m) \/ StartFails(m)
        BY <1>4, <2>2 DEF Task, Start, StartFails, Fetch, NoData, FetchFails, Pin, PinFails,
           PinDisabled, SubmitMessage, SubmitFails, SubmitDisabled, Retry, GiveUp, Record,
           RecordRace, RecordFails, Neither, Either, At
      <3>2. eta[m] <= now
        BY <3>1 DEF Start, StartFails, Ready
      <3>3. PICK v \in Windows :
              /\ v = WindowStart(now) /\ v \in Nat
              /\ v + Period <= now /\ now < v + 2 * Period
        BY Chosen
      <3>4. Accounted(v)'
        <4>1. CASE Start(m)
          <5>1. \/ proofs'[v] # None
                \/ pc'[m] = "fetch" /\ window'[m] = v
            BY <3>3, <4>1 DEF IInv, TypeOK, Start, Goto
          <5> QED
            BY <5>1 DEF Accounted, AtWork, Running
        <4>2. CASE StartFails(m)
          BY <3>3, <4>2 DEF StartFails, Trouble, Accounted
        <4> QED
          BY <3>1, <4>1, <4>2
      <3>5. beatAt - Period < v + 2 * Period
        <4>1. eta[m] \in Nat
          BY DEF IInv, TypeOK
        <4> QED
          BY <1>0, <1>4, <2>2, <3>2, <3>3, <4>1
      <3>6. Reached(beatAt - Period)'
        BY <1>0, <3>3, <3>4, <3>5 DEF Reached
      <3> QED
        BY <3>6 DEF Followed
    <2> QED
      BY <2>1, <2>2
  <1> QED
    BY <1>2, <1>3, <1>4 DEF Followed

\* A new message of Beat is due one period after the last, which has reached
\* its window by then.
LEMMA SendPace ==
  ASSUME IInv, Timely, OnTime, Excused, Followed, NEW m \in Msgs,
         Beat(m) \/ on_publish_now(m)
  PROVE  OnTime' /\ Excused' /\ Followed'
  <1>0. /\ now \in Nat /\ beatAt \in Nat /\ Period \in Nat /\ Slack \in Nat
        /\ \A k \in Msgs : eta[k] \in Nat
    BY Chosen, ConstantTypes DEF ConstantTypes, IInv, TypeOK
  <1>1. /\ UNCHANGED <<now, window, cid, seq, proofs, troubled>>
        /\ pc' = [pc EXCEPT ![m] = "queued"] /\ eta' = [eta EXCEPT ![m] = now]
        /\ pc[m] = "none"
        /\ beatAt' = beatAt \/ (beatAt <= now /\ beatAt' = now + Period)
    BY DEF Beat, on_publish_now, Send, faults
  <1>2. /\ pc'[m] = "queued" /\ eta'[m] = now
        /\ \A k \in Msgs \ {m} : pc'[k] = pc[k] /\ eta'[k] = eta[k]
    BY <1>1 DEF IInv, TypeOK
  <1>3. OnTime'
    BY <1>0, <1>1, <1>2 DEF OnTime
  <1>4. Excused'
    BY <1>1, <1>2 DEF Excused, Neither, At
  <1>5. ASSUME NEW t \in Int, Reached(t) PROVE Reached(t)'
    BY <1>0, <1>1, <1>5, ReachedStays DEF Next
  <1>6. ASSUME beatAt' = beatAt PROVE Followed'
    <2>1. CASE Reached(beatAt - Period)
      <3>1. PICK t \in Int : t = beatAt - Period
        BY <1>0
      <3>2. Reached(t)'
        BY <1>5, <2>1, <3>1
      <3> QED
        BY <1>6, <3>1, <3>2 DEF Followed, Reached
    <2>2. CASE beatAt <= 2 * Period
      BY <1>6, <2>2 DEF Followed
    <2>3. ASSUME NEW k \in Msgs, pc[k] = "queued", eta[k] + Period = beatAt,
                 beatAt <= 3 * Period + Slack \/ Reached(beatAt - 2 * Period - Slack)
          PROVE  Followed'
      <3>1. pc'[k] = "queued" /\ eta'[k] = eta[k]
        BY <1>1, <1>2, <2>3
      <3>2. PICK t \in Int : t = beatAt - 2 * Period - Slack
        BY <1>0
      <3>3. Reached(t) => Reached(t)'
        BY <1>5
      <3>4. Reached(beatAt - 2 * Period - Slack) => Reached(beatAt - 2 * Period - Slack)'
        BY <1>6, <3>2, <3>3 DEF Reached
      <3> QED
        BY <1>6, <2>3, <3>1, <3>4 DEF Followed
    <2> QED
      BY <2>1, <2>2, <2>3 DEF Followed
  <1>7. ASSUME beatAt <= now, beatAt' = now + Period PROVE Followed'
    <2>1. beatAt' <= 3 * Period + Slack \/ Reached(beatAt - 2 * Period - Slack)'
      <3>1. CASE beatAt <= 2 * Period
        BY <1>0, <1>7, <3>1 DEF OnTime
      <3>2. CASE Reached(beatAt - Period)
        <4>1. PICK v \in Windows : Accounted(v) /\ v + Period <= now
                                   /\ beatAt - Period < v + 2 * Period
          BY <3>2 DEF Reached
        <4>2. beatAt' - 2 * Period - Slack < v + 2 * Period
          BY <1>0, <1>7, <4>1, ZeroWindow DEF OnTime
        <4>3. Accounted(v)'
          BY <4>1, AccountedStays DEF Next
        <4> QED
          BY <1>1, <4>1, <4>2, <4>3 DEF Reached
      <3>3. ASSUME NEW k \in Msgs, pc[k] = "queued", eta[k] + Period = beatAt
            PROVE  FALSE
        <4>1. now <= eta[k] + Slack
          BY <3>3 DEF OnTime
        <4> QED
          BY <1>0, <1>7, <3>3, <4>1 DEF Timely
      <3> QED
        BY <3>1, <3>2, <3>3 DEF Followed
    <2>2. eta'[m] + Period = beatAt'
      BY <1>0, <1>2, <1>7
    <2> QED
      BY <1>2, <2>1, <2>2 DEF Followed
  <1> QED
    BY <1>1, <1>3, <1>4, <1>6, <1>7

\* When a window is two periods old, the last message of Beat, or the one
\* before it, has reached it or the next.
LEMMA DueIsReached ==
  ASSUME IInv, Timely, OnTime, Followed, Tick, NEW w \in Windows, w + 3 * Period = now + 1
  PROVE  Accounted(w) \/ Accounted(w + Period)
  <1>0. /\ now \in Nat /\ beatAt \in Nat /\ Period \in Nat /\ Period > 0 /\ Slack \in Nat
        /\ w \in Nat /\ 2 * Slack < Period /\ now < beatAt + Slack
    BY Chosen, ConstantTypes DEF ConstantTypes, IInv, TypeOK, Timely, Tick
  <1>1. ASSUME NEW t \in Int, Reached(t), w + 2 * Period <= t + 2 * Slack
        PROVE  Accounted(w) \/ Accounted(w + Period)
    <2>1. PICK v \in Windows : Accounted(v) /\ v + Period <= now /\ t < v + 2 * Period
      BY <1>1 DEF Reached
    <2>2. v \in Nat
      BY ZeroWindow
    <2>3. w < v + Period /\ v < w + 2 * Period
      BY <1>0, <1>1, <2>1, <2>2
    <2> QED
      BY <2>1, <2>3, NextWindow
  <1>2. CASE beatAt <= 2 * Period
    BY <1>0, <1>2
  <1>3. CASE Reached(beatAt - Period)
    <2>1. PICK t \in Int : t = beatAt - Period /\ w + 2 * Period <= t + 2 * Slack
      BY <1>0
    <2> QED
      BY <1>1, <1>3, <2>1
  <1>4. ASSUME NEW m \in Msgs, pc[m] = "queued", eta[m] + Period = beatAt,
               beatAt <= 3 * Period + Slack \/ Reached(beatAt - 2 * Period - Slack)
        PROVE  Accounted(w) \/ Accounted(w + Period)
    <2>1. eta[m] \in Nat /\ now < eta[m] + Slack
      BY <1>4 DEF IInv, TypeOK, Tick
    <2>2. PICK t \in Int : t = beatAt - 2 * Period - Slack /\ w + 2 * Period <= t + 2 * Slack
      BY <1>0, <1>4, <2>1
    <2>3. ~(beatAt <= 3 * Period + Slack)
      BY <1>0, <1>4, <2>1
    <2> QED
      BY <1>1, <1>4, <2>2, <2>3
  <1> QED
    BY <1>2, <1>3, <1>4 DEF Followed

LEMMA TickPace ==
  ASSUME IInv, Timely, OnTime, Excused, Followed, NoTwoWindowsMissed, Tick
  PROVE  OnTime' /\ Excused' /\ Followed' /\ NoTwoWindowsMissed'
  <1>0. /\ now \in Nat /\ now' = now + 1 /\ beatAt \in Nat /\ Period \in Nat /\ Slack \in Nat
        /\ \A m \in Msgs : eta[m] \in Nat
        /\ UNCHANGED <<beatAt, pc, eta, window, cid, seq, proofs, troubled>>
    BY Chosen, ConstantTypes DEF ConstantTypes, IInv, TypeOK, Tick, msg, faults
  <1>1. OnTime'
    BY <1>0 DEF OnTime, Tick
  <1>2. Excused'
    BY <1>0 DEF Excused, Neither, At
  <1>3. ASSUME NEW w \in Windows, Accounted(w) PROVE Accounted(w)'
    BY <1>3, AccountedStays DEF Next
  <1>4. Followed'
    <2>1. ASSUME NEW t \in Int, Reached(t) PROVE Reached(t)'
      BY <1>0, <2>1, ReachedStays DEF Next
    <2>2. PICK t \in Int, u \in Int : t = beatAt - Period /\ u = beatAt - 2 * Period - Slack
      BY <1>0
    <2>3. Reached(beatAt - Period) => Reached(beatAt - Period)'
      <3>1. Reached(t) => Reached(t)'
        BY <2>1
      <3> QED
        BY <1>0, <2>2, <3>1 DEF Reached
    <2>4. Reached(beatAt - 2 * Period - Slack) => Reached(beatAt - 2 * Period - Slack)'
      <3>1. Reached(u) => Reached(u)'
        BY <2>1
      <3> QED
        BY <1>0, <2>2, <3>1 DEF Reached
    <2> QED
      BY <1>0, <2>3, <2>4 DEF Followed
  <1>5. NoTwoWindowsMissed'
    <2> SUFFICES ASSUME NEW w \in Windows, w + 3 * Period <= now'
                 PROVE  Accounted(w)' \/ Accounted(w + Period)'
      BY DEF NoTwoWindowsMissed
    <2>0. w \in Nat
      BY ZeroWindow
    <2>1. Accounted(w) \/ Accounted(w + Period)
      <3>1. CASE w + 3 * Period <= now
        BY <3>1 DEF NoTwoWindowsMissed
      <3>2. CASE w + 3 * Period = now + 1
        BY <3>2, DueIsReached
      <3> QED
        BY <1>0, <2>0, <3>1, <3>2
    <2> QED
      BY <1>0, <2>1 DEF Accounted, AtWork
  <1> QED
    BY <1>1, <1>2, <1>4, <1>5

LEMMA CrashPace ==
  ASSUME IInv, Timely, OnTime, Excused, Followed, Crash
  PROVE  OnTime' /\ Excused' /\ Followed'
  <1>0. /\ now \in Nat /\ beatAt \in Nat /\ Slack \in Nat /\ Period \in Nat
        /\ UNCHANGED <<now, beatAt>> /\ cid' = [m \in Msgs |-> None]
        /\ \A m \in Msgs : \/ pc[m] \in Running /\ pc'[m] = "queued" /\ eta'[m] = now
                           \/ pc[m] \notin Running /\ pc'[m] = pc[m] /\ eta'[m] = eta[m]
    BY Chosen, ConstantTypes DEF ConstantTypes, IInv, TypeOK, Crash, time
  <1>1. OnTime'
    BY <1>0 DEF OnTime, Running
  <1>2. Excused'
    BY <1>0 DEF Excused, Neither, At, Running
  <1>3. ASSUME NEW t \in Int, Reached(t) PROVE Reached(t)'
    BY <1>0, <1>3, ReachedStays DEF Next
  <1>4. PICK t \in Int, u \in Int : t = beatAt - Period /\ u = beatAt - 2 * Period - Slack
    BY <1>0
  <1>5. Reached(beatAt - Period) => Reached(beatAt - Period)'
    <2>1. Reached(t) => Reached(t)'
      BY <1>3
    <2> QED
      BY <1>0, <1>4, <2>1 DEF Reached
  <1>6. Reached(beatAt - 2 * Period - Slack) => Reached(beatAt - 2 * Period - Slack)'
    <2>1. Reached(u) => Reached(u)'
      BY <1>3
    <2> QED
      BY <1>0, <1>4, <2>1 DEF Reached
  <1>7. Followed'
    BY <1>0, <1>5, <1>6 DEF Followed, Running
  <1> QED
    BY <1>1, <1>2, <1>7

\* Only the clock makes a window due; whatever is accounted for stays so.
LEMMA NextPace == IInv /\ PaceInv /\ [Next]_vars => PaceInv'
  <1> SUFFICES ASSUME IInv, PaceInv, [Next]_vars, Timely PROVE PaceInv'
    BY DEF PaceInv, Timely
  <1>0. OnTime /\ Excused /\ Followed /\ NoTwoWindowsMissed
    BY DEF PaceInv
  <1>1. CASE UNCHANGED vars
    <2>1. UNCHANGED <<now, beatAt, pc, eta, window, cid, seq, proofs, troubled>>
      BY <1>1 DEF vars, time, msg, faults
    <2>2. OnTime' /\ Excused'
      BY <1>0, <2>1 DEF OnTime, Excused, Neither, At
    <2>3. Followed' /\ NoTwoWindowsMissed'
      BY <1>0, <2>1 DEF Followed, Reached, NoTwoWindowsMissed, Accounted, AtWork
    <2> QED
      BY <2>2, <2>3 DEF PaceInv
  <1>2. CASE Tick
    BY <1>0, <1>2, TickPace DEF PaceInv
  <1>3. CASE Next /\ ~Tick
    <2>1. OnTime' /\ Excused' /\ Followed' /\ now' = now
      <3>1. ASSUME NEW m \in Msgs, Task(m) PROVE OnTime' /\ Excused' /\ Followed' /\ now' = now
        BY <1>0, <3>1, TaskOnTime, TaskExcused, TaskFollowed, TaskFrame
      <3>2. ASSUME NEW m \in Msgs, Beat(m) \/ on_publish_now(m)
            PROVE  OnTime' /\ Excused' /\ Followed' /\ now' = now
        BY <1>0, <3>2, SendPace DEF Beat, on_publish_now, Send
      <3>3. CASE Crash
        BY <1>0, <3>3, CrashPace DEF Crash, time
      <3> QED
        BY <1>3, <3>1, <3>2, <3>3 DEF Next
    <2>2. ASSUME NEW w \in Windows, w + 3 * Period <= now
          PROVE  Accounted(w)' \/ Accounted(w + Period)'
      <3>1. w + Period \in Windows
        BY <2>2, WindowAfter
      <3>2. Accounted(w) \/ Accounted(w + Period)
        BY <1>0, <2>2 DEF NoTwoWindowsMissed
      <3>3. \A v \in Windows : Accounted(v) => Accounted(v)'
        BY <1>0, <1>3, AccountedStays
      <3>4. PICK v \in Windows : v = w + Period
        BY <3>1
      <3> QED
        BY <3>2, <3>3, <3>4 DEF Accounted, AtWork
    <2>3. NoTwoWindowsMissed'
      BY <2>1, <2>2 DEF NoTwoWindowsMissed
    <2> QED
      BY <2>1, <2>3 DEF PaceInv
  <1> QED
    BY <1>1, <1>2, <1>3 DEF vars

\* Of two windows in a row one has its proof, or a task that will give it one,
\* or a reason that lies outside: for every period and every phase and
\* lateness of Beat and of the queue below half a period, however many tasks
\* overlap and whichever lookups, answers and inserts fail
\* (celery_app.py 60-63, external.py 173-269).
THEOREM NoTwoInARow == Spec => []NoTwoWindowsMissed
  <1>1. IInv /\ PaceInv => NoTwoWindowsMissed
    BY DEF PaceInv, NoTwoWindowsMissed
  <1>2. Init => IInv /\ PaceInv
    BY InitIInv, InitPace
  <1>3. IInv /\ PaceInv /\ [Next]_vars => (IInv /\ PaceInv)'
    BY NextIInv, NextPace
  <1> QED
    BY <1>1, <1>2, <1>3, PTL DEF Spec
=============================================================================
