-------------------------- MODULE DigestPublisher --------------------------
(***************************************************************************)
(* publish_digest_task (src/tasks/external.py) in the ext-worker, a pool   *)
(* of Threads threads, with the actors around it: Celery Beat and the      *)
(* button Publish now, which send messages to the queue external; Pinata   *)
(* and the Hedera topic, whose answers may be lost after they have acted;  *)
(* and the proofs table, UNIQUE on the window.                             *)
(*                                                                         *)
(* A window is named by its first second, a digest by its window and the   *)
(* first second its readings cover.  A CID is the address of a document,   *)
(* so the document stands for it; a message on the topic is the document   *)
(* with the CID, and stands for its blake2b hash as well.                  *)
(***************************************************************************)
EXTENDS Integers, Sequences, FiniteSets

CONSTANTS
  Period,         \* digest_period_s
  Minute,         \* a minute, in the same unit
  Threads,        \* --concurrency=2 of the ext-worker
  MaxRetries,     \* max_retries=3
  ProviderSets,   \* what may be configured: sets of "ipfs" and "hedera"
  Silent,         \* windows in which no reading was written
  Slack,          \* how late Beat, a free thread and a fetch may be; no limit
                  \* when it is above MaxClock
  Manual,         \* the messages of the button; the others are Beat's
  FaultKinds,     \* those of "net", "db" and "crash" that may happen
  MaxMsgs, MaxClock, MaxFaults,   \* bounds of the model
  None            \* no digest, no CID, no proof

ASSUME ConstantTypes ==
  /\ Period \in Nat \ {0} /\ Minute \in Nat \ {0} /\ Threads \in Nat
  /\ MaxRetries \in Nat /\ Slack \in Nat
  /\ ProviderSets \subseteq SUBSET {"ipfs", "hedera"}
  /\ MaxMsgs \in Nat /\ MaxClock \in Nat /\ MaxFaults \in Nat
  /\ Period <= MaxClock

\* round a time down to the start of its window
floor_window(t) == t - (t % Period)

\* the window a task works on is the last one that has closed
WindowStart(t) == floor_window(t - Period)

\* fetch_recent_readings(minutes=int(period / 60) + 1)
LookBack == (Period \div Minute + 1) * Minute

\* min(60 * (retries + 1), 300)
Countdown(r) == (IF r + 1 < 5 THEN r + 1 ELSE 5) * Minute

Msgs    == 1..MaxMsgs
Windows == {floor_window(t) : t \in 0..MaxClock}
Digests == [window : Windows, from : 0..MaxClock]
Body(d, c) == [digest |-> d, cid |-> c]

Bodies  == [digest : Digests, cid : Digests \cup {None}]
ProofRows == [body : Bodies, cid : Digests \cup {None}, seq : Nat]

ASSUME NoneIsNew ==
  None \notin Digests /\ None \notin ProofRows /\ Silent \subseteq Windows
  /\ Manual \subseteq Msgs

VARIABLES
  providers,       \* the providers of this deployment
  now, beatAt,     \* the clock; when Beat sends its next message
  pc,              \* per message: where its task stands
  retries, eta,    \* request.retries; not before this time
  window,          \* window_start of the attempt in progress
  digest, cid,     \* the document built; its CID if it was pinned
  seq,             \* hedera_seq, 0 for None
  pins, hcs,       \* documents on IPFS; messages of the topic, in order
  proofs,          \* the proofs table, by window
  netFaults, dbFaults, crashes,  \* ghost: faults so far
  troubled         \* ghost: windows an attempt at which met a lookup, a query or
                   \* an insert that raised, no provider at all, or a crash

msg    == <<pc, retries, eta, window, digest, cid, seq>>
time   == <<providers, now, beatAt>>
ext    == <<pins, hcs>>
faults == <<netFaults, dbFaults, crashes, troubled>>
vars   == <<time, msg, ext, proofs, faults>>

Running == {"fetch", "pin", "submit", "decide"}
Ended   == {"done", "failed"}

TypeOK ==
  /\ providers \in ProviderSets
  /\ now \in 0..MaxClock /\ beatAt \in Nat
  /\ pc \in [Msgs -> {"none", "queued"} \cup Running \cup Ended]
  /\ retries \in [Msgs -> 0..MaxRetries] /\ eta \in [Msgs -> Nat]
  /\ window \in [Msgs -> Windows]
  /\ digest \in [Msgs -> Digests \cup {None}]
  /\ cid \in [Msgs -> Digests \cup {None}]
  /\ seq \in [Msgs -> Nat]
  /\ pins \subseteq Digests
  /\ hcs \in Seq(Bodies)
  /\ proofs \in [Windows -> ProofRows \cup {None}]
  /\ netFaults \in Nat /\ dbFaults \in Nat /\ crashes \in Nat
  /\ netFaults + dbFaults + crashes <= MaxFaults /\ troubled \subseteq Windows

\* One period of readings lies behind; Beat first fires within the next one.
Init ==
  /\ providers \in ProviderSets
  /\ now = Period /\ beatAt \in (Period + 1)..(2 * Period)
  /\ pc = [m \in Msgs |-> "none"]
  /\ retries = [m \in Msgs |-> 0] /\ eta = [m \in Msgs |-> 0]
  /\ window = [m \in Msgs |-> 0] /\ digest = [m \in Msgs |-> None]
  /\ cid = [m \in Msgs |-> None] /\ seq = [m \in Msgs |-> 0]
  /\ pins = {} /\ hcs = <<>> /\ proofs = [w \in Windows |-> None]
  /\ netFaults = 0 /\ dbFaults = 0 /\ crashes = 0 /\ troubled = {}

-----------------------------------------------------------------------------
(* The senders and the clock.                                              *)

\* The messages of one sender are sent in the order of their names.
Send(m, mine) ==
  /\ m \in mine /\ pc[m] = "none" /\ \A k \in mine : k < m => pc[k] # "none"
  /\ pc' = [pc EXCEPT ![m] = "queued"] /\ eta' = [eta EXCEPT ![m] = now]
  /\ UNCHANGED <<providers, now, retries, window, digest, cid, seq, ext, proofs, faults>>

\* The entry publish-digest is due one period after it was last sent, so the
\* lateness of one run is carried over to all that follow.
Beat(m) ==
  /\ beatAt <= now /\ beatAt' = now + Period
  /\ Send(m, Msgs \ Manual)

on_publish_now(m) == UNCHANGED beatAt /\ Send(m, Manual)

\* Calls of the providers may take any time.
Tick ==
  /\ now < MaxClock
  /\ now < beatAt + Slack
  /\ \A m \in Msgs : pc[m] \in {"queued", "fetch"} => now < eta[m] + Slack
  /\ now' = now + 1
  /\ UNCHANGED <<providers, beatAt, msg, ext, proofs, faults>>

-----------------------------------------------------------------------------
(* The task: window and lookup, fetch, pin, submit, decide.                *)

At(m, p) == pc[m] = p
Goto(m, p) == pc' = [pc EXCEPT ![m] = p]

Idle == Cardinality({k \in Msgs : pc[k] \in Running}) < Threads

\* The task returns or raises: its local variables are gone.
Leave(m, p) ==
  /\ Goto(m, p)
  /\ window' = [window EXCEPT ![m] = 0] /\ digest' = [digest EXCEPT ![m] = None]
  /\ cid' = [cid EXCEPT ![m] = None] /\ seq' = [seq EXCEPT ![m] = 0]

MayFail(kind) == kind \in FaultKinds /\ netFaults + dbFaults + crashes < MaxFaults
NetFault == MayFail("net") /\ netFaults' = netFaults + 1
DbFault  == MayFail("db") /\ dbFaults' = dbFaults + 1

Trouble(w) == troubled' = troubled \cup {w}

Ready(m) == At(m, "queued") /\ eta[m] <= now /\ Idle

\* Mutant: no lookup of the idempotency key.
StartUnchecked(m) ==
  /\ Ready(m)
  /\ window' = [window EXCEPT ![m] = WindowStart(now)]
  /\ Goto(m, "fetch")
  /\ UNCHANGED <<time, retries, eta, digest, cid, seq, ext, proofs, faults>>

\* fetch_proof_by_idempotency_key: a window with a proof is skipped
Start(m) ==
  /\ Ready(m)
  /\ IF proofs[WindowStart(now)] = None
       THEN window' = [window EXCEPT ![m] = WindowStart(now)] /\ Goto(m, "fetch")
       ELSE UNCHANGED window /\ Goto(m, "done")
  /\ UNCHANGED <<time, retries, eta, digest, cid, seq, ext, proofs, faults>>

\* Opening the store or the lookup raises; the task fails and is not retried.
StartFails(m) ==
  /\ Ready(m) /\ DbFault /\ Trouble(WindowStart(now))
  /\ Goto(m, "failed")
  /\ UNCHANGED <<time, retries, eta, window, digest, cid, seq, ext, proofs, netFaults, crashes>>

\* the first second of the rows the query returns
CoverFrom(m) == IF now - LookBack > window[m] THEN now - LookBack ELSE window[m]

HasRows(m) == window[m] \notin Silent /\ CoverFrom(m) < window[m] + Period

Fetch(m) ==
  /\ At(m, "fetch") /\ HasRows(m)
  /\ digest' = [digest EXCEPT ![m] = [window |-> window[m], from |-> CoverFrom(m)]]
  /\ Goto(m, "pin")
  /\ UNCHANGED <<time, retries, eta, window, cid, seq, ext, proofs, faults>>

\* {"status": "skipped", "reason": "no_data"}
NoData(m) ==
  /\ At(m, "fetch") /\ ~HasRows(m)
  /\ Leave(m, "done")
  /\ UNCHANGED <<time, retries, eta, ext, proofs, faults>>

FetchFails(m) ==
  /\ At(m, "fetch") /\ DbFault /\ Trouble(window[m])
  /\ Leave(m, "failed")
  /\ UNCHANGED <<time, retries, eta, ext, proofs, netFaults, crashes>>

Pin(m) ==
  /\ At(m, "pin") /\ "ipfs" \in providers
  /\ pins' = pins \cup {digest[m]} /\ cid' = [cid EXCEPT ![m] = digest[m]]
  /\ Goto(m, "submit")
  /\ UNCHANGED <<time, retries, eta, window, digest, seq, hcs, proofs, faults>>

\* Refused, or timed out with the document pinned all the same.
PinFails(m) ==
  /\ At(m, "pin") /\ "ipfs" \in providers /\ NetFault
  /\ pins' \in {pins, pins \cup {digest[m]}}
  /\ Goto(m, "submit")
  /\ UNCHANGED <<time, retries, eta, window, digest, cid, seq, hcs, proofs, dbFaults, crashes,
                 troubled>>

PinDisabled(m) ==
  /\ At(m, "pin") /\ "ipfs" \notin providers
  /\ Goto(m, "submit")
  /\ UNCHANGED <<time, retries, eta, window, digest, cid, seq, ext, proofs, faults>>

\* build_hedera_payload
Payload(m) == Append(hcs, Body(digest[m], cid[m]))

\* When neither provider has taken the digest, the window is in trouble.
NoneTook(m) == IF cid[m] = None THEN Trouble(window[m]) ELSE UNCHANGED troubled

\* The receipt carries the sequence number; a failed lookup of the consensus
\* time leaves that field empty and changes nothing else.
SubmitMessage(m) ==
  /\ At(m, "submit") /\ "hedera" \in providers
  /\ hcs' = Payload(m) /\ seq' = [seq EXCEPT ![m] = Len(hcs) + 1]
  /\ Goto(m, "decide")
  /\ UNCHANGED <<time, retries, eta, window, digest, cid, pins, proofs, faults>>

\* Refused, or the receipt is lost after the message reached consensus.
SubmitFails(m) ==
  /\ At(m, "submit") /\ "hedera" \in providers /\ NetFault
  /\ hcs' \in {hcs, Payload(m)} /\ NoneTook(m)
  /\ Goto(m, "decide")
  /\ UNCHANGED <<time, retries, eta, window, digest, cid, seq, pins, proofs, dbFaults, crashes>>

SubmitDisabled(m) ==
  /\ At(m, "submit") /\ "hedera" \notin providers /\ NoneTook(m)
  /\ Goto(m, "decide")
  /\ UNCHANGED <<time, retries, eta, window, digest, cid, seq, ext, proofs, netFaults, dbFaults,
                 crashes>>

\* Mutant: one provider is not enough.
NotBoth(m) == At(m, "decide") /\ (cid[m] = None \/ seq[m] = 0)

Neither(m) == At(m, "decide") /\ cid[m] = None /\ seq[m] = 0
Either(m)  == At(m, "decide") /\ (cid[m] # None \/ seq[m] # 0)

\* Mutant: no look at request.retries.
RetryForEver(m) ==
  /\ Neither(m)
  /\ retries' = [retries EXCEPT ![m] = @ + 1]
  /\ eta' = [eta EXCEPT ![m] = now + Countdown(retries[m])]
  /\ Leave(m, "queued")
  /\ UNCHANGED <<time, ext, proofs, faults>>

\* The message goes back to the queue; the next attempt starts from nothing.
Retry(m) ==
  /\ Neither(m) /\ retries[m] < MaxRetries
  /\ retries' = [retries EXCEPT ![m] = @ + 1]
  /\ eta' = [eta EXCEPT ![m] = now + Countdown(retries[m])]
  /\ Leave(m, "queued")
  /\ UNCHANGED <<time, ext, proofs, faults>>

GiveUp(m) ==
  /\ Neither(m) /\ retries[m] >= MaxRetries
  /\ Leave(m, "failed")
  /\ UNCHANGED <<time, retries, eta, ext, proofs, faults>>

Proof(m) == [body |-> Body(digest[m], cid[m]), cid |-> cid[m], seq |-> seq[m]]

\* Mutant: INSERT OR REPLACE.
RecordOver(m) ==
  /\ Either(m)
  /\ proofs' = [proofs EXCEPT ![window[m]] = Proof(m)]
  /\ Leave(m, "done")
  /\ UNCHANGED <<time, retries, eta, ext, faults>>

Record(m) ==
  /\ Either(m) /\ proofs[window[m]] = None
  /\ proofs' = [proofs EXCEPT ![window[m]] = Proof(m)]
  /\ Leave(m, "done")
  /\ UNCHANGED <<time, retries, eta, ext, faults>>

\* the UNIQUE constraint: {"status": "skipped", "reason": "race"}
RecordRace(m) ==
  /\ Either(m) /\ proofs[window[m]] # None
  /\ Leave(m, "done")
  /\ UNCHANGED <<time, retries, eta, ext, proofs, faults>>

\* Any other error of insert_proof: published, but neither proof nor retry.
RecordFails(m) ==
  /\ Either(m) /\ DbFault /\ Trouble(window[m])
  /\ Leave(m, "failed")
  /\ UNCHANGED <<time, retries, eta, ext, proofs, netFaults, crashes>>

\* The ext-worker dies; acks_late gives unacknowledged messages back.
Crash ==
  /\ MayFail("crash") /\ crashes' = crashes + 1
  /\ \E m \in Msgs : pc[m] \in Running
  /\ troubled' = troubled \cup {window[m] : m \in {k \in Msgs : pc[k] \in Running}}
  /\ pc' = [m \in Msgs |-> IF pc[m] \in Running THEN "queued" ELSE pc[m]]
  /\ eta' = [m \in Msgs |-> IF pc[m] \in Running THEN now ELSE eta[m]]
  /\ window' = [m \in Msgs |-> 0] /\ digest' = [m \in Msgs |-> None]
  /\ cid' = [m \in Msgs |-> None] /\ seq' = [m \in Msgs |-> 0]
  /\ UNCHANGED <<time, retries, ext, proofs, netFaults, dbFaults>>

-----------------------------------------------------------------------------
Task(m) ==
  \/ Start(m) \/ StartFails(m)
  \/ Fetch(m) \/ NoData(m) \/ FetchFails(m)
  \/ Pin(m) \/ PinFails(m) \/ PinDisabled(m)
  \/ SubmitMessage(m) \/ SubmitFails(m) \/ SubmitDisabled(m)
  \/ Retry(m) \/ GiveUp(m)
  \/ Record(m) \/ RecordRace(m) \/ RecordFails(m)

Next ==
  \/ \E m \in Msgs : Beat(m) \/ on_publish_now(m) \/ Task(m)
  \/ Tick \/ Crash

Spec == Init /\ [][Next]_vars

-----------------------------------------------------------------------------
(* Safety.                                                                 *)

\* Only closed windows are published: whatever reaches Pinata or the topic
\* summarises a whole aligned window that ended in the past, so that no later
\* reading can belong to it, whenever the task ran and however often it was
\* retried or redelivered (floor_window, 176, and the filter of line 190).
WindowClosed ==
  \A d \in pins \cup {hcs[i].digest : i \in 1..Len(hcs)} :
    /\ d.window % Period = 0 /\ d.window + Period <= now
    /\ d.window <= d.from /\ d.from < d.window + Period

\* An auditor finds what a proof row points to: its CID is a pinned document
\* of that very window, and its sequence number is the message that carries
\* the hash the row records, also when attempts overlap, are retried or
\* redelivered (attach_cid_and_hash and build_hedera_payload agree, 218-219).
ProofMatchesChain ==
  \A w \in Windows : proofs[w] # None =>
    LET p == proofs[w] IN
    /\ p.body.digest.window = w
    /\ p.cid # None \/ p.seq # 0
    /\ p.cid # None => p.cid \in pins /\ p.body = Body(p.cid, p.cid)
    /\ p.seq # 0 => p.seq \in 1..Len(hcs) /\ hcs[p.seq] = p.body

Published(w) == {i \in 1..Len(hcs) : hcs[i].digest.window = w}

\* A window is paid for more than once only by tasks that overlap: as many
\* messages as there are threads, one more for each lost receipt and each
\* proof that could not be written, and the threads again for each crash.
BoundedDuplicates ==
  \A w \in Windows :
    Cardinality(Published(w)) <= Threads * (1 + crashes) + netFaults + dbFaults

AtWork(w) == \E m \in Msgs : pc[m] \in Running /\ window[m] = w

\* The window has its proof or will have it, or the reason why it has none lies
\* outside the publisher.
Accounted(w) == proofs[w] # None \/ AtWork(w) \/ w \in Silent \cup troubled

\* Beat, the queue and the fetch are each at most Slack late, less than half a
\* period and not more than the query looks back beyond the period.
Timely == 2 * Slack < Period /\ Slack <= LookBack - Period

\* No two windows in a row are skipped.  The schedule is re-armed from a late
\* send and a message may wait for a thread, so two runs may straddle a window
\* (celery_app.py 60-63); of two consecutive windows one is attended all the
\* same, and it gets its proof unless an attempt at it met a failing store, no
\* provider that answers, or a crash.  A failure of one provider of two, a
\* proof that another task wrote first and a retry of an earlier window are no
\* reason to miss one.
NoTwoWindowsMissed ==
  Timely => \A w \in Windows :
    w + 3 * Period <= now => Accounted(w) \/ Accounted(w + Period)

\* "fetch readings in [window_start, window_start+period)" (line 4): the
\* digest of a proof covers its window from the first second.
DigestCoversWindow ==
  \A w \in Windows : proofs[w] # None => proofs[w].body.digest.from = w

-----------------------------------------------------------------------------
(* The ledger an auditor sees.                                             *)

Ledger == INSTANCE ProofLedger

\* A proof is written once, never changed, and only after its evidence.
KeepsLedger == Ledger!Spec
=============================================================================
