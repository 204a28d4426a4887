--------------------------- MODULE HwWorkerProofs ---------------------------
(***************************************************************************)
(* Safety of the hw-worker for every number of commands, handlers, kills   *)
(* and faults, every set of drivers that may come up, and every length of  *)
(* sweep and stroke that is shorter than the kill switch's timeout.        *)
(*                                                                         *)
(* IInv is the inductive invariant.  Each conjunct is one reason why a     *)
(* property holds: who holds _lock, what the snapshot of pending rows may  *)
(* contain, what the record of a command says of its effect, and how much  *)
(* of its timeout a waiting kill has left.                                 *)
(***************************************************************************)
EXTENDS HwWorker, TLAPS

\* _lock is held by the thread that is inside its critical section, and a
\* dead process has no thread.  A stop is counted when it begins and ends with
\* an empty table of drivers.
LockInv ==
  /\ pc \in Holding <=> lock = "exec"
  /\ main = "killing" <=> lock = "main"
  /\ worker = "down" => pc = "idle"
  /\ worker # "up" => main = "idle"
  /\ worker = "up" => open = present
  /\ worker \in {"stopping", "stopped"} => crashes > 0
  /\ worker \in {"stopped", "down"} => present = {}

\* The snapshot holds rows that are still pending, and the row in hand is the
\* earliest of them.
BatchInv ==
  /\ pc \in {"idle", "sampling"} => batch = {}
  /\ \A c \in batch : status[c] = "pending"
  /\ cur # 0 <=> pc \in {"stroke", "mark", "markFailed"}
  /\ cur # 0 => cur \in batch /\ \A d \in batch : cur <= d

\* Stamps are handed out in order, and a handler has one INSERT in progress,
\* which is its latest.
StampInv ==
  /\ \A c \in Cmds : c > clock <=> status[c] = "none"
  /\ \A c \in Cmds : by[c] = None <=> c > clock
  /\ \A c \in Cmds : op[c] \in Ops <=> c <= clock
  /\ \A c \in Cmds, d \in Cmds :
        (d < c /\ by[d] = by[c] /\ c <= clock) => status[d] # "stamped"

\* The snapshot leaves no earlier row of the same handler behind.
OrderInv ==
  \A c \in batch, d \in Cmds :
    (d < c /\ by[d] = by[c]) => d \in batch \/ status[d] \in Settled \cup {"rejected"}

\* A command has been executed and not yet recorded.
InHand(c) == c = cur /\ pc \in {"stroke", "mark", "markFailed"}

\* A command that this life of the worker may still execute, but not record.
Doomed(c) ==
  /\ status[c] \notin Settled
  /\ worker = "stopping" \/ (worker = "stopped" /\ c \in batch)

\* One effect per command, and one more for every fault.
CountInv ==
  \A c \in Cmds :
    execs[c] + (IF Doomed(c) THEN 1 ELSE 0)
      <= (IF InHand(c) \/ status[c] \in Settled THEN 1 ELSE 0) + dbFaults + crashes

\* The record follows the effect, unless a driver raised in the middle of it.
RecordInv ==
  /\ pc \in {"stroke", "mark"} => execs[cur] > 0
  /\ \A c \in Cmds : status[c] = "applied" => execs[c] > 0
  /\ dbFaults = 0 /\ crashes = 0 =>
       \A c \in Cmds : execs[c] > 0 =>
          \/ status[c] = "applied" \/ op[c].actuator \in faulty
          \/ c = cur /\ pc \in {"stroke", "mark"}

\* What is left of a long operation, and of the timeout of a kill that waits
\* behind it.
KillInv ==
  /\ pc = "sampling" => left <= SampleTicks
  /\ pc = "stroke" => left <= ServoTicks
  /\ write = "blocked" => pc \in {"sampling", "stroke", "mark", "markFailed"}
  /\ main = "waiting" =>
       /\ write = "blocked" => longs = 2
       /\ longs = 0 => wait = KillWait /\ pc \notin {"sampling", "stroke"}
       /\ longs = 1 => /\ wait > 0
                       /\ pc = "sampling" => wait + SampleTicks >= KillWait + left
                       /\ pc = "stroke" => wait + ServoTicks >= KillWait + left

IInv ==
  /\ TypeOK /\ LockInv /\ BatchInv /\ StampInv /\ OrderInv
  /\ CountInv /\ RecordInv /\ KillInv /\ ServoParked

-----------------------------------------------------------------------------

USE ConstantTypes, Timing DEF ConstantTypes, Timing, Cmds, Jobs, Drivers, Settled, Holding

LEMMA InitIInv == Init => IInv
  <1> SUFFICES ASSUME Init PROVE IInv
    OBVIOUS
  <1>1. TypeOK
    BY DEF Init, TypeOK
  <1>2. LockInv /\ BatchInv /\ OrderInv /\ KillInv /\ ServoParked
    BY DEF Init, LockInv, BatchInv, OrderInv, KillInv, ServoParked
  <1>3. StampInv
    BY DEF Init, StampInv
  <1>4. CountInv /\ RecordInv
    BY DEF Init, CountInv, RecordInv, InHand, Doomed
  <1> QED
    BY <1>1, <1>2, <1>3, <1>4 DEF IInv

\* What may be left of the outputs of the drivers that were to be secured.
LEMMA SafeStateFacts ==
  ASSUME NEW drivers \in SUBSET Drivers, TypeOK, SafeState(drivers)
  PROVE  /\ outputs' \subseteq outputs /\ servo' \in {servo, "neutral"}
         /\ "servo" \notin drivers => servo' = servo
         /\ "servo" \in drivers \ faulty' => servo' = "neutral"
         /\ faulty \subseteq faulty' /\ faulty' \subseteq Drivers
  BY DEF TypeOK, SafeState, Secure, Raise

\* What a command may have done to the hardware.
LEMMA SwitchFacts ==
  ASSUME NEW o \in OpType, TypeOK, Switch(o)
  PROVE  /\ outputs' \subseteq Outputs /\ servo' \in {"neutral", "turned"}
         /\ faulty \subseteq faulty' /\ faulty' \subseteq Drivers
         /\ servo' = "turned" => servo = "turned" \/ o.action = "set_angle"
         /\ o.action \notin {"lit", "dark", "set_angle", "neutral"} => SafeState(present)
  <1>1. CASE o.action = "lit"
    <2>1. o.output \in Outputs
      BY <1>1 DEF OpType
    <2> QED
      BY <1>1, <2>1 DEF Switch, TypeOK
  <1>2. CASE o.action \in {"dark", "set_angle", "neutral"}
    BY <1>2 DEF Switch, TypeOK
  <1>3. CASE o.action \notin {"lit", "dark", "set_angle", "neutral"}
    <2>1. SafeState(present) /\ present \in SUBSET Drivers
      BY <1>3 DEF Switch, KillSwitch, TypeOK
    <2> QED
      BY <1>3, <2>1, SafeStateFacts DEF TypeOK
  <1> QED
    BY <1>1, <1>2, <1>3

\* Every step preserves the inductive invariant: one step per action, and
\* under it one per conjunct the action can disturb.
LEMMA NextIInv == IInv /\ [Next]_vars => IInv'
  <1> SUFFICES ASSUME IInv, [Next]_vars PROVE IInv'
    OBVIOUS
  <1> USE DEF table, exec, tasks, boot, hw
  \* The dashboard handlers.
  <1>1. ASSUME NEW h \in Handlers, NEW o \in Ops, StampCommand(h, o) PROVE IInv'
    <2>1. TypeOK'
      BY <1>1 DEF IInv, TypeOK, BatchInv, StampCommand
    <2>2. BatchInv'
      BY <1>1 DEF IInv, TypeOK, LockInv, BatchInv, StampInv, StampCommand
    <2>3. StampInv'
      BY <1>1 DEF IInv, TypeOK, BatchInv, StampInv, StampCommand
    <2>4. OrderInv'
      BY <1>1 DEF IInv, TypeOK, BatchInv, StampInv, OrderInv, StampCommand
    <2>5. CountInv'
      BY <1>1 DEF IInv, TypeOK, BatchInv, StampInv, CountInv, InHand, Doomed, StampCommand
    <2>6. RecordInv'
      BY <1>1 DEF IInv, TypeOK, BatchInv, StampInv, CountInv, InHand, Doomed, RecordInv,
         StampCommand
    <2>7. LockInv' /\ KillInv' /\ ServoParked'
      BY <1>1 DEF IInv, LockInv, KillInv, ServoParked, StampCommand
    <2> QED
      BY <2>1, <2>2, <2>3, <2>4, <2>5, <2>6, <2>7 DEF IInv
  <1>2. ASSUME NEW c \in Cmds, CommitCommand(c) PROVE IInv'
    <2>1. TypeOK'
      BY <1>2 DEF IInv, TypeOK, BatchInv, CommitCommand
    <2>2. BatchInv'
      BY <1>2 DEF IInv, TypeOK, LockInv, BatchInv, StampInv, CommitCommand
    <2>3. StampInv'
      BY <1>2 DEF IInv, TypeOK, BatchInv, StampInv, CommitCommand
    <2>4. OrderInv'
      BY <1>2 DEF IInv, TypeOK, BatchInv, StampInv, OrderInv, CommitCommand
    <2>5. CountInv'
      BY <1>2 DEF IInv, TypeOK, BatchInv, StampInv, CountInv, InHand, Doomed, CommitCommand
    <2>6. RecordInv'
      BY <1>2 DEF IInv, TypeOK, BatchInv, StampInv, RecordInv, CommitCommand
    <2>7. LockInv' /\ KillInv' /\ ServoParked'
      BY <1>2 DEF IInv, LockInv, KillInv, ServoParked, CommitCommand
    <2> QED
      BY <2>1, <2>2, <2>3, <2>4, <2>5, <2>6, <2>7 DEF IInv
  <1>3. ASSUME NEW c \in Cmds, InsertFails(c) PROVE IInv'
    <2>1. TypeOK'
      BY <1>3 DEF IInv, TypeOK, BatchInv, InsertFails
    <2>2. BatchInv'
      BY <1>3 DEF IInv, TypeOK, LockInv, BatchInv, StampInv, InsertFails
    <2>3. StampInv'
      BY <1>3 DEF IInv, TypeOK, BatchInv, StampInv, InsertFails
    <2>4. OrderInv'
      BY <1>3 DEF IInv, TypeOK, BatchInv, StampInv, OrderInv, InsertFails
    <2>5. CountInv'
      BY <1>3 DEF IInv, TypeOK, BatchInv, StampInv, CountInv, InHand, Doomed, InsertFails
    <2>6. RecordInv'
      BY <1>3 DEF IInv, TypeOK, BatchInv, StampInv, RecordInv, InsertFails
    <2>7. LockInv' /\ KillInv' /\ ServoParked'
      BY <1>3 DEF IInv, LockInv, KillInv, ServoParked, InsertFails
    <2> QED
      BY <2>1, <2>2, <2>3, <2>4, <2>5, <2>6, <2>7 DEF IInv
  <1>4. CASE SendKill
    <2>1. TypeOK'
      BY <1>4 DEF IInv, TypeOK, BatchInv, SendKill
    <2>2. LockInv' /\ BatchInv' /\ StampInv' /\ OrderInv' /\ CountInv' /\ RecordInv'
       /\ KillInv' /\ ServoParked'
      BY <1>4 DEF IInv, LockInv, BatchInv, StampInv, OrderInv, CountInv, InHand, Doomed,
         RecordInv, KillInv, ServoParked, SendKill
    <2> QED
      BY <2>1, <2>2 DEF IInv
  \* The scheduler and the sampling job.
  <1>5. ASSUME NEW j \in Jobs, Submit(j) PROVE IInv'
    <2>1. TypeOK'
      BY <1>5 DEF IInv, TypeOK, BatchInv, Submit
    <2>2. LockInv' /\ BatchInv' /\ StampInv' /\ OrderInv' /\ CountInv' /\ RecordInv'
       /\ KillInv' /\ ServoParked'
      BY <1>5 DEF IInv, LockInv, BatchInv, StampInv, OrderInv, CountInv, InHand, Doomed,
         RecordInv, KillInv, ServoParked, Submit
    <2> QED
      BY <2>1, <2>2 DEF IInv
  <1>6. CASE StartSample
    <2>1. TypeOK'
      BY <1>6 DEF IInv, TypeOK, BatchInv, StartSample, Takes, Up, OneMoreLong
    <2>2. LockInv'
      BY <1>6 DEF IInv, TypeOK, LockInv, StartSample, Takes, Up, OneMoreLong
    <2>3. BatchInv'
      BY <1>6 DEF IInv, TypeOK, LockInv, BatchInv, StampInv, StartSample, Takes, Up,
         OneMoreLong
    <2>4. CountInv'
      BY <1>6 DEF IInv, TypeOK, BatchInv, StampInv, CountInv, InHand, Doomed, StartSample,
         Takes, Up, OneMoreLong
    <2>5. RecordInv'
      BY <1>6 DEF IInv, TypeOK, BatchInv, StampInv, RecordInv, StartSample, Takes,
         Up, OneMoreLong
    <2>6. KillInv'
      BY <1>6 DEF IInv, TypeOK, LockInv, BatchInv, KillInv, StartSample, Takes, Up,
         OneMoreLong
    <2>7. ServoParked'
      BY <1>6 DEF IInv, TypeOK, LockInv, BatchInv, StampInv, ServoParked, OpType,
         StartSample, Takes, Up, OneMoreLong
    <2>8. StampInv' /\ OrderInv'
      BY <1>6 DEF IInv, StampInv, OrderInv, StartSample, Takes, Up, OneMoreLong
    <2> QED
      BY <2>1, <2>2, <2>3, <2>4, <2>5, <2>6, <2>7, <2>8 DEF IInv
  <1>7. CASE SkipSample
    <2>1. TypeOK'
      BY <1>7 DEF IInv, TypeOK, BatchInv, SkipSample, Takes, Up
    <2>2. LockInv' /\ BatchInv' /\ StampInv' /\ OrderInv' /\ CountInv' /\ RecordInv'
       /\ KillInv' /\ ServoParked'
      BY <1>7 DEF IInv, LockInv, BatchInv, StampInv, OrderInv, CountInv, InHand, Doomed,
         RecordInv, KillInv, ServoParked, SkipSample, Takes, Up
    <2> QED
      BY <2>1, <2>2 DEF IInv
  <1>8. CASE FinishSample
    <2>1. TypeOK'
      BY <1>8 DEF IInv, TypeOK, BatchInv, FinishSample, Up, WriteEnds, Release
    <2>2. LockInv'
      BY <1>8 DEF IInv, TypeOK, LockInv, FinishSample, Up, WriteEnds, Release
    <2>3. BatchInv'
      BY <1>8 DEF IInv, TypeOK, LockInv, BatchInv, StampInv, FinishSample, Up, WriteEnds,
         Release
    <2>4. CountInv'
      BY <1>8 DEF IInv, TypeOK, BatchInv, StampInv, CountInv, InHand, Doomed, FinishSample,
         Up, WriteEnds, Release
    <2>5. RecordInv'
      BY <1>8 DEF IInv, TypeOK, BatchInv, StampInv, RecordInv, FinishSample, Up, WriteEnds,
         Release
    <2>6. KillInv'
      BY <1>8 DEF IInv, TypeOK, LockInv, BatchInv, KillInv, FinishSample, Up, WriteEnds,
         Release
    <2>7. ServoParked'
      BY <1>8 DEF IInv, TypeOK, LockInv, BatchInv, StampInv, ServoParked, OpType,
         FinishSample, Up, WriteEnds, Release
    <2>8. StampInv' /\ OrderInv'
      BY <1>8 DEF IInv, StampInv, OrderInv, FinishSample, Up, WriteEnds, Release
    <2> QED
      BY <2>1, <2>2, <2>3, <2>4, <2>5, <2>6, <2>7, <2>8 DEF IInv
  \* The snapshot of the pending rows.
  <1>9. CASE FetchPending
    <2>1. TypeOK'
      BY <1>9 DEF IInv, TypeOK, BatchInv, FetchPending, Takes, Up, Pending
    <2>2. LockInv'
      BY <1>9 DEF IInv, TypeOK, LockInv, FetchPending, Takes, Up, Pending
    <2>3. BatchInv'
      BY <1>9 DEF IInv, TypeOK, LockInv, BatchInv, StampInv, FetchPending, Takes,
         Up, Pending
    <2>4. OrderInv'
      <3>1. batch' = {c \in Cmds : status[c] = "pending"} /\ UNCHANGED table
        BY <1>9 DEF FetchPending, Pending
      <3> SUFFICES ASSUME NEW c \in batch', NEW d \in Cmds, d < c, by[d] = by[c]
                   PROVE  d \in batch' \/ status[d] \in Settled \cup {"rejected"}
        BY <3>1 DEF OrderInv
      <3>2. c \in Cmds /\ status[c] = "pending"
        BY <3>1
      <3>3. c <= clock /\ d <= clock /\ clock \in Nat
        BY <3>2 DEF IInv, TypeOK, StampInv
      <3>4. status[d] # "none" /\ status[d] # "stamped"
        BY <3>2, <3>3 DEF IInv, TypeOK, StampInv
      <3> QED
        BY <3>1, <3>4 DEF IInv, TypeOK
    <2>5. CountInv'
      BY <1>9 DEF IInv, TypeOK, BatchInv, StampInv, CountInv, InHand, Doomed, FetchPending,
         Takes, Up, Pending
    <2>6. RecordInv'
      BY <1>9 DEF IInv, TypeOK, BatchInv, StampInv, RecordInv, FetchPending, Takes,
         Up, Pending
    <2>7. KillInv'
      BY <1>9 DEF IInv, TypeOK, LockInv, BatchInv, KillInv, FetchPending, Takes, Up,
         Pending
    <2>8. ServoParked'
      BY <1>9 DEF IInv, TypeOK, LockInv, BatchInv, StampInv, ServoParked, OpType,
         FetchPending, Takes, Up, Pending
    <2>9. StampInv'
      BY <1>9 DEF IInv, StampInv, FetchPending, Takes, Up, Pending
    <2> QED
      BY <2>1, <2>2, <2>3, <2>4, <2>5, <2>6, <2>7, <2>8, <2>9 DEF IInv
  <1>10. CASE FetchFails
    <2>1. TypeOK'
      BY <1>10 DEF IInv, TypeOK, BatchInv, FetchFails, Takes, Up
    <2>2. CountInv'
      BY <1>10 DEF IInv, TypeOK, BatchInv, StampInv, CountInv, InHand, Doomed, FetchFails,
         Takes, Up
    <2>3. RecordInv'
      BY <1>10 DEF IInv, TypeOK, BatchInv, StampInv, RecordInv, FetchFails, Takes,
         Up
    <2>4. LockInv' /\ BatchInv' /\ StampInv' /\ OrderInv' /\ KillInv' /\
       ServoParked'
      BY <1>10 DEF IInv, LockInv, BatchInv, StampInv, OrderInv, KillInv,
         ServoParked, FetchFails, Takes, Up
    <2> QED
      BY <2>1, <2>2, <2>3, <2>4 DEF IInv
  <1>11. CASE AcquireForBatch
    <2>1. TypeOK'
      BY <1>11 DEF IInv, TypeOK, BatchInv, AcquireForBatch, Up
    <2>2. LockInv'
      BY <1>11 DEF IInv, TypeOK, LockInv, AcquireForBatch, Up
    <2>3. BatchInv'
      BY <1>11 DEF IInv, TypeOK, LockInv, BatchInv, StampInv, AcquireForBatch, Up
    <2>4. CountInv'
      BY <1>11 DEF IInv, TypeOK, BatchInv, StampInv, CountInv, InHand, Doomed,
         AcquireForBatch, Up
    <2>5. RecordInv'
      BY <1>11 DEF IInv, TypeOK, BatchInv, StampInv, RecordInv, AcquireForBatch, Up
    <2>6. KillInv'
      BY <1>11 DEF IInv, TypeOK, LockInv, BatchInv, KillInv, AcquireForBatch, Up
    <2>7. ServoParked'
      BY <1>11 DEF IInv, TypeOK, LockInv, BatchInv, StampInv, ServoParked, OpType,
         AcquireForBatch, Up
    <2>8. StampInv' /\ OrderInv'
      BY <1>11 DEF IInv, StampInv, OrderInv, AcquireForBatch, Up
    <2> QED
      BY <2>1, <2>2, <2>3, <2>4, <2>5, <2>6, <2>7, <2>8 DEF IInv
  <1>12. CASE DropBatch
    <2>1. TypeOK'
      BY <1>12 DEF IInv, TypeOK, BatchInv, DropBatch, Up
    <2>2. LockInv'
      BY <1>12 DEF IInv, TypeOK, LockInv, DropBatch, Up
    <2>3. BatchInv'
      BY <1>12 DEF IInv, TypeOK, LockInv, BatchInv, StampInv, DropBatch, Up
    <2>4. OrderInv'
      BY <1>12 DEF IInv, TypeOK, BatchInv, StampInv, OrderInv, DropBatch, Up
    <2>5. CountInv'
      BY <1>12 DEF IInv, TypeOK, BatchInv, StampInv, CountInv, InHand, Doomed, DropBatch, Up
    <2>6. RecordInv'
      BY <1>12 DEF IInv, TypeOK, BatchInv, StampInv, RecordInv, DropBatch, Up
    <2>7. KillInv'
      BY <1>12 DEF IInv, TypeOK, LockInv, BatchInv, KillInv, DropBatch, Up
    <2>8. ServoParked'
      BY <1>12 DEF IInv, TypeOK, LockInv, BatchInv, StampInv, ServoParked, OpType,
         DropBatch, Up
    <2>9. StampInv'
      BY <1>12 DEF IInv, StampInv, DropBatch, Up
    <2> QED
      BY <2>1, <2>2, <2>3, <2>4, <2>5, <2>6, <2>7, <2>8, <2>9 DEF IInv
  \* The batch.
  <1>13. ASSUME NEW c \in Cmds, Execute(c) PROVE IInv'
    <2>1. /\ c \in batch /\ op[c] \in Ops /\ op[c] \in OpType /\ c <= MaxCmds /\ c # 0
          /\ pc = "loop" /\ cur = 0 /\ status[c] = "pending" /\ worker # "down"
      BY <1>13 DEF IInv, TypeOK, BatchInv, StampInv, Execute, IsNext, Up
    <2>2. /\ outputs' \subseteq Outputs /\ servo' \in {"neutral", "turned"}
          /\ faulty \subseteq faulty' /\ faulty' \subseteq Drivers
          /\ servo' = "turned" => servo = "turned" \/ op[c].action = "set_angle"
      BY <1>13, <2>1, SwitchFacts DEF IInv, Execute
    <2>3. /\ cur' = c /\ execs' = [execs EXCEPT ![c] = @ + 1]
          /\ \/ pc' = "stroke" /\ Stroke(op[c]) /\ left' = ServoTicks /\ OneMoreLong
             \/ pc' = "mark" /\ ~Stroke(op[c]) /\ left' = left /\ longs' = longs
          /\ UNCHANGED <<table, due, batch, write, main, wait, killq, kills, boot, lock,
                         dbFaults, crashes>>
      BY <1>13 DEF Execute
    <2>4. TypeOK'
      <3>1. pc' \in {"stroke", "mark"} /\ left' \in Nat /\ longs' \in 0..2
        BY <2>3, ConstantTypes DEF IInv, TypeOK, OneMoreLong
      <3>2. execs' \in [Cmds -> Nat] /\ cur' \in Cmds \cup {0}
        BY <2>1, <2>3 DEF IInv, TypeOK
      <3> QED
        BY <2>2, <2>3, <3>1, <3>2 DEF IInv, TypeOK
    <2>5. LockInv'
      BY <2>1, <2>3 DEF IInv, LockInv
    <2>6. BatchInv'
      BY <1>13, <2>1, <2>3 DEF IInv, TypeOK, BatchInv, Execute, IsNext
    <2>7. CountInv'
      BY <2>1, <2>3 DEF IInv, TypeOK, CountInv, InHand, Doomed
    <2>8. RecordInv'
      <3>1. execs'[c] > 0 /\ pc' \in {"stroke", "mark"}
        BY <2>1, <2>3 DEF IInv, TypeOK
      <3>2. \A x \in Cmds : x # c => execs'[x] = execs[x]
        BY <2>3 DEF IInv, TypeOK
      <3> QED
        BY <2>1, <2>2, <2>3, <3>1, <3>2 DEF IInv, RecordInv
    <2>9. KillInv'
      BY <2>1, <2>3 DEF IInv, TypeOK, LockInv, KillInv, OneMoreLong
    <2>10. ServoParked'
      BY <2>1, <2>2, <2>3 DEF IInv, TypeOK, ServoParked, Stroke
    <2>11. StampInv' /\ OrderInv'
      BY <2>3 DEF IInv, StampInv, OrderInv
    <2> QED
      BY <2>4, <2>5, <2>6, <2>7, <2>8, <2>9, <2>10, <2>11 DEF IInv
  <1>14. ASSUME NEW c \in Cmds, ExecuteRaises(c) PROVE IInv'
    <2>1. /\ c \in batch /\ op[c] \in Ops /\ op[c] \in OpType /\ c <= MaxCmds /\ c # 0
          /\ pc = "loop" /\ cur = 0 /\ status[c] = "pending" /\ worker # "down"
      BY <1>14 DEF IInv, TypeOK, BatchInv, StampInv, ExecuteRaises, IsNext, Up
    <2>2. /\ outputs' \subseteq Outputs /\ servo' \in {"neutral", "turned"}
          /\ faulty \subseteq faulty' /\ faulty' \subseteq Drivers
          /\ servo' = servo \/ servo' = "neutral" \/ "servo" \in faulty'
          /\ execs' = execs \/ (execs' = [execs EXCEPT ![c] = @ + 1]
                                /\ op[c].actuator \in faulty')
      <3>1. CASE ~Executable(op[c]) /\ UNCHANGED hw
        BY <3>1 DEF IInv, TypeOK
      <3>2. CASE /\ Executable(op[c]) /\ op[c].actuator # "system" /\ SwitchRaises(op[c])
                 /\ execs' = [execs EXCEPT ![c] = @ + 1]
        <4>1. op[c].action = "lit" => op[c].output \in Outputs
          BY <2>1 DEF OpType
        <4>2. op[c].action = "set_angle" => op[c].actuator = "servo"
          BY <2>1 DEF OpType
        <4>3. op[c].actuator \in Drivers /\ op[c].actuator \in faulty'
              /\ faulty' = faulty \cup {op[c].actuator}
          BY <3>2 DEF Executable, SwitchRaises, Raise
        <4>4. outputs' \subseteq Outputs
          BY <3>2, <4>1 DEF IInv, TypeOK, SwitchRaises
        <4>5. servo' \in {servo, "neutral", "turned"}
              /\ (servo' = servo \/ servo' = "neutral" \/ op[c].actuator = "servo")
          BY <3>2, <4>2 DEF SwitchRaises
        <4> QED
          BY <3>2, <4>3, <4>4, <4>5 DEF IInv, TypeOK
      <3> QED
        BY <1>14, <3>1, <3>2 DEF ExecuteRaises
    <2>3. /\ cur' = c /\ pc' = "markFailed"
          /\ UNCHANGED <<table, due, batch, left, write, tasks, boot, lock, dbFaults, crashes>>
      BY <1>14 DEF ExecuteRaises
    <2>4. TypeOK'
      BY <2>1, <2>2, <2>3 DEF IInv, TypeOK
    <2>5. LockInv'
      BY <2>1, <2>3 DEF IInv, LockInv
    <2>6. BatchInv'
      BY <1>14, <2>1, <2>3 DEF IInv, TypeOK, BatchInv, ExecuteRaises, IsNext
    <2>7. CountInv'
      BY <2>1, <2>2, <2>3 DEF IInv, TypeOK, CountInv, InHand, Doomed
    <2>8. RecordInv'
      <3>1. \A x \in Cmds : x # c => execs'[x] = execs[x]
        BY <2>2 DEF IInv, TypeOK
      <3>2. execs'[c] = execs[c] \/ op[c].actuator \in faulty'
        BY <2>2
      <3>3. \A x \in Cmds : op'[x] = op[x] /\ status'[x] = status[x]
        BY <2>3 DEF table
      <3> QED
        BY <2>1, <2>2, <2>3, <3>1, <3>2, <3>3 DEF IInv, RecordInv
    <2>9. KillInv'
      BY <2>1, <2>3 DEF IInv, TypeOK, LockInv, KillInv
    <2>10. ServoParked'
      BY <2>1, <2>2, <2>3 DEF IInv, TypeOK, ServoParked
    <2>11. StampInv' /\ OrderInv'
      BY <2>3 DEF IInv, StampInv, OrderInv
    <2> QED
      BY <2>4, <2>5, <2>6, <2>7, <2>8, <2>9, <2>10, <2>11 DEF IInv
  <1>15. CASE FinishStroke
    <2>1. /\ outputs' \subseteq outputs /\ servo' \in {servo, "neutral"}
          /\ servo' = "neutral" \/ "servo" \in faulty'
          /\ faulty \subseteq faulty' /\ faulty' \subseteq Drivers
      BY <1>15, SafeStateFacts DEF IInv, FinishStroke
    <2>2. /\ pc = "stroke" /\ pc' = "mark" /\ left = 0 /\ write' = "prompt"
          /\ UNCHANGED <<table, due, batch, cur, left, tasks, boot, execs, lock, dbFaults,
                         crashes>>
      BY <1>15 DEF FinishStroke, Up, WriteEnds
    <2>3. TypeOK'
      BY <2>1, <2>2 DEF IInv, TypeOK
    <2>4. LockInv' /\ BatchInv' /\ CountInv'
      BY <2>2 DEF IInv, LockInv, BatchInv, CountInv, InHand, Doomed
    <2>5. RecordInv'
      BY <2>1, <2>2 DEF IInv, TypeOK, RecordInv
    <2>6. KillInv'
      BY <2>2 DEF IInv, TypeOK, KillInv
    <2>7. ServoParked'
      BY <2>1, <2>2 DEF IInv, ServoParked
    <2>8. StampInv' /\ OrderInv'
      BY <2>2 DEF IInv, StampInv, OrderInv
    <2> QED
      BY <2>3, <2>4, <2>5, <2>6, <2>7, <2>8 DEF IInv
  <1>16. CASE MarkApplied
    <2>1. TypeOK'
      BY <1>16 DEF IInv, TypeOK, BatchInv, MarkApplied, Up, Settle, WriteEnds
    <2>2. LockInv'
      BY <1>16 DEF IInv, TypeOK, LockInv, MarkApplied, Up, Settle, WriteEnds
    <2>3. BatchInv'
      BY <1>16 DEF IInv, TypeOK, LockInv, BatchInv, StampInv, MarkApplied, Up,
         Settle, WriteEnds
    <2>4. StampInv'
      BY <1>16 DEF IInv, TypeOK, BatchInv, StampInv, MarkApplied, Up, Settle, WriteEnds
    <2>5. OrderInv'
      BY <1>16 DEF IInv, TypeOK, BatchInv, StampInv, OrderInv, MarkApplied, Up,
         Settle, WriteEnds
    <2>6. CountInv'
      BY <1>16 DEF IInv, TypeOK, BatchInv, StampInv, CountInv, InHand, Doomed, MarkApplied,
         Up, Settle, WriteEnds
    <2>7. RecordInv'
      BY <1>16 DEF IInv, TypeOK, BatchInv, StampInv, RecordInv, MarkApplied, Up,
         Settle, WriteEnds
    <2>8. KillInv'
      BY <1>16 DEF IInv, TypeOK, LockInv, BatchInv, KillInv, MarkApplied, Up, Settle, WriteEnds
    <2>9. ServoParked'
      BY <1>16 DEF IInv, TypeOK, LockInv, BatchInv, StampInv, ServoParked, OpType,
         MarkApplied, Up, Settle, WriteEnds
    <2> QED
      BY <2>1, <2>2, <2>3, <2>4, <2>5, <2>6, <2>7, <2>8, <2>9 DEF IInv
  <1>17. CASE MarkAppliedFails
    <2>1. TypeOK'
      BY <1>17 DEF IInv, TypeOK, BatchInv, MarkAppliedFails, StoreFails, Up, WriteEnds
    <2>2. LockInv'
      BY <1>17 DEF IInv, TypeOK, LockInv, MarkAppliedFails, StoreFails, Up, WriteEnds
    <2>3. BatchInv'
      BY <1>17 DEF IInv, TypeOK, LockInv, BatchInv, StampInv, MarkAppliedFails, StoreFails, Up, WriteEnds
    <2>4. CountInv'
      <3>1. /\ status' = status /\ worker' = worker /\ batch' = batch /\ execs' = execs
            /\ crashes' = crashes /\ cur' = cur /\ pc = "mark" /\ pc' = "markFailed"
            /\ dbFaults' \in Nat /\ dbFaults <= dbFaults'
        BY <1>17 DEF IInv, TypeOK, MarkAppliedFails, StoreFails, Up, WriteEnds
      <3> QED
        BY <3>1 DEF IInv, TypeOK, CountInv, InHand, Doomed
    <2>5. RecordInv'
      BY <1>17 DEF IInv, TypeOK, LockInv, BatchInv, StampInv, RecordInv,
         MarkAppliedFails, StoreFails, Up, WriteEnds
    <2>6. KillInv'
      BY <1>17 DEF IInv, TypeOK, LockInv, BatchInv, KillInv, MarkAppliedFails, StoreFails, Up, WriteEnds
    <2>7. ServoParked'
      BY <1>17 DEF IInv, TypeOK, LockInv, BatchInv, StampInv, ServoParked, OpType,
         MarkAppliedFails, StoreFails, Up, WriteEnds
    <2>8. StampInv' /\ OrderInv'
      BY <1>17 DEF IInv, StampInv, OrderInv, MarkAppliedFails, StoreFails, Up, WriteEnds
    <2> QED
      BY <2>1, <2>2, <2>3, <2>4, <2>5, <2>6, <2>7, <2>8 DEF IInv
  <1>18. CASE MarkFailed
    <2>1. TypeOK'
      BY <1>18 DEF IInv, TypeOK, BatchInv, MarkFailed, Up, Settle, WriteEnds
    <2>2. LockInv'
      BY <1>18 DEF IInv, TypeOK, LockInv, MarkFailed, Up, Settle, WriteEnds
    <2>3. BatchInv'
      BY <1>18 DEF IInv, TypeOK, LockInv, BatchInv, StampInv, MarkFailed, Up, Settle, WriteEnds
    <2>4. StampInv'
      BY <1>18 DEF IInv, TypeOK, BatchInv, StampInv, MarkFailed, Up, Settle, WriteEnds
    <2>5. OrderInv'
      BY <1>18 DEF IInv, TypeOK, BatchInv, StampInv, OrderInv, MarkFailed, Up,
         Settle, WriteEnds
    <2>6. CountInv'
      BY <1>18 DEF IInv, TypeOK, BatchInv, StampInv, CountInv, InHand, Doomed, MarkFailed,
         Up, Settle, WriteEnds
    <2>7. RecordInv'
      BY <1>18 DEF IInv, TypeOK, BatchInv, StampInv, RecordInv, MarkFailed, Up,
         Settle, WriteEnds
    <2>8. KillInv'
      BY <1>18 DEF IInv, TypeOK, LockInv, BatchInv, KillInv, MarkFailed, Up, Settle, WriteEnds
    <2>9. ServoParked'
      BY <1>18 DEF IInv, TypeOK, LockInv, BatchInv, StampInv, ServoParked, OpType,
         MarkFailed, Up, Settle, WriteEnds
    <2> QED
      BY <2>1, <2>2, <2>3, <2>4, <2>5, <2>6, <2>7, <2>8, <2>9 DEF IInv
  <1>19. CASE MarkFailedFails
    <2>1. TypeOK'
      BY <1>19 DEF IInv, TypeOK, BatchInv, MarkFailedFails, StoreFails, Up, WriteEnds, Release
    <2>2. LockInv'
      BY <1>19 DEF IInv, TypeOK, LockInv, MarkFailedFails, StoreFails, Up, WriteEnds, Release
    <2>3. BatchInv'
      BY <1>19 DEF IInv, TypeOK, LockInv, BatchInv, StampInv, MarkFailedFails, StoreFails, Up, WriteEnds,
         Release
    <2>4. OrderInv'
      BY <1>19 DEF IInv, TypeOK, BatchInv, StampInv, OrderInv, MarkFailedFails, StoreFails, Up, WriteEnds,
         Release
    <2>5. CountInv'
      <3>1. /\ status' = status /\ worker' = worker /\ execs' = execs /\ crashes' = crashes
            /\ pc = "markFailed" /\ pc' = "idle" /\ batch' = {} /\ cur' = 0
            /\ \/ dbFaults' = dbFaults + 1 /\ dbFaults \in Nat
               \/ worker = "stopped" /\ dbFaults' = dbFaults
        BY <1>19 DEF IInv, TypeOK, MarkFailedFails, StoreFails, Up, WriteEnds, Release
      <3>2. /\ crashes \in Nat /\ dbFaults \in Nat /\ \A c \in Cmds : execs[c] \in Nat
            /\ cur \in batch
        BY <3>1, ConstantTypes DEF ConstantTypes, IInv, TypeOK, BatchInv
      <3>3. CASE dbFaults' = dbFaults + 1
        BY <3>1, <3>2, <3>3 DEF IInv, CountInv, InHand, Doomed
      <3>4. CASE worker = "stopped" /\ dbFaults' = dbFaults
        BY <3>1, <3>2, <3>4 DEF IInv, CountInv, InHand, Doomed
      <3> QED
        BY <3>1, <3>3, <3>4
    <2>6. RecordInv'
      BY <1>19 DEF IInv, TypeOK, BatchInv, StampInv, RecordInv, MarkFailedFails, StoreFails, Up, WriteEnds,
         Release
    <2>7. KillInv'
      BY <1>19 DEF IInv, TypeOK, LockInv, BatchInv, KillInv, MarkFailedFails, StoreFails, Up, WriteEnds,
         Release
    <2>8. ServoParked'
      BY <1>19 DEF IInv, TypeOK, LockInv, BatchInv, StampInv, ServoParked, OpType,
         MarkFailedFails, StoreFails, Up, WriteEnds, Release
    <2>9. StampInv'
      BY <1>19 DEF IInv, StampInv, MarkFailedFails, StoreFails, Up, WriteEnds, Release
    <2> QED
      BY <2>1, <2>2, <2>3, <2>4, <2>5, <2>6, <2>7, <2>8, <2>9 DEF IInv
  <1>20. CASE FinishBatch
    <2>1. TypeOK'
      BY <1>20 DEF IInv, TypeOK, BatchInv, FinishBatch, Up, Release
    <2>2. LockInv'
      BY <1>20 DEF IInv, TypeOK, LockInv, FinishBatch, Up, Release
    <2>3. BatchInv'
      BY <1>20 DEF IInv, TypeOK, LockInv, BatchInv, StampInv, FinishBatch, Up,
         Release
    <2>4. CountInv'
      BY <1>20 DEF IInv, TypeOK, BatchInv, StampInv, CountInv, InHand, Doomed, FinishBatch,
         Up, Release
    <2>5. RecordInv'
      BY <1>20 DEF IInv, TypeOK, BatchInv, StampInv, RecordInv, FinishBatch, Up,
         Release
    <2>6. KillInv'
      BY <1>20 DEF IInv, TypeOK, LockInv, BatchInv, KillInv, FinishBatch, Up,
         Release
    <2>7. ServoParked'
      BY <1>20 DEF IInv, TypeOK, LockInv, BatchInv, StampInv, ServoParked, OpType,
         FinishBatch, Up, Release
    <2>8. StampInv' /\ OrderInv'
      BY <1>20 DEF IInv, StampInv, OrderInv, FinishBatch, Up, Release
    <2> QED
      BY <2>1, <2>2, <2>3, <2>4, <2>5, <2>6, <2>7, <2>8 DEF IInv
  <1>21. CASE Tick
    <2>1. TypeOK'
      BY <1>21 DEF IInv, TypeOK, BatchInv, Tick
    <2>2. KillInv'
      BY <1>21 DEF IInv, TypeOK, LockInv, BatchInv, KillInv, Tick
    <2>3. LockInv' /\ BatchInv' /\ StampInv' /\ OrderInv' /\ CountInv' /\ RecordInv'
       /\ ServoParked'
      BY <1>21 DEF IInv, LockInv, BatchInv, StampInv, OrderInv, CountInv, InHand, Doomed,
         RecordInv, ServoParked, Tick
    <2> QED
      BY <2>1, <2>2, <2>3 DEF IInv
  \* The main thread.
  <1>22. CASE KillReceive
    <2>1. TypeOK'
      BY <1>22 DEF IInv, TypeOK, BatchInv, KillReceive, Thread
    <2>2. LockInv'
      BY <1>22 DEF IInv, TypeOK, LockInv, KillReceive, Thread
    <2>3. KillInv'
      BY <1>22 DEF IInv, TypeOK, LockInv, BatchInv, KillInv, KillReceive, Thread
    <2>4. BatchInv' /\ StampInv' /\ OrderInv' /\ CountInv' /\ RecordInv' /\
       ServoParked'
      BY <1>22 DEF IInv, BatchInv, StampInv, OrderInv, CountInv, InHand, Doomed, RecordInv,
         ServoParked, KillReceive, Thread
    <2> QED
      BY <2>1, <2>2, <2>3, <2>4 DEF IInv
  <1>23. CASE KillAcquire
    <2>1. TypeOK'
      BY <1>23 DEF IInv, TypeOK, BatchInv, KillAcquire, Thread, WaitIsOver
    <2>2. LockInv'
      BY <1>23 DEF IInv, TypeOK, LockInv, KillAcquire, Thread, WaitIsOver
    <2>3. KillInv'
      BY <1>23 DEF IInv, TypeOK, LockInv, BatchInv, KillInv, KillAcquire, Thread, WaitIsOver
    <2>4. BatchInv' /\ StampInv' /\ OrderInv' /\ CountInv' /\ RecordInv' /\
       ServoParked'
      BY <1>23 DEF IInv, BatchInv, StampInv, OrderInv, CountInv, InHand, Doomed, RecordInv,
         ServoParked, KillAcquire, Thread, WaitIsOver
    <2> QED
      BY <2>1, <2>2, <2>3, <2>4 DEF IInv
  <1>24. CASE KillBusy
    <2>1. TypeOK'
      BY <1>24 DEF IInv, TypeOK, BatchInv, KillBusy, Thread, WaitIsOver
    <2>2. LockInv'
      BY <1>24 DEF IInv, TypeOK, LockInv, KillBusy, Thread, WaitIsOver
    <2>3. KillInv'
      BY <1>24 DEF IInv, TypeOK, LockInv, BatchInv, KillInv, KillBusy, Thread, WaitIsOver
    <2>4. BatchInv' /\ StampInv' /\ OrderInv' /\ CountInv' /\ RecordInv' /\
       ServoParked'
      BY <1>24 DEF IInv, BatchInv, StampInv, OrderInv, CountInv, InHand, Doomed, RecordInv,
         ServoParked, KillBusy, Thread, WaitIsOver
    <2> QED
      BY <2>1, <2>2, <2>3, <2>4 DEF IInv
  <1>25. CASE KillRun
    <2>1. /\ outputs' \subseteq outputs /\ servo' \in {servo, "neutral"}
          /\ faulty \subseteq faulty' /\ faulty' \subseteq Drivers
      BY <1>25, SafeStateFacts DEF IInv, TypeOK, KillRun, KillSwitch
    <2>2. /\ main = "killing" /\ main' = "idle" /\ lock' = "free" /\ worker = "up"
          /\ UNCHANGED <<table, exec, wait, killq, kills, longs, boot, execs, dbFaults, crashes>>
      BY <1>25 DEF KillRun, Thread
    <2>3. TypeOK'
      BY <2>1, <2>2 DEF IInv, TypeOK
    <2>4. LockInv'
      BY <2>2 DEF IInv, TypeOK, LockInv
    <2>5. RecordInv'
      BY <2>1, <2>2 DEF IInv, TypeOK, RecordInv
    <2>6. KillInv' /\ BatchInv' /\ StampInv' /\ OrderInv' /\ CountInv'
      BY <2>2 DEF IInv, KillInv, BatchInv, StampInv, OrderInv, CountInv, InHand, Doomed
    <2>7. ServoParked'
      BY <2>1, <2>2 DEF IInv, ServoParked
    <2> QED
      BY <2>3, <2>4, <2>5, <2>6, <2>7 DEF IInv
  <1>26. CASE RetentionStart
    <2>1. TypeOK'
      BY <1>26 DEF IInv, TypeOK, BatchInv, RetentionStart, Thread
    <2>2. LockInv'
      BY <1>26 DEF IInv, TypeOK, LockInv, RetentionStart, Thread
    <2>3. KillInv'
      BY <1>26 DEF IInv, TypeOK, LockInv, BatchInv, KillInv, RetentionStart, Thread
    <2>4. BatchInv' /\ StampInv' /\ OrderInv' /\ CountInv' /\ RecordInv' /\
       ServoParked'
      BY <1>26 DEF IInv, BatchInv, StampInv, OrderInv, CountInv, InHand, Doomed, RecordInv,
         ServoParked, RetentionStart, Thread
    <2> QED
      BY <2>1, <2>2, <2>3, <2>4 DEF IInv
  <1>27. CASE RetentionEnd
    <2>1. TypeOK'
      BY <1>27 DEF IInv, TypeOK, BatchInv, RetentionEnd, Thread
    <2>2. LockInv'
      BY <1>27 DEF IInv, TypeOK, LockInv, RetentionEnd, Thread
    <2>3. KillInv'
      BY <1>27 DEF IInv, TypeOK, LockInv, BatchInv, KillInv, RetentionEnd, Thread
    <2>4. BatchInv' /\ StampInv' /\ OrderInv' /\ CountInv' /\ RecordInv' /\
       ServoParked'
      BY <1>27 DEF IInv, BatchInv, StampInv, OrderInv, CountInv, InHand, Doomed, RecordInv,
         ServoParked, RetentionEnd, Thread
    <2> QED
      BY <2>1, <2>2, <2>3, <2>4 DEF IInv
  \* Death and start.
  <1>28. CASE Crash
    <2>1. TypeOK'
      BY <1>28 DEF IInv, TypeOK, BatchInv, Crash, WaitIsOver
    <2>2. LockInv'
      BY <1>28 DEF IInv, TypeOK, LockInv, Crash, WaitIsOver
    <2>3. BatchInv'
      BY <1>28 DEF IInv, TypeOK, LockInv, BatchInv, StampInv, Crash, WaitIsOver
    <2>4. OrderInv'
      BY <1>28 DEF IInv, TypeOK, BatchInv, StampInv, OrderInv, Crash, WaitIsOver
    <2>5. CountInv'
      BY <1>28 DEF IInv, TypeOK, BatchInv, StampInv, CountInv, InHand, Doomed, Crash, WaitIsOver
    <2>6. RecordInv'
      BY <1>28 DEF IInv, TypeOK, BatchInv, StampInv, RecordInv, Crash, WaitIsOver
    <2>7. KillInv'
      BY <1>28 DEF IInv, TypeOK, LockInv, BatchInv, KillInv, Crash, WaitIsOver
    <2>8. ServoParked'
      BY <1>28 DEF IInv, TypeOK, LockInv, BatchInv, StampInv, ServoParked, OpType,
         Crash, WaitIsOver
    <2>9. StampInv'
      BY <1>28 DEF IInv, StampInv, Crash, WaitIsOver
    <2> QED
      BY <2>1, <2>2, <2>3, <2>4, <2>5, <2>6, <2>7, <2>8, <2>9 DEF IInv
  <1>29. CASE Start
    <2>1. TypeOK'
      BY <1>29 DEF IInv, TypeOK, LockInv, BatchInv, Start
    <2>2. LockInv'
      BY <1>29 DEF IInv, TypeOK, LockInv, Start
    <2>3. ServoParked'
      BY <1>29 DEF IInv, TypeOK, LockInv, BatchInv, StampInv, ServoParked, OpType,
         Start
    <2>4. BatchInv' /\ StampInv' /\ OrderInv' /\ CountInv' /\ RecordInv' /\ KillInv'
      BY <1>29 DEF IInv, BatchInv, StampInv, OrderInv, CountInv, InHand, Doomed, RecordInv,
         KillInv, Start
    <2> QED
      BY <2>1, <2>2, <2>3, <2>4 DEF IInv
  <1>30. CASE Shutdown
    <2>1. TypeOK'
      BY <1>30 DEF IInv, TypeOK, LockInv, BatchInv, Shutdown, Thread
    <2>2. LockInv'
      BY <1>30 DEF IInv, TypeOK, LockInv, Shutdown, Thread
    <2>3. CountInv'
      BY <1>30 DEF IInv, TypeOK, LockInv, BatchInv, CountInv, InHand, Doomed, Shutdown, Thread
    <2>4. RecordInv'
      BY <1>30 DEF IInv, TypeOK, LockInv, RecordInv, Shutdown, Thread
    <2>5. ServoParked'
      BY <1>30 DEF IInv, TypeOK, LockInv, ServoParked, Shutdown, Thread
    <2>6. BatchInv' /\ StampInv' /\ OrderInv' /\ KillInv'
      BY <1>30 DEF IInv, BatchInv, StampInv, OrderInv, KillInv, Shutdown, Thread
    <2> QED
      BY <2>1, <2>2, <2>3, <2>4, <2>5, <2>6 DEF IInv
  <1>31. ASSUME NEW d \in Drivers, CloseDriver(d) PROVE IInv'
    <2>1. SafeState({d}) /\ open' \in {open, open \ {d}} /\ todo' = todo \ {d}
      BY <1>31 DEF CloseDriver, SafeState
    <2>2. /\ outputs' \subseteq outputs /\ servo' \in {servo, "neutral"}
          /\ faulty \subseteq faulty' /\ faulty' \subseteq Drivers
      BY <2>1, SafeStateFacts DEF IInv
    <2>3. /\ worker = "stopping" /\ present' = present
          /\ UNCHANGED <<table, exec, tasks, worker, sched, execs, lock, dbFaults, crashes>>
      BY <1>31 DEF CloseDriver
    <2>4. TypeOK'
      <3>1. open' \subseteq present' /\ todo' \subseteq open'
        BY <2>1, <2>3 DEF IInv, TypeOK
      <3> QED
        BY <2>1, <2>2, <2>3, <3>1 DEF IInv, TypeOK
    <2>5. LockInv'
      BY <2>3 DEF IInv, TypeOK, LockInv
    <2>6. CountInv'
      BY <2>3 DEF IInv, TypeOK, LockInv, BatchInv, CountInv, InHand, Doomed
    <2>7. RecordInv'
      BY <2>2, <2>3 DEF IInv, TypeOK, LockInv, RecordInv
    <2>8. ServoParked'
      BY <2>2, <2>3 DEF IInv, TypeOK, LockInv, ServoParked
    <2>9. BatchInv' /\ StampInv' /\ OrderInv' /\ KillInv'
      BY <2>3 DEF IInv, BatchInv, StampInv, OrderInv, KillInv
    <2> QED
      BY <2>4, <2>5, <2>6, <2>7, <2>8, <2>9 DEF IInv
  <1>32. CASE ClearResources
    <2>1. TypeOK'
      BY <1>32 DEF IInv, TypeOK, BatchInv, ClearResources
    <2>2. LockInv'
      BY <1>32 DEF IInv, TypeOK, LockInv, ClearResources
    <2>3. CountInv'
      BY <1>32 DEF IInv, TypeOK, LockInv, BatchInv, CountInv, InHand, Doomed, ClearResources
    <2>4. RecordInv'
      BY <1>32 DEF IInv, TypeOK, LockInv, RecordInv, ClearResources
    <2>5. ServoParked'
      BY <1>32 DEF IInv, TypeOK, LockInv, ServoParked, ClearResources
    <2>6. BatchInv' /\ StampInv' /\ OrderInv' /\ KillInv'
      BY <1>32 DEF IInv, BatchInv, StampInv, OrderInv, KillInv, ClearResources
    <2> QED
      BY <2>1, <2>2, <2>3, <2>4, <2>5, <2>6 DEF IInv
  <1>33. CASE Exit
    <2>1. TypeOK'
      BY <1>33 DEF IInv, TypeOK, BatchInv, Exit
    <2>2. LockInv'
      BY <1>33 DEF IInv, TypeOK, LockInv, Exit
    <2>3. CountInv'
      BY <1>33 DEF IInv, TypeOK, LockInv, BatchInv, CountInv, InHand, Doomed, Exit
    <2>4. RecordInv'
      BY <1>33 DEF IInv, TypeOK, LockInv, RecordInv, Exit
    <2>5. ServoParked'
      BY <1>33 DEF IInv, TypeOK, LockInv, ServoParked, Exit
    <2>6. BatchInv' /\ StampInv' /\ OrderInv' /\ KillInv'
      BY <1>33 DEF IInv, BatchInv, StampInv, OrderInv, KillInv, Exit
    <2> QED
      BY <2>1, <2>2, <2>3, <2>4, <2>5, <2>6 DEF IInv
  <1>34. CASE NoStore
    <2>1. TypeOK'
      BY <1>34 DEF IInv, TypeOK, NoStore, Takes, Up
    <2>2. LockInv' /\ BatchInv' /\ StampInv' /\ OrderInv' /\ CountInv' /\ RecordInv'
       /\ KillInv' /\ ServoParked'
      BY <1>34 DEF IInv, LockInv, BatchInv, StampInv, OrderInv, CountInv, InHand, Doomed,
         RecordInv, KillInv, ServoParked, NoStore, Takes, Up
    <2> QED
      BY <2>1, <2>2 DEF IInv
  <1>35. CASE WriteBlocks
    <2>1. TypeOK'
      BY <1>35 DEF IInv, TypeOK, WriteBlocks
    <2>2. KillInv'
      BY <1>35 DEF IInv, TypeOK, LockInv, BatchInv, KillInv, WriteBlocks
    <2>3. LockInv' /\ BatchInv' /\ StampInv' /\ OrderInv' /\ CountInv' /\ RecordInv'
       /\ ServoParked'
      BY <1>35 DEF IInv, LockInv, BatchInv, StampInv, OrderInv, CountInv, InHand, Doomed,
         RecordInv, ServoParked, WriteBlocks
    <2> QED
      BY <2>1, <2>2, <2>3 DEF IInv
  <1>36. CASE UNCHANGED vars
    BY <1>36 DEF IInv, vars, TypeOK, LockInv, BatchInv, StampInv, OrderInv,
       CountInv, InHand, Doomed, RecordInv, KillInv, ServoParked
  <1> QED
    BY <1>1, <1>2, <1>3, <1>4, <1>5, <1>6, <1>7, <1>8, <1>9, <1>10, <1>11, <1>12,
       <1>13, <1>14, <1>15, <1>16, <1>17, <1>18, <1>19, <1>20, <1>21, <1>22, <1>23,
       <1>24, <1>25, <1>26, <1>27, <1>28, <1>29, <1>30, <1>31, <1>32, <1>33, <1>34,
       <1>35, <1>36 DEF Next, Executor, Sampler, Fetcher, Applier, KillTask, Stopping

\* The inductive invariant holds in every reachable state: the safety of the
\* worker rests on it.
THEOREM InductiveInvariant == Spec => []IInv
  BY InitIInv, NextIInv, PTL DEF Spec

\* The variables of the worker stay within their types.
THEOREM TypeCorrect == Spec => []TypeOK
  <1>1. IInv => TypeOK
    BY DEF IInv
  <1> QED
    BY <1>1, InductiveInvariant, PTL

\* The executor thread and the kill switch never drive the bus together, and
\* a taken lock always has an owner that will release it.
THEOREM LockSafety == Spec => [](BusExclusive /\ LockHasOwner)
  <1>1. IInv => BusExclusive /\ LockHasOwner
    BY DEF IInv, LockInv, BusExclusive, LockHasOwner
  <1> QED
    BY <1>1, InductiveInvariant, PTL

\* A command takes effect again only after a crash, a stop or a lost status
\* update.
THEOREM EffectsAreCounted == Spec => []RepeatNeedsFault
  <1>1. IInv => RepeatNeedsFault
    BY DEF IInv, TypeOK, CountInv, RepeatNeedsFault
  <1> QED
    BY <1>1, InductiveInvariant, PTL

\* What the commands table says of a command is what happened to it.
THEOREM StatusIsHonest == Spec => []HonestStatus
  <1>1. IInv => HonestStatus
    BY DEF IInv, TypeOK, RecordInv, BatchInv, HonestStatus
  <1> QED
    BY <1>1, InductiveInvariant, PTL

\* The clicks of one control take effect in the order of the clicks.
THEOREM ClicksInOrder == Spec => []HandlerOrder
  <1>1. IInv => HandlerOrder
    BY DEF IInv, TypeOK, BatchInv, OrderInv, HandlerOrder
  <1> QED
    BY <1>1, InductiveInvariant, PTL

\* The Analog IO is handed back with the servos in neutral after every stroke.
THEOREM ServoIsParked == Spec => []ServoParked
  <1>1. IInv => ServoParked
    BY DEF IInv
  <1> QED
    BY <1>1, InductiveInvariant, PTL

LEMMA DarkNext == IInv /\ ClosedStayDark /\ [Next]_vars => ClosedStayDark'
  <1> SUFFICES ASSUME IInv, ClosedStayDark, [Next]_vars PROVE ClosedStayDark'
    OBVIOUS
  <1> USE DEF table, exec, tasks, boot, hw
  <1>1. ASSUME NEW c \in Cmds, Execute(c) PROVE ClosedStayDark'
    <2>1. op[c] \in Ops /\ op[c] \in OpType
      BY <1>1 DEF IInv, TypeOK, BatchInv, StampInv, Execute, IsNext
    <2>2. UNCHANGED <<present, open>>
      BY <1>1 DEF Execute
    <2>3. CASE op[c].action = "lit"
      <3>1. op[c].actuator \in open /\ Owner[op[c].output] = op[c].actuator
        BY <1>1, <2>1, <2>3 DEF Execute, Executable, Usable, OpType
      <3>2. outputs' = outputs \cup {op[c].output}
        BY <1>1, <2>3 DEF Execute, Switch
      <3> QED
        BY <2>2, <3>1, <3>2 DEF ClosedStayDark
    <2>4. CASE op[c].action \in {"dark", "set_angle", "neutral"}
      <3>1. outputs' \subseteq outputs
        BY <1>1, <2>4 DEF Execute, Switch
      <3> QED
        BY <2>2, <3>1 DEF ClosedStayDark
    <2>5. CASE op[c].action \notin {"lit", "dark", "set_angle", "neutral"}
      <3>1. SafeState(present) /\ present \in SUBSET Drivers
        BY <1>1, <2>1, <2>5, SwitchFacts DEF IInv, TypeOK, Execute
      <3>2. outputs' \subseteq outputs
        BY <3>1, SafeStateFacts DEF IInv
      <3> QED
        BY <2>2, <3>2 DEF ClosedStayDark
    <2> QED
      BY <2>3, <2>4, <2>5
  <1>7. ASSUME NEW c \in Cmds, ExecuteRaises(c) PROVE ClosedStayDark'
    <2>1. op[c] \in Ops /\ op[c] \in OpType
      BY <1>7 DEF IInv, TypeOK, BatchInv, StampInv, ExecuteRaises, IsNext
    <2>2. UNCHANGED <<present, open>>
      BY <1>7 DEF ExecuteRaises
    <2>3. CASE UNCHANGED hw
      BY <2>2, <2>3 DEF ClosedStayDark
    <2>4. CASE Executable(op[c]) /\ SwitchRaises(op[c])
      <3>1. CASE op[c].action = "lit"
        <4>1. op[c].actuator \in open /\ Owner[op[c].output] = op[c].actuator
          BY <2>1, <2>4, <3>1 DEF Executable, Usable, OpType
        <4>2. outputs' \subseteq outputs \cup {op[c].output}
          BY <2>4 DEF SwitchRaises
        <4> QED
          BY <2>2, <4>1, <4>2 DEF ClosedStayDark
      <3>2. CASE op[c].action # "lit"
        <4>1. outputs' \subseteq outputs
          BY <2>4, <3>2 DEF SwitchRaises
        <4> QED
          BY <2>2, <4>1 DEF ClosedStayDark
      <3> QED
        BY <3>1, <3>2
    <2> QED
      BY <1>7, <2>3, <2>4 DEF ExecuteRaises
  <1>8. CASE FinishStroke
    <2>1. outputs' \subseteq outputs /\ UNCHANGED <<present, open>>
      BY <1>8, SafeStateFacts DEF IInv, FinishStroke
    <2> QED
      BY <2>1 DEF ClosedStayDark
  <1>2. CASE KillRun
    <2>1. SafeState(present) /\ present \in SUBSET Drivers /\ UNCHANGED <<present, open>>
      BY <1>2 DEF IInv, TypeOK, KillRun, KillSwitch
    <2>2. outputs' \subseteq outputs
      BY <2>1, SafeStateFacts DEF IInv
    <2> QED
      BY <2>1, <2>2 DEF ClosedStayDark
  <1>3. ASSUME NEW d \in Drivers, CloseDriver(d) PROVE ClosedStayDark'
    BY <1>3 DEF CloseDriver, Secure, ClosedStayDark
  <1>4. CASE Crash \/ ClearResources
    BY <1>4 DEF Crash, ClearResources, ClosedStayDark
  <1>5. CASE Start
    BY <1>5 DEF Start, ClosedStayDark
  <1>6. CASE UNCHANGED <<outputs, present, open>>
    BY <1>6 DEF ClosedStayDark
  <1> QED
    BY <1>1, <1>2, <1>3, <1>4, <1>5, <1>6, <1>7, <1>8 DEF Next, Executor, Sampler, Fetcher,
       Applier, KillTask, Stopping, StampCommand, CommitCommand, InsertFails, SendKill, Submit,
       StartSample, SkipSample, FinishSample, WriteBlocks, FetchPending, FetchFails, NoStore,
       AcquireForBatch, DropBatch, MarkApplied, MarkFailed,
       Settle, MarkAppliedFails, MarkFailedFails, FinishBatch, Tick, WriteBlocks, KillReceive,
       KillAcquire, KillBusy, RetentionStart, RetentionEnd, Shutdown, Exit, vars

\* Nothing that a job does while the worker stops energises an output of a
\* driver that is closed already, for every set of drivers and commands.
THEOREM StopIsDark == Spec => []ClosedStayDark
  <1>1. Init => ClosedStayDark
    BY DEF Init, ClosedStayDark
  <1> QED
    BY <1>1, DarkNext, InductiveInvariant, PTL DEF Spec

\* The next user finds the bus free, the servo parked and the closed drivers at
\* rest, for every number of commands, handlers, kills and faults.
THEOREM HardwareIsOrderly == Spec => []HardwareOrderly
  <1>1. BusExclusive /\ LockHasOwner /\ ServoParked /\ ClosedStayDark => HardwareOrderly
    BY DEF HardwareOrderly
  <1> QED
    BY <1>1, LockSafety, ServoIsParked, StopIsDark, PTL

\* One stroke or one sweep never costs a kill: for every length of the two
\* that is below the timeout, "busy" means that two of them came in a row.
THEOREM BusyNeedsTwoOperations == Spec => BusyBehindLongWork
  <1> DEFINE Patient ==
        (main = "waiting" /\ main' = "idle" /\ worker' = "up") => longs = 2
  <1>1. IInv /\ [Next]_vars => [Patient]_vars
    <2> SUFFICES ASSUME IInv, Next PROVE Patient
      OBVIOUS
    <2>1. CASE KillBusy
      BY <2>1 DEF KillBusy, IInv, KillInv, TypeOK
    <2>2. CASE Crash \/ Shutdown
      BY <2>2 DEF Crash, Shutdown
    <2>3. CASE main' = main \/ main # "waiting"
      BY <2>3
    <2> QED
      BY <2>1, <2>2, <2>3 DEF Next, Executor, Sampler, Fetcher, Applier, KillTask,
         StampCommand, CommitCommand, InsertFails, SendKill, Submit, StartSample,
         SkipSample, FinishSample, FetchPending, FetchFails, NoStore, AcquireForBatch, DropBatch,
         Execute, ExecuteRaises, FinishStroke, MarkApplied, MarkFailed, Settle,
         MarkAppliedFails, MarkFailedFails, FinishBatch, Tick, WriteBlocks, KillReceive, KillAcquire,
         KillRun, RetentionStart, RetentionEnd, Stopping, CloseDriver, ClearResources, Exit,
         Start, Thread, tasks
  <1> QED
    BY <1>1, InductiveInvariant, PTL DEF Spec, BusyBehindLongWork

-----------------------------------------------------------------------------
(* The worker implements the contract of the commands table.               *)

LEMMA ContractInit == Init => Contract!Init
  BY DEF Init, Contract!Init

LEMMA ContractNext == IInv /\ [Next]_vars => [Contract!Next]_(Contract!vars)
  <1> SUFFICES ASSUME IInv, [Next]_vars PROVE [Contract!Next]_(Contract!vars)
    OBVIOUS
  <1> USE DEF Contract!vars
  <1>1. ASSUME NEW h \in Handlers, NEW o \in Ops, StampCommand(h, o)
        PROVE  UNCHANGED Contract!vars
    BY <1>1 DEF IInv, TypeOK, StampInv, StampCommand, hw
  <1>2. ASSUME NEW c \in Cmds, CommitCommand(c) PROVE Contract!Insert(c)
    BY <1>2 DEF IInv, TypeOK, CommitCommand, hw, Contract!Insert
  <1>3. ASSUME NEW c \in Cmds, InsertFails(c) PROVE UNCHANGED Contract!vars
    BY <1>3 DEF IInv, TypeOK, InsertFails, hw
  <1>4. ASSUME NEW c \in Cmds, Execute(c) PROVE Contract!TakeEffect(c)
    BY <1>4 DEF IInv, TypeOK, BatchInv, Execute, IsNext, table, Contract!TakeEffect
  <1>8. ASSUME NEW c \in Cmds, ExecuteRaises(c), execs' # execs
        PROVE  Contract!TakeEffect(c)
    <2>1. c \in batch /\ status[c] = "pending"
      BY <1>8 DEF IInv, BatchInv, ExecuteRaises, IsNext
    <2>2. status' = status /\ execs' = [execs EXCEPT ![c] = @ + 1]
      BY <1>8 DEF ExecuteRaises, table, hw
    <2> QED
      BY <2>1, <2>2 DEF IInv, TypeOK, Contract!TakeEffect
  <1>5. CASE MarkApplied
    <2>1. PICK c \in Cmds : c = cur /\ status[c] = "pending"
      BY <1>5 DEF IInv, TypeOK, BatchInv, MarkApplied, Up
    <2>2. status' = [status EXCEPT ![c] = "applied"] /\ execs' = execs
      BY <1>5, <2>1 DEF MarkApplied, Settle, hw
    <2>3. Contract!Apply(c)
      BY <1>5, <2>1, <2>2 DEF IInv, TypeOK, RecordInv, MarkApplied, Up, Contract!Apply
    <2> QED
      BY <2>3 DEF Contract!Next
  <1>6. CASE MarkFailed
    <2>1. PICK c \in Cmds : c = cur /\ status[c] = "pending"
      BY <1>6 DEF IInv, TypeOK, BatchInv, MarkFailed, Up
    <2>2. status' = [status EXCEPT ![c] = "failed"] /\ execs' = execs
      BY <1>6, <2>1 DEF MarkFailed, Settle, hw
    <2>3. Contract!Fail(c)
      BY <1>6, <2>1, <2>2 DEF IInv, TypeOK, RecordInv, MarkFailed, Up, Contract!Fail
    <2> QED
      BY <2>3 DEF Contract!Next
  <1>7. CASE UNCHANGED <<status, execs>>
    BY <1>7
  <1> QED
    BY <1>1, <1>2, <1>3, <1>4, <1>5, <1>6, <1>7, <1>8 DEF Contract!Next, Next, Executor,
       Sampler, Fetcher, Applier, KillTask, SendKill, Submit, StartSample, SkipSample,
       FinishSample, FetchPending, FetchFails, NoStore, AcquireForBatch, DropBatch, ExecuteRaises,
       FinishStroke, MarkAppliedFails, MarkFailedFails, FinishBatch, Tick, WriteBlocks, KillReceive,
       KillAcquire, KillBusy, KillRun, RetentionStart, RetentionEnd, Crash, Shutdown,
       Stopping, CloseDriver, ClearResources, Exit, Start,
       table, hw, vars

\* Through crashes, lost updates and stale snapshots, a row is settled once
\* and for all, and it is applied only if its command took effect.
THEOREM ImplementsContract == Spec => KeepsContract
  BY ContractInit, ContractNext, InductiveInvariant, PTL
     DEF Spec, KeepsContract, Contract!Spec
=============================================================================
