------------------------ MODULE SqliteSessionProofs ------------------------
(***************************************************************************)
(* Safety of the hw-worker's connection for every set of deployments and   *)
(* every number of commands, sensor failures and timeouts.                 *)
(*                                                                         *)
(* The inductive invariant says where a partial row comes from, who may    *)
(* hold a transaction, and, in a robust deployment, that the fetched rows  *)
(* are still pending and how often each command can have taken effect.     *)
(***************************************************************************)
EXTENDS SqliteSession, TLAPS

\* A row lacks a key only if a sensor is missing or its read failed.
RowInv == row = "partial" => ~deploy.complete \/ glitches > 0

\* The rows in hand are pending; a command that is not between its effect and
\* the record of it has had one effect per lost update.
CountInv ==
  Robust =>
    /\ \A c \in batch : status[c] = "pending"
    /\ \A c \in Cmds : (pc = "mark" /\ cur = c) => status[c] = "pending"
    /\ \A c \in Cmds : execs[c] <= 1 + timeouts
    /\ \A c \in Cmds :
         (status[c] \in {"none", "pending"} /\ ~(pc = "mark" /\ cur = c))
            => execs[c] <= timeouts

IInv == TypeOK /\ RowInv /\ NoLeftoverTransaction /\ CountInv

LEMMA InitIInv == Init => IInv
  BY ConstantTypes DEF ConstantTypes, DeploymentType, Init, IInv, TypeOK, RowInv,
     NoLeftoverTransaction, CountInv, Cmds, Undisturbed, Sqlite, Robust

\* In a robust deployment nothing disturbs the connection but a timeout on
\* PostgreSQL, and no transaction is ever left open.
LEMMA RobustIsIdle == IInv /\ Robust => tx = "none"
  BY ConstantTypes DEF ConstantTypes, DeploymentType, IInv, TypeOK, Robust, Sqlite,
     NoLeftoverTransaction, Undisturbed

\* What a statement that raises leaves behind.
LEMMA LockedKeeps ==
  ASSUME IInv, Locked, deploy' = deploy, glitches' = glitches
  PROVE  /\ tx' \in {"none", "begun"} \cup Pinned /\ view' \subseteq Cmds
         /\ timeouts' \in 0..deploy'.timeouts /\ timeouts <= timeouts'
         /\ NoLeftoverTransaction'
         /\ Robust => timeouts' = timeouts + 1
  BY RobustIsIdle, ConstantTypes DEF ConstantTypes, DeploymentType, IInv, TypeOK, Locked,
     NoLeftoverTransaction, Undisturbed, Sqlite, Pinned, Robust

\* A job that only waits for the next statement keeps what CountInv counts.
LEMMA LockedCounts ==
  ASSUME IInv, Locked, deploy' = deploy, status' = status, execs' = execs,
         glitches' = glitches, batch' \subseteq batch,
         pc' = "mark" => pc = "mark" /\ cur' = cur
  PROVE  CountInv'
  <1> SUFFICES ASSUME Robust PROVE CountInv'
    BY DEF CountInv, Robust, Sqlite
  <1>1. timeouts' = timeouts + 1 /\ timeouts \in Nat
    BY LockedKeeps, ConstantTypes DEF ConstantTypes, DeploymentType, IInv, TypeOK
  <1>2. \A c \in Cmds : execs[c] \in Nat
    BY ConstantTypes DEF ConstantTypes, IInv, TypeOK
  <1> QED
    BY <1>1, <1>2 DEF IInv, CountInv

\* Recording the command in hand ends what CountInv counts for it.
LEMMA SettleKeeps ==
  ASSUME IInv, pc \in {"mark", "markFailed"}, NEW s \in {"applied", "failed"}, Settle(s)
  PROVE  IInv'
  <1>1. PICK c \in Cmds : c = cur
    BY ConstantTypes DEF ConstantTypes, IInv, TypeOK, Cmds
  <1>2. status' = [status EXCEPT ![c] = s] /\ batch' = batch \ {c} /\ cur' = 0
    BY <1>1 DEF Settle
  <1>3. /\ pc' \in {"idle", "loop"} /\ tx' = "none" /\ view' = {}
        /\ UNCHANGED <<deploy, row, lastRow, execs, glitches, timeouts>>
    BY DEF Settle, Commits
  <1>4. TypeOK'
    BY <1>1, <1>2, <1>3, ConstantTypes DEF ConstantTypes, DeploymentType, IInv, TypeOK, Cmds
  <1>5. RowInv' /\ NoLeftoverTransaction'
    BY <1>3 DEF IInv, RowInv, NoLeftoverTransaction
  <1>6. CountInv'
    BY <1>1, <1>2, <1>3 DEF IInv, TypeOK, CountInv, Robust, Sqlite
  <1> QED
    BY <1>4, <1>5, <1>6 DEF IInv

LEMMA NextIInv == IInv /\ [Next]_vars => IInv'
  <1> SUFFICES ASSUME IInv, [Next]_vars PROVE IInv'
    OBVIOUS
  <1>1. CASE ReadSensors
    <2>1. TypeOK' /\ RowInv'
      BY <1>1 DEF ReadSensors, IInv, TypeOK, RowInv, cmds, faults
    <2>2. NoLeftoverTransaction' /\ CountInv'
      BY <1>1 DEF ReadSensors, IInv, NoLeftoverTransaction, CountInv, Robust, Sqlite, Undisturbed,
         cmds, faults
    <2> QED
      BY <2>1, <2>2 DEF IInv
  <1>2. CASE ReadGlitch
    <2>1. TypeOK' /\ RowInv'
      BY <1>2, ConstantTypes
      DEF ConstantTypes, DeploymentType, ReadGlitch, IInv, TypeOK, RowInv, cmds, faults
    <2>2. NoLeftoverTransaction'
      BY <1>2, ConstantTypes
      DEF ConstantTypes, DeploymentType, ReadGlitch, IInv, TypeOK, NoLeftoverTransaction, Sqlite,
          Undisturbed, cmds, faults
    <2>3. CountInv'
      BY <1>2 DEF ReadGlitch, IInv, CountInv, Robust, Sqlite, cmds, faults
    <2> QED
      BY <2>1, <2>2, <2>3 DEF IInv
  <1>3. CASE EmitEvent
    <2>1. CASE Commits
      <3>1. TypeOK'
        BY <1>3, <2>1, ConstantTypes
        DEF EmitEvent, Commits, Insertable, ConstantTypes, DeploymentType, IInv, TypeOK, Pinned,
            cmds, rows, faults
      <3>2. RowInv' /\ NoLeftoverTransaction'
        BY <1>3, <2>1, ConstantTypes
        DEF EmitEvent, Commits, Insertable, ConstantTypes, DeploymentType, IInv, TypeOK, RowInv,
            NoLeftoverTransaction, Undisturbed, Sqlite, Pinned, cmds, rows, faults
      <3>3. CountInv'
        BY <1>3, <2>1, RobustIsIdle
        DEF EmitEvent, Commits, Insertable, IInv, TypeOK, CountInv, Robust, Sqlite,
            cmds, rows, faults
      <3> QED
        BY <3>1, <3>2, <3>3 DEF IInv
    <2>2. CASE Locked
      <3>1. NoLeftoverTransaction' /\ CountInv'
        BY <1>3, <2>2, LockedKeeps, LockedCounts DEF EmitEvent, IInv, cmds, rows, faults
      <3>2. TypeOK'
        BY <1>3, <2>2, LockedKeeps, ConstantTypes
        DEF EmitEvent, ConstantTypes, DeploymentType, IInv, TypeOK, cmds, rows, faults
      <3>3. RowInv'
        BY <1>3, <2>2 DEF EmitEvent, IInv, RowInv, cmds, rows, faults
      <3> QED
        BY <3>1, <3>2, <3>3 DEF IInv
    <2> QED
      BY <1>3, <2>1, <2>2 DEF EmitEvent
  <1>4. CASE StoreReading
    <2>1. CASE Commits
      <3>1. TypeOK'
        BY <1>4, <2>1, ConstantTypes
        DEF StoreReading, Commits, Insertable, ConstantTypes, DeploymentType, IInv, TypeOK, Pinned,
            cmds, rows, faults
      <3>2. RowInv' /\ NoLeftoverTransaction'
        BY <1>4, <2>1, ConstantTypes
        DEF StoreReading, Commits, Insertable, ConstantTypes, DeploymentType, IInv, TypeOK, RowInv,
            NoLeftoverTransaction, Undisturbed, Sqlite, Pinned, cmds, rows, faults
      <3>3. CountInv'
        BY <1>4, <2>1, RobustIsIdle
        DEF StoreReading, Commits, Insertable, IInv, TypeOK, CountInv, Robust, Sqlite,
            cmds, rows, faults
      <3> QED
        BY <3>1, <3>2, <3>3 DEF IInv
    <2>2. CASE Locked
      <3>1. NoLeftoverTransaction' /\ CountInv'
        BY <1>4, <2>2, LockedKeeps, LockedCounts DEF StoreReading, IInv, cmds, rows, faults
      <3>2. TypeOK'
        BY <1>4, <2>2, LockedKeeps, ConstantTypes
        DEF StoreReading, ConstantTypes, DeploymentType, IInv, TypeOK, cmds, rows, faults
      <3>3. RowInv'
        BY <1>4, <2>2 DEF StoreReading, IInv, RowInv, cmds, rows, faults
      <3> QED
        BY <3>1, <3>2, <3>3 DEF IInv
    <2> QED
      BY <1>4, <2>1, <2>2 DEF StoreReading
  <1>5. CASE BindingFails
    <2>1. TypeOK'
      BY <1>5, ConstantTypes
      DEF BindingFails, Insertable, ConstantTypes, DeploymentType, IInv, TypeOK, Pinned,
          cmds, rows, faults
    <2>2. RowInv' /\ NoLeftoverTransaction'
      BY <1>5, ConstantTypes
      DEF BindingFails, Insertable, ConstantTypes, DeploymentType, IInv, TypeOK, RowInv,
          NoLeftoverTransaction, Undisturbed, Sqlite, Pinned, cmds, rows, faults
    <2>3. CountInv'
      BY <1>5, RobustIsIdle
      DEF BindingFails, Insertable, IInv, TypeOK, CountInv, Robust, Sqlite, cmds, rows, faults
    <2> QED
      BY <2>1, <2>2, <2>3 DEF IInv
  <1>6. CASE FetchPending
    <2>1. TypeOK'
      BY <1>6, ConstantTypes
      DEF FetchPending, Select, Pending, ConstantTypes, DeploymentType, IInv, TypeOK, Pinned,
          cmds, rows, faults
    <2>2. RowInv' /\ NoLeftoverTransaction'
      BY <1>6, ConstantTypes
      DEF FetchPending, Select, Pending, ConstantTypes, DeploymentType, IInv, TypeOK, RowInv,
          NoLeftoverTransaction, Undisturbed, Sqlite, Pinned, cmds, rows, faults
    <2>3. CountInv'
      <3> SUFFICES ASSUME Robust PROVE CountInv'
        BY <1>6 DEF FetchPending, CountInv, Robust, Sqlite
      <3>1. batch' = Pending
        BY <1>6, RobustIsIdle DEF FetchPending, Select, Pinned
      <3>2. /\ pc # "mark" /\ pc' # "mark" /\ status' = status /\ execs' = execs
            /\ timeouts' = timeouts
        BY <1>6 DEF FetchPending, faults
      <3> QED
        BY <3>1, <3>2 DEF IInv, CountInv, Pending
    <2> QED
      BY <2>1, <2>2, <2>3 DEF IInv
  <1>7. CASE MarkApplied
    BY <1>7, SettleKeeps DEF MarkApplied
  <1>8. CASE MarkAppliedFails
    <2>1. NoLeftoverTransaction' /\ CountInv'
      BY <1>8, LockedKeeps, LockedCounts DEF MarkAppliedFails, IInv, cmds, rows, faults
    <2>2. TypeOK'
      BY <1>8, LockedKeeps, ConstantTypes DEF MarkAppliedFails, ConstantTypes, DeploymentType, IInv,
         TypeOK, cmds, rows, faults
    <2>3. RowInv'
      BY <1>8 DEF MarkAppliedFails, IInv, RowInv, cmds, rows, faults
    <2> QED
      BY <2>1, <2>2, <2>3 DEF IInv
  <1>9. CASE MarkFailed
    BY <1>9, SettleKeeps DEF MarkFailed
  <1>10. CASE MarkFailedFails
    <2>1. NoLeftoverTransaction' /\ CountInv'
      BY <1>10, LockedKeeps, LockedCounts DEF MarkFailedFails, IInv, cmds, rows, faults
    <2>2. TypeOK'
      BY <1>10, LockedKeeps, ConstantTypes DEF MarkFailedFails, ConstantTypes, DeploymentType, IInv,
         TypeOK, cmds, rows, faults
    <2>3. RowInv'
      BY <1>10 DEF MarkFailedFails, IInv, RowInv, cmds, rows, faults
    <2> QED
      BY <2>1, <2>2, <2>3 DEF IInv
  <1>11. CASE cleanup_old_readings
    <2>1. CASE Commits
      <3>1. TypeOK'
        BY <1>11, <2>1, ConstantTypes
        DEF cleanup_old_readings, Commits, Insertable, ConstantTypes, DeploymentType, IInv, TypeOK,
            Pinned, cmds, rows, faults
      <3>2. RowInv' /\ NoLeftoverTransaction'
        BY <1>11, <2>1, ConstantTypes
        DEF cleanup_old_readings, Commits, Insertable, ConstantTypes, DeploymentType, IInv, TypeOK,
            RowInv, NoLeftoverTransaction, Undisturbed, Sqlite, Pinned, cmds, rows, faults
      <3>3. CountInv'
        BY <1>11, <2>1, RobustIsIdle
        DEF cleanup_old_readings, Commits, Insertable, IInv, TypeOK, CountInv, Robust, Sqlite,
            cmds, rows, faults
      <3> QED
        BY <3>1, <3>2, <3>3 DEF IInv
    <2>2. CASE Locked
      <3>1. NoLeftoverTransaction' /\ CountInv'
        BY <1>11, <2>2, LockedKeeps, LockedCounts DEF cleanup_old_readings, IInv, cmds, rows, faults
      <3>2. TypeOK'
        BY <1>11, <2>2, LockedKeeps, ConstantTypes
        DEF cleanup_old_readings, ConstantTypes, DeploymentType, IInv, TypeOK, cmds, rows, faults
      <3>3. RowInv'
        BY <1>11, <2>2 DEF cleanup_old_readings, IInv, RowInv, cmds, rows, faults
      <3> QED
        BY <3>1, <3>2, <3>3 DEF IInv
    <2> QED
      BY <1>11, <2>1, <2>2 DEF cleanup_old_readings
  <1>12. CASE OtherCommit
    <2>1. TypeOK'
      BY <1>12, ConstantTypes
      DEF OtherCommit, Overtaken, ConstantTypes, DeploymentType, IInv, TypeOK, Pinned,
          cmds, rows, faults
    <2>2. RowInv' /\ NoLeftoverTransaction'
      BY <1>12, ConstantTypes
      DEF OtherCommit, Overtaken, ConstantTypes, DeploymentType, IInv, TypeOK, RowInv,
          NoLeftoverTransaction, Undisturbed, Sqlite, Pinned, cmds, rows, faults
    <2>3. CountInv'
      BY <1>12, RobustIsIdle
      DEF OtherCommit, Overtaken, IInv, TypeOK, CountInv, Robust, Sqlite, cmds, rows, faults
    <2> QED
      BY <2>1, <2>2, <2>3 DEF IInv
  <1>13. ASSUME NEW c \in Cmds, Execute(c) PROVE IInv'
    <2>1. /\ c \in batch /\ pc = "loop" /\ pc' = "mark" /\ cur' = c
          /\ execs' = [execs EXCEPT ![c] = IF execs[c] < MaxCount THEN execs[c] + 1
                                                                  ELSE execs[c]]
          /\ UNCHANGED <<deploy, tx, view, row, lastRow, status, batch, glitches, timeouts>>
      BY <1>13 DEF Execute, faults
    <2>2. TypeOK'
      <3>1. execs' \in [Cmds -> 0..MaxCount]
        BY <2>1, ConstantTypes DEF ConstantTypes, IInv, TypeOK
      <3>2. cur' \in 0..MaxCmds /\ cur' # 0
        BY <2>1, ConstantTypes DEF ConstantTypes, Cmds
      <3> QED
        BY <2>1, <3>1, <3>2 DEF IInv, TypeOK
    <2>3. RowInv' /\ NoLeftoverTransaction'
      BY <2>1 DEF IInv, RowInv, NoLeftoverTransaction, Undisturbed, Sqlite
    <2>4. CountInv'
      <3> SUFFICES ASSUME Robust PROVE CountInv'
        BY <2>1 DEF CountInv, Robust, Sqlite
      <3>1. status[c] = "pending" /\ execs[c] <= timeouts
        BY <2>1 DEF IInv, CountInv
      <3>2. timeouts \in Nat /\ \A d \in Cmds : execs[d] \in Nat
        BY ConstantTypes DEF ConstantTypes, DeploymentType, IInv, TypeOK
      <3>3. execs'[c] <= 1 + timeouts /\ \A d \in Cmds \ {c} : execs'[d] = execs[d]
        BY <2>1, <3>1, <3>2 DEF IInv, TypeOK
      <3> QED
        BY <2>1, <3>1, <3>3 DEF IInv, CountInv
    <2> QED
      BY <2>2, <2>3, <2>4 DEF IInv
  <1>14. ASSUME NEW c \in Cmds, insert_command(c) PROVE IInv'
    <2>1. /\ status[c] = "none" /\ status' = [status EXCEPT ![c] = "pending"]
          /\ tx' = tx \/ (tx = "current" /\ tx' = "stale")
          /\ deploy' = deploy /\ view' = view /\ pc' = pc /\ batch' = batch /\ cur' = cur
          /\ row' = row /\ lastRow' = lastRow /\ execs' = execs
          /\ glitches' = glitches /\ timeouts' = timeouts
      BY <1>14 DEF insert_command, Overtaken, rows, faults
    <2>2. TypeOK'
      BY <2>1 DEF IInv, TypeOK, Pinned
    <2>3. RowInv' /\ NoLeftoverTransaction'
      BY <2>1 DEF IInv, RowInv, NoLeftoverTransaction, Sqlite, Undisturbed
    <2>4. CountInv'
      BY <2>1 DEF IInv, TypeOK, CountInv, Robust, Sqlite
    <2> QED
      BY <2>2, <2>3, <2>4 DEF IInv
  <1>15. CASE UNCHANGED vars
    <2>1. TypeOK'
      BY <1>15, ConstantTypes
      DEF vars, ConstantTypes, DeploymentType, IInv, TypeOK, Pinned,
          cmds, rows, faults
    <2>2. RowInv' /\ NoLeftoverTransaction'
      BY <1>15, ConstantTypes
      DEF vars, ConstantTypes, DeploymentType, IInv, TypeOK, RowInv,
          NoLeftoverTransaction, Undisturbed, Sqlite, Pinned, cmds, rows, faults
    <2>3. CountInv'
      BY <1>15, RobustIsIdle
      DEF vars, IInv, TypeOK, CountInv, Robust, Sqlite, cmds, rows, faults
    <2> QED
      BY <2>1, <2>2, <2>3 DEF IInv
  <1> QED
    BY <1>1, <1>2, <1>3, <1>4, <1>5, <1>6, <1>7, <1>8,
       <1>9, <1>10, <1>11, <1>12, <1>13, <1>14, <1>15
       DEF Next, Sampling, Marking, Applying

\* The inductive invariant holds in every reachable state.
THEOREM InductiveInvariant == Spec => []IInv
  BY InitIInv, NextIInv, PTL DEF Spec

\* Every variable of the connection and of its jobs stays within its type.
THEOREM TypeCorrect == Spec => []TypeOK
  BY InductiveInvariant, PTL DEF IInv

\* Only an incomplete reading or a timeout leaves a transaction open, and only
\* on SQLite.
THEOREM TransactionsEnd == Spec => []NoLeftoverTransaction
  BY InductiveInvariant, PTL DEF IInv

\* Where the connection cannot be left in a transaction, a command takes effect
\* once, and once more for each lost update of its status.
THEOREM EffectsAreRecorded == Spec => []EffectsRecorded
  <1>1. IInv => EffectsRecorded
    BY DEF IInv, CountInv, EffectsRecorded
  <1> QED
    BY <1>1, InductiveInvariant, PTL
=============================================================================
