-------------------------- MODULE CollectorProofs --------------------------
(***************************************************************************)
(* Safety of the collector for every set of devices and drivers, every     *)
(* rate limit, and any number of commands, starts, kills and failures.     *)
(*                                                                         *)
(* The inductive invariant follows a row from the snapshot to the hand of  *)
(* the loop and on to its final status, and keeps for each device the time *)
(* of its last command beside the number of those it obeyed.               *)
(***************************************************************************)
EXTENDS Collector, TLAPS

\* Where the row in hand stands, and which rows are still to come.
HandInv ==
  /\ pc \in InHand <=> cur # 0
  /\ \A c \in batch : status[c] = "pending"
  /\ cur \notin batch
  /\ pc \in {"mark", "refuse"} => status[cur] = "pending"
  /\ pc = "event" => status[cur] = "applied"
  /\ pc = "markFailed" /\ cur \notin trouble => status[cur] = "pending"
  /\ cur # 0 => status[cur] \in {"pending", "applied"}

\* A row that does not exist was never met; one that does holds a command.
RowInv ==
  \A c \in Cmds :
    /\ status[c] = "none" => execs[c] = 0 /\ c \notin trouble
    /\ status[c] # "none" => op[c] \in Ops

\* What DamageConfined says of other rows, for the row in hand.
DamageInv ==
  /\ DamageConfined
  /\ cur # 0 /\ cur \notin trouble =>
       execs[cur] = IF pc \in {"mark", "event"} THEN 1 ELSE 0

\* No row is applied, or about to be, that never took effect.
EffectInv ==
  /\ \A c \in Cmds : status[c] = "applied" => execs[c] > 0
  /\ pc \in {"mark", "event"} => execs[cur] > 0

\* The time of the last command is far enough from the start.
RateInv ==
  /\ born <= now
  /\ pc = "down" => \A d \in Devices : moves[d] = 0
  /\ \A d \in Devices : rate_state[d] # Never => rate_state[d] <= now
  /\ \A d \in Devices : moves[d] > 0 =>
       /\ rate_state[d] # Never
       /\ (moves[d] - 1) * RateLimit <= rate_state[d] - born

\* The outputs stay dark while the kill switch is being recorded.
KillInv ==
  (pc \in {"mark", "event"} /\ op[cur] = KillSwitch) => lit \cap OutputsOf(present) = {}

RanBefore(c) == \E e \in Cmds \ {c} : execs[e] > 0 /\ op[e].device = op[c].device

\* What stands behind a time in rate_state, and behind the row in hand.
CauseInv ==
  /\ FailuresHaveCause
  /\ \A d \in Devices : rate_state[d] # Never =>
        \E e \in Cmds : execs[e] > 0 /\ op[e].device = d
  /\ pc = "refuse" /\ cur \notin trouble => op[cur] # KillSwitch /\ RanBefore(cur)
  /\ pc = "markFailed" => cur \in raised \/ cur \in trouble

ParkInv == ParkedSafe /\ (pc # "down" => ~parked)

IInv ==
  /\ TypeOK /\ HandInv /\ RowInv /\ DamageInv
  /\ EffectInv /\ RateInv /\ KillInv /\ CauseInv /\ ParkInv

-----------------------------------------------------------------------------

LEMMA OneMore ==
  ASSUME NEW m \in Nat
  PROVE  (m + 1 - 1) * RateLimit = (m - 1) * RateLimit + RateLimit
  BY ConstantTypes DEF ConstantTypes

LEMMA InitIInv == Init => IInv
  <1> SUFFICES ASSUME Init PROVE IInv
    OBVIOUS
  <1> USE DEF Init
  <1>1. TypeOK
    BY ConstantTypes DEF TypeOK, ConstantTypes
  <1>2. HandInv /\ RowInv /\ DamageInv /\ EffectInv
    BY DEF HandInv, RowInv, DamageInv, EffectInv, DamageConfined, InHand, Cmds
  <1>3. RateInv /\ KillInv /\ ParkInv
    BY DEF RateInv, KillInv, ParkInv, ParkedSafe
  <1>4. CauseInv
    BY DEF CauseInv, FailuresHaveCause
  <1> QED
    BY <1>1, <1>2, <1>3, <1>4 DEF IInv

\* Types.
LEMMA TypeStep ==
  ASSUME IInv, [Next]_vars
  PROVE  TypeOK'
  <1> USE ConstantTypes DEF ConstantTypes, IInv, TypeOK, HandInv, InHand, table, loop, proc, ghost, stop
  <1>1. ASSUME NEW c \in Cmds, NEW o \in Ops, insert_command(c, o) PROVE TypeOK'
    BY <1>1 DEF insert_command
  <1>2. CASE Tick
    BY <1>2 DEF Tick
  <1>3. CASE Start
    <2>1. present' \subseteq Drivers
      BY <1>3 DEF Start
    <2>2. lit' \subseteq Devices
      BY <1>3 DEF Start
    <2>3. parked' \in BOOLEAN /\ shutdown' \in BOOLEAN /\ unplugged' \in BOOLEAN
      BY <1>3 DEF Start
    <2>4. boots' \in Nat /\ born' \in Nat /\ pc' = "wiring" /\ stuck' \subseteq Drivers
      BY <1>3 DEF Start
    <2> QED
      BY <1>3, <2>1, <2>2, <2>3, <2>4 DEF Start
  <1>4. CASE SigtermEarly
    <2>1. CASE "relay" \in present /\ unplugged' = TRUE /\ lit' = lit \ OutputsOf({"relay"})
               /\ UNCHANGED <<table, loop, now, rate_state, shutdown, present, boots, execs, moves,
                              ghost, faults, stop>>
      <3>1. unplugged' \in BOOLEAN
        BY <2>1
      <3> QED
        BY <2>1, <3>1
    <2>2. CASE Die /\ UNCHANGED <<lit, faults, stop>>
      <3>1. shutdown' \in BOOLEAN /\ unplugged' \in BOOLEAN
        BY <2>2 DEF Die
      <3> QED
        BY <2>2, <3>1 DEF Die
    <2> QED
      BY <1>4, <2>1, <2>2 DEF SigtermEarly
  <1>5. CASE InstallHandler
    BY <1>5 DEF InstallHandler
  <1>6. CASE _request_shutdown
    BY <1>6 DEF _request_shutdown
  <1>7. CASE Crash
    BY <1>7 DEF Crash, Die
  <1>8. CASE Stop
    <2>1. PICK S \in SUBSET present :
            /\ faults' = faults + (IF shutdown THEN 0 ELSE 1) + (IF S = {} THEN 0 ELSE 1)
            /\ _close_resources(S)
      BY <1>8 DEF Stop
    <2>2. faults' \in Nat
      BY <2>1
    <2>3. stuck' \subseteq Drivers /\ lit' \subseteq Devices
      BY <2>1 DEF _close_resources
    <2>4. shutdown' \in BOOLEAN /\ unplugged' \in BOOLEAN /\ parked' \in BOOLEAN
      BY <1>8 DEF Stop, Die
    <2> QED
      BY <1>8, <2>2, <2>3, <2>4 DEF Stop, Die
  <1>9. CASE Sample
    BY <1>9 DEF Sample, Running
  <1>10. CASE FetchPending
    BY <1>10 DEF FetchPending, Running, Pending, Faulty
  <1>11. CASE FinishBatch
    BY <1>11 DEF FinishBatch, Running
  <1>12. CASE Refuse
    BY <1>12 DEF Refuse, TakeRow, Running
  <1>13. CASE Switch
    BY <1>13 DEF Switch, TakeRow, Running, Obeyed
  <1>14. CASE Kill
    BY <1>14 DEF Kill, TakeRow, Running, Obeyed
  <1>15. CASE Reject
    BY <1>15 DEF Reject, TakeRow, Running, Faulty
  <1>16. CASE KillRaises
    BY <1>16 DEF KillRaises, TakeRow, Running, Faulty
  <1>17. CASE MarkRefused
    BY <1>17 DEF MarkRefused, Running, Becomes, Drop, Writes
  <1>18. CASE MarkApplied
    BY <1>18 DEF MarkApplied, Running, Becomes, Writes
  <1>19. CASE LogApplied
    BY <1>19 DEF LogApplied, Running, Drop, Writes
  <1>20. CASE BookkeepingFails
    BY <1>20 DEF BookkeepingFails, Running, Faulty, Writes
  <1>21. CASE MarkFailed
    BY <1>21 DEF MarkFailed, Running, Becomes, Drop, Writes
  <1>22. CASE MarkingFails
    BY <1>22 DEF MarkingFails, Running, Faulty, Writes
  <1>23. CASE UNCHANGED vars
    BY <1>23 DEF vars
  <1> QED
    BY <1>1, <1>2, <1>3, <1>4, <1>5, <1>6, <1>7, <1>8, <1>9, <1>10, <1>11, <1>12, <1>13, <1>14, <1>15, <1>16, <1>17, <1>18, <1>19, <1>20, <1>21, <1>22, <1>23 DEF Next, MainLoop

\* The row in hand.
LEMMA HandStep ==
  ASSUME IInv, [Next]_vars
  PROVE  HandInv'
  <1> USE ConstantTypes DEF ConstantTypes, IInv, HandInv, TypeOK, InHand, RowInv, table, loop, proc, ghost, stop
  <1>1. ASSUME NEW c \in Cmds, NEW o \in Ops, insert_command(c, o) PROVE HandInv'
    BY <1>1 DEF insert_command
  <1>2. CASE Tick
    BY <1>2 DEF Tick
  <1>3. CASE Start
    BY <1>3 DEF Start, OutputsOf
  <1>4. CASE SigtermEarly
    BY <1>4 DEF SigtermEarly, Die, OutputsOf
  <1>5. CASE InstallHandler
    BY <1>5 DEF InstallHandler
  <1>6. CASE _request_shutdown
    BY <1>6 DEF _request_shutdown
  <1>7. CASE Crash
    BY <1>7 DEF Crash, Die
  <1>8. CASE Stop
    BY <1>8 DEF Stop, Die, _close_resources, OutputsOf
  <1>9. CASE Sample
    BY <1>9 DEF Sample, Running
  <1>10. CASE FetchPending
    <2>1. cur = 0 /\ cur' = 0 /\ pc' \in {"idle", "loop"} /\ status' = status
      BY <1>10 DEF FetchPending, Running
    <2>2. \A c \in batch' : c \in Cmds /\ status[c] = "pending"
      BY <1>10 DEF FetchPending, Pending
    <2>3. 0 \notin batch'
      BY <2>2 DEF Cmds
    <2> QED
      BY <2>1, <2>2, <2>3
  <1>11. CASE FinishBatch
    BY <1>11 DEF FinishBatch, Running
  <1>12. CASE Refuse
    BY <1>12 DEF Refuse, TakeRow, Running
  <1>13. CASE Switch
    BY <1>13 DEF Switch, TakeRow, Running, Obeyed
  <1>14. CASE Kill
    BY <1>14 DEF Kill, TakeRow, Running, Obeyed
  <1>15. CASE Reject
    BY <1>15 DEF Reject, TakeRow, Running, Faulty
  <1>16. CASE KillRaises
    BY <1>16 DEF KillRaises, TakeRow, Running, Faulty
  <1>17. CASE MarkRefused
    <2>1. cur' = 0 /\ batch' = batch /\ pc' = "loop"
      BY <1>17 DEF MarkRefused, Drop
    <2>2. \A c \in batch : c \in Cmds /\ c # cur /\ c # 0
      BY DEF Cmds
    <2>3. \A c \in batch : status'[c] = status[c]
      BY <1>17, <2>2 DEF MarkRefused, Becomes
    <2> QED
      BY <2>1, <2>2, <2>3
  <1>18. CASE MarkApplied
    BY <1>18 DEF MarkApplied, Running, Becomes, Writes
  <1>19. CASE LogApplied
    <2>1. cur' = 0 /\ batch' = batch /\ pc' = "loop"
      BY <1>19 DEF LogApplied, Drop
    <2>2. \A c \in batch : c \in Cmds /\ c # cur /\ c # 0
      BY DEF Cmds
    <2>3. \A c \in batch : status'[c] = status[c]
      BY <1>19, <2>2 DEF LogApplied, Running
    <2> QED
      BY <2>1, <2>2, <2>3
  <1>20. CASE BookkeepingFails
    BY <1>20 DEF BookkeepingFails, Running, Faulty, Writes
  <1>21. CASE MarkFailed
    <2>1. cur' = 0 /\ batch' = batch /\ pc' = "loop"
      BY <1>21 DEF MarkFailed, Drop
    <2>2. \A c \in batch : c \in Cmds /\ c # cur /\ c # 0
      BY DEF Cmds
    <2>3. \A c \in batch : status'[c] = status[c]
      BY <1>21, <2>2 DEF MarkFailed, Becomes
    <2> QED
      BY <2>1, <2>2, <2>3
  <1>22. CASE MarkingFails
    BY <1>22 DEF MarkingFails, Running, Faulty, Writes
  <1>23. CASE UNCHANGED vars
    BY <1>23 DEF vars
  <1> QED
    BY <1>1, <1>2, <1>3, <1>4, <1>5, <1>6, <1>7, <1>8, <1>9, <1>10, <1>11, <1>12, <1>13, <1>14, <1>15, <1>16, <1>17, <1>18, <1>19, <1>20, <1>21, <1>22, <1>23 DEF Next, MainLoop

\* The rows.
LEMMA RowStep ==
  ASSUME IInv, [Next]_vars
  PROVE  RowInv'
  <1> USE ConstantTypes DEF ConstantTypes, IInv, RowInv, HandInv, TypeOK, InHand, table, loop, proc, ghost, stop
  <1>1. ASSUME NEW c \in Cmds, NEW o \in Ops, insert_command(c, o) PROVE RowInv'
    BY <1>1 DEF insert_command
  <1>2. CASE Tick
    BY <1>2 DEF Tick
  <1>3. CASE Start
    BY <1>3 DEF Start, OutputsOf
  <1>4. CASE SigtermEarly
    BY <1>4 DEF SigtermEarly, Die, OutputsOf
  <1>5. CASE InstallHandler
    BY <1>5 DEF InstallHandler
  <1>6. CASE _request_shutdown
    BY <1>6 DEF _request_shutdown
  <1>7. CASE Crash
    BY <1>7 DEF Crash, Die
  <1>8. CASE Stop
    BY <1>8 DEF Stop, Die, _close_resources, OutputsOf
  <1>9. CASE Sample
    BY <1>9 DEF Sample, Running
  <1>10. CASE FetchPending
    BY <1>10 DEF FetchPending, Running, Pending, Faulty
  <1>11. CASE FinishBatch
    BY <1>11 DEF FinishBatch, Running
  <1>12. CASE Refuse
    BY <1>12 DEF Refuse, TakeRow, Running
  <1>13. CASE Switch
    BY <1>13 DEF Switch, TakeRow, Running, Obeyed
  <1>14. CASE Kill
    BY <1>14 DEF Kill, TakeRow, Running, Obeyed
  <1>15. CASE Reject
    BY <1>15 DEF Reject, TakeRow, Running, Faulty
  <1>16. CASE KillRaises
    BY <1>16 DEF KillRaises, TakeRow, Running, Faulty
  <1>17. CASE MarkRefused
    BY <1>17 DEF MarkRefused, Running, Becomes, Drop, Writes
  <1>18. CASE MarkApplied
    BY <1>18 DEF MarkApplied, Running, Becomes, Writes
  <1>19. CASE LogApplied
    BY <1>19 DEF LogApplied, Running, Drop, Writes
  <1>20. CASE BookkeepingFails
    BY <1>20 DEF BookkeepingFails, Running, Faulty, Writes
  <1>21. CASE MarkFailed
    BY <1>21 DEF MarkFailed, Running, Becomes, Drop, Writes
  <1>22. CASE MarkingFails
    BY <1>22 DEF MarkingFails, Running, Faulty, Writes
  <1>23. CASE UNCHANGED vars
    BY <1>23 DEF vars
  <1> QED
    BY <1>1, <1>2, <1>3, <1>4, <1>5, <1>6, <1>7, <1>8, <1>9, <1>10, <1>11, <1>12, <1>13, <1>14, <1>15, <1>16, <1>17, <1>18, <1>19, <1>20, <1>21, <1>22, <1>23 DEF Next, MainLoop

\* What a row's status tells.
LEMMA DamageStep ==
  ASSUME IInv, [Next]_vars
  PROVE  DamageInv'
  <1> USE ConstantTypes DEF ConstantTypes, IInv, DamageInv, DamageConfined, HandInv, RowInv, TypeOK, InHand, table, loop, proc, ghost, stop
  <1>1. ASSUME NEW c \in Cmds, NEW o \in Ops, insert_command(c, o) PROVE DamageInv'
    BY <1>1 DEF insert_command
  <1>2. CASE Tick
    BY <1>2 DEF Tick
  <1>3. CASE Start
    BY <1>3 DEF Start, OutputsOf
  <1>4. CASE SigtermEarly
    BY <1>4 DEF SigtermEarly, Die, OutputsOf
  <1>5. CASE InstallHandler
    BY <1>5 DEF InstallHandler
  <1>6. CASE _request_shutdown
    BY <1>6 DEF _request_shutdown
  <1>7. CASE Crash
    BY <1>7 DEF Crash, Die
  <1>8. CASE Stop
    BY <1>8 DEF Stop, Die, _close_resources, OutputsOf
  <1>9. CASE Sample
    BY <1>9 DEF Sample, Running
  <1>10. CASE FetchPending
    BY <1>10 DEF FetchPending, Running, Pending, Faulty
  <1>11. CASE FinishBatch
    BY <1>11 DEF FinishBatch, Running
  <1>12. CASE Refuse
    <2>1. /\ cur = 0 /\ cur' \in batch /\ cur' \in Cmds /\ cur' # 0
          /\ trouble' = trouble /\ status' = status /\ status[cur'] = "pending"
      BY <1>12 DEF Refuse, TakeRow, Running, Cmds
    <2>2. cur' \notin trouble => execs[cur'] = 0
      BY <2>1
    <2>3. \A c \in Cmds : execs'[c] = execs[c]
      BY <1>12, <2>1 DEF Refuse
    <2>4. pc' = "refuse"
      BY <1>12 DEF Refuse
    <2>5. \A c \in Cmds \ (trouble \cup {cur'}) : execs'[c] = IF status[c] = "applied" THEN 1 ELSE 0
      BY <2>1, <2>3, 0 \notin Cmds DEF Cmds
    <2> QED
      BY <2>1, <2>2, <2>3, <2>4, <2>5
  <1>13. CASE Switch
    <2>1. /\ cur = 0 /\ cur' \in batch /\ cur' \in Cmds /\ cur' # 0
          /\ trouble' = trouble /\ status' = status /\ status[cur'] = "pending"
      BY <1>13 DEF Switch, TakeRow, Running, Cmds
    <2>2. cur' \notin trouble => execs[cur'] = 0
      BY <2>1
    <2>3. \A c \in Cmds : execs'[c] = IF c = cur' THEN execs[c] + 1 ELSE execs[c]
      BY <1>13, <2>1 DEF Switch, Obeyed
    <2>4. pc' = "mark"
      BY <1>13 DEF Switch, Obeyed
    <2>5. \A c \in Cmds \ (trouble \cup {cur'}) : execs'[c] = IF status[c] = "applied" THEN 1 ELSE 0
      BY <2>1, <2>3, 0 \notin Cmds DEF Cmds
    <2> QED
      BY <2>1, <2>2, <2>3, <2>4, <2>5
  <1>14. CASE Kill
    <2>1. /\ cur = 0 /\ cur' \in batch /\ cur' \in Cmds /\ cur' # 0
          /\ trouble' = trouble /\ status' = status /\ status[cur'] = "pending"
      BY <1>14 DEF Kill, TakeRow, Running, Cmds
    <2>2. cur' \notin trouble => execs[cur'] = 0
      BY <2>1
    <2>3. \A c \in Cmds : execs'[c] = IF c = cur' THEN execs[c] + 1 ELSE execs[c]
      BY <1>14, <2>1 DEF Kill, Obeyed
    <2>4. pc' = "mark"
      BY <1>14 DEF Kill, Obeyed
    <2>5. \A c \in Cmds \ (trouble \cup {cur'}) : execs'[c] = IF status[c] = "applied" THEN 1 ELSE 0
      BY <2>1, <2>3, 0 \notin Cmds DEF Cmds
    <2> QED
      BY <2>1, <2>2, <2>3, <2>4, <2>5
  <1>15. CASE Reject
    <2>1. /\ cur = 0 /\ cur' \in batch /\ cur' \in Cmds /\ cur' # 0
          /\ trouble' = trouble /\ status' = status /\ status[cur'] = "pending"
      BY <1>15 DEF Reject, TakeRow, Running, Cmds
    <2>2. cur' \notin trouble => execs[cur'] = 0
      BY <2>1
    <2>3. \A c \in Cmds : execs'[c] = execs[c]
      BY <1>15, <2>1 DEF Reject
    <2>4. pc' = "markFailed"
      BY <1>15 DEF Reject
    <2>5. \A c \in Cmds \ (trouble \cup {cur'}) : execs'[c] = IF status[c] = "applied" THEN 1 ELSE 0
      BY <2>1, <2>3, 0 \notin Cmds DEF Cmds
    <2> QED
      BY <2>1, <2>2, <2>3, <2>4, <2>5
  <1>16. CASE KillRaises
    <2>1. /\ cur = 0 /\ cur' \in batch /\ cur' \in Cmds /\ cur' # 0
          /\ trouble' = trouble /\ status' = status /\ status[cur'] = "pending"
      BY <1>16 DEF KillRaises, TakeRow, Running, Cmds
    <2>2. cur' \notin trouble => execs[cur'] = 0
      BY <2>1
    <2>3. \A c \in Cmds : execs'[c] = execs[c]
      BY <1>16, <2>1 DEF KillRaises
    <2>4. pc' = "markFailed"
      BY <1>16 DEF KillRaises
    <2>5. \A c \in Cmds \ (trouble \cup {cur'}) : execs'[c] = IF status[c] = "applied" THEN 1 ELSE 0
      BY <2>1, <2>3, 0 \notin Cmds DEF Cmds
    <2> QED
      BY <2>1, <2>2, <2>3, <2>4, <2>5
  <1>17. CASE MarkRefused
    BY <1>17 DEF MarkRefused, Running, Becomes, Drop, Writes
  <1>18. CASE MarkApplied
    BY <1>18 DEF MarkApplied, Running, Becomes, Writes
  <1>19. CASE LogApplied
    BY <1>19 DEF LogApplied, Running, Drop, Writes
  <1>20. CASE BookkeepingFails
    BY <1>20 DEF BookkeepingFails, Running, Faulty, Writes
  <1>21. CASE MarkFailed
    BY <1>21 DEF MarkFailed, Running, Becomes, Drop, Writes
  <1>22. CASE MarkingFails
    BY <1>22 DEF MarkingFails, Running, Faulty, Writes
  <1>23. CASE UNCHANGED vars
    BY <1>23 DEF vars
  <1> QED
    BY <1>1, <1>2, <1>3, <1>4, <1>5, <1>6, <1>7, <1>8, <1>9, <1>10, <1>11, <1>12, <1>13, <1>14, <1>15, <1>16, <1>17, <1>18, <1>19, <1>20, <1>21, <1>22, <1>23 DEF Next, MainLoop

\* Applied means done.
LEMMA EffectStep ==
  ASSUME IInv, [Next]_vars
  PROVE  EffectInv'
  <1> USE ConstantTypes DEF ConstantTypes, IInv, EffectInv, HandInv, RowInv, TypeOK, InHand, table, loop, proc, ghost, stop
  <1>1. ASSUME NEW c \in Cmds, NEW o \in Ops, insert_command(c, o) PROVE EffectInv'
    BY <1>1 DEF insert_command
  <1>2. CASE Tick
    BY <1>2 DEF Tick
  <1>3. CASE Start
    BY <1>3 DEF Start, OutputsOf
  <1>4. CASE SigtermEarly
    BY <1>4 DEF SigtermEarly, Die, OutputsOf
  <1>5. CASE InstallHandler
    BY <1>5 DEF InstallHandler
  <1>6. CASE _request_shutdown
    BY <1>6 DEF _request_shutdown
  <1>7. CASE Crash
    BY <1>7 DEF Crash, Die
  <1>8. CASE Stop
    BY <1>8 DEF Stop, Die, _close_resources, OutputsOf
  <1>9. CASE Sample
    BY <1>9 DEF Sample, Running
  <1>10. CASE FetchPending
    BY <1>10 DEF FetchPending, Running, Pending, Faulty
  <1>11. CASE FinishBatch
    BY <1>11 DEF FinishBatch, Running
  <1>12. CASE Refuse
    BY <1>12 DEF Refuse, TakeRow, Running
  <1>13. CASE Switch
    BY <1>13 DEF Switch, TakeRow, Running, Obeyed
  <1>14. CASE Kill
    BY <1>14 DEF Kill, TakeRow, Running, Obeyed
  <1>15. CASE Reject
    BY <1>15 DEF Reject, TakeRow, Running, Faulty
  <1>16. CASE KillRaises
    BY <1>16 DEF KillRaises, TakeRow, Running, Faulty
  <1>17. CASE MarkRefused
    BY <1>17 DEF MarkRefused, Running, Becomes, Drop, Writes
  <1>18. CASE MarkApplied
    BY <1>18 DEF MarkApplied, Running, Becomes, Writes
  <1>19. CASE LogApplied
    BY <1>19 DEF LogApplied, Running, Drop, Writes
  <1>20. CASE BookkeepingFails
    BY <1>20 DEF BookkeepingFails, Running, Faulty, Writes
  <1>21. CASE MarkFailed
    BY <1>21 DEF MarkFailed, Running, Becomes, Drop, Writes
  <1>22. CASE MarkingFails
    BY <1>22 DEF MarkingFails, Running, Faulty, Writes
  <1>23. CASE UNCHANGED vars
    BY <1>23 DEF vars
  <1> QED
    BY <1>1, <1>2, <1>3, <1>4, <1>5, <1>6, <1>7, <1>8, <1>9, <1>10, <1>11, <1>12, <1>13, <1>14, <1>15, <1>16, <1>17, <1>18, <1>19, <1>20, <1>21, <1>22, <1>23 DEF Next, MainLoop

\* The limiter.
LEMMA RateStep ==
  ASSUME IInv, [Next]_vars
  PROVE  RateInv'
  <1> USE ConstantTypes DEF ConstantTypes, IInv, RateInv, TypeOK, InHand, table, loop, proc, ghost, stop
  <1>1. ASSUME NEW c \in Cmds, NEW o \in Ops, insert_command(c, o) PROVE RateInv'
    BY <1>1 DEF insert_command
  <1>2. CASE Tick
    BY <1>2 DEF Tick
  <1>3. CASE Start
    <2>1. /\ born' = now /\ now' = now /\ rate_state' = rate_state /\ moves' = moves
          /\ pc' = "wiring" /\ \A d \in Devices : moves[d] = 0
      BY <1>3 DEF Start
    <2> QED
      BY <2>1
  <1>4. CASE SigtermEarly
    BY <1>4 DEF SigtermEarly, Die, OutputsOf
  <1>5. CASE InstallHandler
    BY <1>5 DEF InstallHandler
  <1>6. CASE _request_shutdown
    BY <1>6 DEF _request_shutdown
  <1>7. CASE Crash
    BY <1>7 DEF Crash, Die
  <1>8. CASE Stop
    BY <1>8 DEF Stop, Die, _close_resources, OutputsOf
  <1>9. CASE Sample
    BY <1>9 DEF Sample, Running
  <1>10. CASE FetchPending
    BY <1>10 DEF FetchPending, Running, Pending, Faulty
  <1>11. CASE FinishBatch
    BY <1>11 DEF FinishBatch, Running
  <1>12. CASE Refuse
    BY <1>12 DEF Refuse, TakeRow, Running
  <1>13. CASE Switch
    <2>1. PICK d \in Devices :
            /\ op[cur'].device = d
            /\ rate_state' = [rate_state EXCEPT ![d] = now]
            /\ moves' = [moves EXCEPT ![d] = @ + 1]
      BY <1>13 DEF Switch
    <2>2. born' = born /\ now' = now /\ pc' = "mark"
      BY <1>13 DEF Switch, TakeRow, Running, Obeyed
    <2>3. rate_state[d] # Never => now - rate_state[d] >= RateLimit
      BY <1>13, <2>1 DEF Switch, Limited
    <2>4. rate_state'[d] = now /\ moves'[d] = moves[d] + 1 /\ now # Never
      BY <2>1
    <2>5. \A e \in Devices \ {d} : rate_state'[e] = rate_state[e] /\ moves'[e] = moves[e]
      BY <2>1
    <2>6. (moves'[d] - 1) * RateLimit <= now - born
      <3>1. CASE moves[d] = 0
        BY <2>4, <3>1
      <3>2. CASE moves[d] > 0
        <4> DEFINE m == moves[d]  r == rate_state[d]
        <4>1. m \in Nat \ {0} /\ r \in Nat /\ r # Never
          BY <3>2
        <4>2. (m - 1) * RateLimit <= r - born /\ now - r >= RateLimit
          BY <2>3, <3>2
        <4>3. (m + 1 - 1) * RateLimit = (m - 1) * RateLimit + RateLimit
          BY <4>1, OneMore
        <4> QED
          BY <2>4, <4>1, <4>2, <4>3, OneMore
      <3> QED
        BY <3>1, <3>2
    <2>7. \A e \in Devices : rate_state'[e] # Never => rate_state'[e] <= now'
      BY <2>2, <2>4, <2>5
    <2>8. \A e \in Devices : moves'[e] > 0 =>
            rate_state'[e] # Never /\ (moves'[e] - 1) * RateLimit <= rate_state'[e] - born'
      <3> SUFFICES ASSUME NEW e \in Devices, moves'[e] > 0
                   PROVE  /\ rate_state'[e] # Never
                          /\ (moves'[e] - 1) * RateLimit <= rate_state'[e] - born'
        OBVIOUS
      <3>1. CASE e = d
        BY <2>2, <2>4, <2>6, <3>1
      <3>2. CASE e # d
        <4>1. moves'[e] = moves[e] /\ rate_state'[e] = rate_state[e]
          BY <2>5, <3>2
        <4> QED
          BY <2>2, <4>1
      <3> QED
        BY <3>1, <3>2
    <2> QED
      BY <2>2, <2>7, <2>8
  <1>14. CASE Kill
    BY <1>14 DEF Kill, TakeRow, Running, Obeyed
  <1>15. CASE Reject
    BY <1>15 DEF Reject, TakeRow, Running, Faulty
  <1>16. CASE KillRaises
    BY <1>16 DEF KillRaises, TakeRow, Running, Faulty
  <1>17. CASE MarkRefused
    BY <1>17 DEF MarkRefused, Running, Becomes, Drop, Writes
  <1>18. CASE MarkApplied
    BY <1>18 DEF MarkApplied, Running, Becomes, Writes
  <1>19. CASE LogApplied
    BY <1>19 DEF LogApplied, Running, Drop, Writes
  <1>20. CASE BookkeepingFails
    BY <1>20 DEF BookkeepingFails, Running, Faulty, Writes
  <1>21. CASE MarkFailed
    BY <1>21 DEF MarkFailed, Running, Becomes, Drop, Writes
  <1>22. CASE MarkingFails
    BY <1>22 DEF MarkingFails, Running, Faulty, Writes
  <1>23. CASE UNCHANGED vars
    BY <1>23 DEF vars
  <1> QED
    BY <1>1, <1>2, <1>3, <1>4, <1>5, <1>6, <1>7, <1>8, <1>9, <1>10, <1>11, <1>12, <1>13, <1>14, <1>15, <1>16, <1>17, <1>18, <1>19, <1>20, <1>21, <1>22, <1>23 DEF Next, MainLoop

\* The kill switch.
LEMMA KillStep ==
  ASSUME IInv, [Next]_vars
  PROVE  KillInv'
  <1> USE ConstantTypes DEF ConstantTypes, IInv, KillInv, HandInv, RowInv, TypeOK, InHand, OutputsOf, table, loop, proc, ghost, stop
  <1>1. ASSUME NEW c \in Cmds, NEW o \in Ops, insert_command(c, o) PROVE KillInv'
    BY <1>1 DEF insert_command
  <1>2. CASE Tick
    BY <1>2 DEF Tick
  <1>3. CASE Start
    BY <1>3 DEF Start, OutputsOf
  <1>4. CASE SigtermEarly
    BY <1>4 DEF SigtermEarly, Die, OutputsOf
  <1>5. CASE InstallHandler
    BY <1>5 DEF InstallHandler
  <1>6. CASE _request_shutdown
    BY <1>6 DEF _request_shutdown
  <1>7. CASE Crash
    BY <1>7 DEF Crash, Die
  <1>8. CASE Stop
    BY <1>8 DEF Stop, Die, _close_resources, OutputsOf
  <1>9. CASE Sample
    BY <1>9 DEF Sample, Running
  <1>10. CASE FetchPending
    BY <1>10 DEF FetchPending, Running, Pending, Faulty
  <1>11. CASE FinishBatch
    BY <1>11 DEF FinishBatch, Running
  <1>12. CASE Refuse
    BY <1>12 DEF Refuse, TakeRow, Running
  <1>13. CASE Switch
    <2>1. PICK d \in Devices : op[cur'].device = d
      BY <1>13 DEF Switch
    <2>2. op' = op /\ op[cur'] # KillSwitch
      BY <1>13, <2>1 DEF Switch, TakeRow, Running, KillSwitch
    <2> QED
      BY <2>2
  <1>14. CASE Kill
    BY <1>14 DEF Kill, TakeRow, Running, Obeyed
  <1>15. CASE Reject
    BY <1>15 DEF Reject, TakeRow, Running, Faulty
  <1>16. CASE KillRaises
    BY <1>16 DEF KillRaises, TakeRow, Running, Faulty
  <1>17. CASE MarkRefused
    BY <1>17 DEF MarkRefused, Running, Becomes, Drop, Writes
  <1>18. CASE MarkApplied
    BY <1>18 DEF MarkApplied, Running, Becomes, Writes
  <1>19. CASE LogApplied
    BY <1>19 DEF LogApplied, Running, Drop, Writes
  <1>20. CASE BookkeepingFails
    BY <1>20 DEF BookkeepingFails, Running, Faulty, Writes
  <1>21. CASE MarkFailed
    BY <1>21 DEF MarkFailed, Running, Becomes, Drop, Writes
  <1>22. CASE MarkingFails
    BY <1>22 DEF MarkingFails, Running, Faulty, Writes
  <1>23. CASE UNCHANGED vars
    BY <1>23 DEF vars
  <1> QED
    BY <1>1, <1>2, <1>3, <1>4, <1>5, <1>6, <1>7, <1>8, <1>9, <1>10, <1>11, <1>12, <1>13, <1>14, <1>15, <1>16, <1>17, <1>18, <1>19, <1>20, <1>21, <1>22, <1>23 DEF Next, MainLoop

\* Why a row failed.
LEMMA CauseStep ==
  ASSUME IInv, [Next]_vars
  PROVE  CauseInv'
  <1> USE ConstantTypes DEF ConstantTypes, IInv, CauseInv, FailuresHaveCause, RanBefore, HandInv, RowInv, TypeOK, InHand, table, loop, proc, ghost, stop
  <1>1. ASSUME NEW c \in Cmds, NEW o \in Ops, insert_command(c, o) PROVE CauseInv'
    BY <1>1 DEF insert_command
  <1>2. CASE Tick
    BY <1>2 DEF Tick
  <1>3. CASE Start
    BY <1>3 DEF Start, OutputsOf
  <1>4. CASE SigtermEarly
    BY <1>4 DEF SigtermEarly, Die, OutputsOf
  <1>5. CASE InstallHandler
    BY <1>5 DEF InstallHandler
  <1>6. CASE _request_shutdown
    BY <1>6 DEF _request_shutdown
  <1>7. CASE Crash
    BY <1>7 DEF Crash, Die
  <1>8. CASE Stop
    BY <1>8 DEF Stop, Die, _close_resources, OutputsOf
  <1>9. CASE Sample
    BY <1>9 DEF Sample, Running
  <1>10. CASE FetchPending
    BY <1>10 DEF FetchPending, Running, Pending, Faulty
  <1>11. CASE FinishBatch
    BY <1>11 DEF FinishBatch, Running
  <1>12. CASE Refuse
    <2>1. /\ cur = 0 /\ cur' \in Cmds /\ status[cur'] = "pending" /\ pc' = "refuse"
          /\ op' = op /\ status' = status /\ execs' = execs /\ raised' = raised
          /\ trouble' = trouble /\ rate_state' = rate_state
      BY <1>12 DEF Refuse, TakeRow, Running
    <2>2. PICK d \in Devices : op[cur'].device = d /\ rate_state[d] # Never
      BY <1>12 DEF Refuse, Limited
    <2>3. op[cur'] # KillSwitch
      BY <2>2 DEF KillSwitch
    <2>4. PICK e \in Cmds : execs[e] > 0 /\ op[e].device = d
      BY <2>2
    <2>5. cur' \notin trouble => execs[cur'] = 0
      BY <2>1 DEF DamageInv, DamageConfined, Cmds
    <2>6. cur' \notin trouble => e # cur'
      BY <2>4, <2>5
    <2>7. FailuresHaveCause'
      BY <2>1
    <2> QED
      BY <2>1, <2>2, <2>3, <2>4, <2>6, <2>7
  <1>13. CASE Switch
    BY <1>13 DEF Switch, TakeRow, Running, Obeyed
  <1>14. CASE Kill
    BY <1>14 DEF Kill, TakeRow, Running, Obeyed
  <1>15. CASE Reject
    BY <1>15 DEF Reject, TakeRow, Running, Faulty
  <1>16. CASE KillRaises
    BY <1>16 DEF KillRaises, TakeRow, Running, Faulty
  <1>17. CASE MarkRefused
    BY <1>17 DEF MarkRefused, Running, Becomes, Drop, Writes
  <1>18. CASE MarkApplied
    BY <1>18 DEF MarkApplied, Running, Becomes, Writes
  <1>19. CASE LogApplied
    BY <1>19 DEF LogApplied, Running, Drop, Writes
  <1>20. CASE BookkeepingFails
    BY <1>20 DEF BookkeepingFails, Running, Faulty, Writes
  <1>21. CASE MarkFailed
    BY <1>21 DEF MarkFailed, Running, Becomes, Drop, Writes
  <1>22. CASE MarkingFails
    BY <1>22 DEF MarkingFails, Running, Faulty, Writes
  <1>23. CASE UNCHANGED vars
    BY <1>23 DEF vars
  <1> QED
    BY <1>1, <1>2, <1>3, <1>4, <1>5, <1>6, <1>7, <1>8, <1>9, <1>10, <1>11, <1>12, <1>13, <1>14, <1>15, <1>16, <1>17, <1>18, <1>19, <1>20, <1>21, <1>22, <1>23 DEF Next, MainLoop

\* The orderly end.
LEMMA ParkStep ==
  ASSUME IInv, [Next]_vars
  PROVE  ParkInv'
  <1> USE ConstantTypes DEF ConstantTypes, IInv, ParkInv, ParkedSafe, OutputsOf, table, loop, proc, ghost, stop
  <1>1. ASSUME NEW c \in Cmds, NEW o \in Ops, insert_command(c, o) PROVE ParkInv'
    BY <1>1 DEF insert_command
  <1>2. CASE Tick
    BY <1>2 DEF Tick
  <1>3. CASE Start
    BY <1>3 DEF Start, OutputsOf
  <1>4. CASE SigtermEarly
    BY <1>4 DEF SigtermEarly, Die, OutputsOf
  <1>5. CASE InstallHandler
    BY <1>5 DEF InstallHandler
  <1>6. CASE _request_shutdown
    BY <1>6 DEF _request_shutdown
  <1>7. CASE Crash
    BY <1>7 DEF Crash, Die
  <1>8. CASE Stop
    BY <1>8 DEF Stop, Die, _close_resources, OutputsOf
  <1>9. CASE Sample
    BY <1>9 DEF Sample, Running
  <1>10. CASE FetchPending
    BY <1>10 DEF FetchPending, Running, Pending, Faulty
  <1>11. CASE FinishBatch
    BY <1>11 DEF FinishBatch, Running
  <1>12. CASE Refuse
    BY <1>12 DEF Refuse, TakeRow, Running
  <1>13. CASE Switch
    BY <1>13 DEF Switch, TakeRow, Running, Obeyed
  <1>14. CASE Kill
    BY <1>14 DEF Kill, TakeRow, Running, Obeyed
  <1>15. CASE Reject
    BY <1>15 DEF Reject, TakeRow, Running, Faulty
  <1>16. CASE KillRaises
    BY <1>16 DEF KillRaises, TakeRow, Running, Faulty
  <1>17. CASE MarkRefused
    BY <1>17 DEF MarkRefused, Running, Becomes, Drop, Writes
  <1>18. CASE MarkApplied
    BY <1>18 DEF MarkApplied, Running, Becomes, Writes
  <1>19. CASE LogApplied
    BY <1>19 DEF LogApplied, Running, Drop, Writes
  <1>20. CASE BookkeepingFails
    BY <1>20 DEF BookkeepingFails, Running, Faulty, Writes
  <1>21. CASE MarkFailed
    BY <1>21 DEF MarkFailed, Running, Becomes, Drop, Writes
  <1>22. CASE MarkingFails
    BY <1>22 DEF MarkingFails, Running, Faulty, Writes
  <1>23. CASE UNCHANGED vars
    BY <1>23 DEF vars
  <1> QED
    BY <1>1, <1>2, <1>3, <1>4, <1>5, <1>6, <1>7, <1>8, <1>9, <1>10, <1>11, <1>12, <1>13, <1>14, <1>15, <1>16, <1>17, <1>18, <1>19, <1>20, <1>21, <1>22, <1>23 DEF Next, MainLoop

LEMMA NextIInv == IInv /\ [Next]_vars => IInv'
  BY TypeStep, HandStep, RowStep, DamageStep, EffectStep, RateStep, KillStep, CauseStep, ParkStep
     DEF IInv

THEOREM Invariance == Spec => []IInv
  BY InitIInv, NextIInv, PTL DEF Spec

-----------------------------------------------------------------------------
(* The properties that the run checks on two commands and one restart.     *)

\* The collector, its table and its outputs keep their types.
THEOREM TypeCorrect == Spec => []TypeOK
  <1>1. IInv => TypeOK
    BY DEF IInv
  <1> QED
    BY <1>1, Invariance, PTL

\* A failing write, or a kill of the process, costs the row in hand and no other
\* (apply_pending_commands).
THEOREM FailuresAreConfined == Spec => []DamageConfined
  <1>1. IInv => DamageConfined
    BY DEF IInv, DamageInv
  <1> QED
    BY <1>1, Invariance, PTL

\* An output obeys one command, and one more for every COMMAND_RATE_LIMIT_S of a
\* run of the process (apply_pending_commands, _command_rate_key).
THEOREM OutputsAreSpared == Spec => []RateBounded
  <1>1. IInv => RateBounded
    <2> SUFFICES ASSUME IInv, NEW d \in Devices, moves[d] > 0
                 PROVE  (moves[d] - 1) * RateLimit <= now - born
      BY DEF RateBounded
    <2> DEFINE n == (moves[d] - 1) * RateLimit
    <2>1. n <= rate_state[d] - born /\ rate_state[d] <= now
      BY DEF IInv, RateInv
    <2>2. rate_state[d] \in Nat /\ now \in Nat /\ born \in Nat
      BY DEF IInv, TypeOK, RateInv
    <2>3. n \in Int
      BY ConstantTypes DEF IInv, TypeOK, ConstantTypes
    <2> HIDE DEF n
    <2>4. n <= now - born
      BY <2>1, <2>2, <2>3
    <2> QED
      BY <2>4 DEF n
  <1> QED
    BY <1>1, Invariance, PTL

\* A kill_switch row recorded as applied left no output lit among those of the
\* drivers the process has (_execute_command).
THEOREM KillIsHonest == Spec => []KillHonest
  <1>1. IInv => KillHonest
    BY DEF IInv, KillInv, KillHonest
  <1> QED
    BY <1>1, Invariance, PTL

\* No row fails without a cause, and the kill switch is never refused by the
\* limiter (_command_rate_key).
THEOREM RefusalsAreCaused == Spec => []FailuresHaveCause
  <1>1. IInv => FailuresHaveCause
    BY DEF IInv, CauseInv
  <1> QED
    BY <1>1, Invariance, PTL

\* An orderly end leaves every output safe whose driver did not raise
\* (_close_resources).
THEOREM EndIsSafe == Spec => []ParkedSafe
  <1>1. IInv => ParkedSafe
    BY DEF IInv, ParkInv
  <1> QED
    BY <1>1, Invariance, PTL

\* The limiter spares the outputs and refuses nothing without a cause
\* (_command_rate_key, apply_pending_commands).
THEOREM LimiterIsSound == Spec => []LimiterSound
  <1>1. RateBounded /\ FailuresHaveCause => LimiterSound
    BY DEF LimiterSound
  <1> QED
    BY <1>1, OutputsAreSpared, RefusalsAreCaused, PTL

\* Where the collector says that its outputs are safe, they are
\* (_execute_command, _close_resources).
THEOREM OutputsAreSafe == Spec => []OutputsSafe
  <1>1. KillHonest /\ ParkedSafe => OutputsSafe
    BY DEF OutputsSafe
  <1> QED
    BY <1>1, KillIsHonest, EndIsSafe, PTL

-----------------------------------------------------------------------------
(* The collector implements the contract of the commands table.            *)

LEMMA ContractInit == Init => Contract!Init
  BY DEF Init, Contract!Init, Verdict, Cmds

\* The loop leaves a row it could not decide, or dies.
LEMMA LeaveHand ==
  ASSUME IInv, status' = status, execs' = execs, cur' = 0
  PROVE  [Contract!Next]_(Contract!vars)
  <1> USE DEF IInv, TypeOK
  <1>1. CASE cur = 0 \/ status[cur] = "pending"
    <2>1. Verdict' = Verdict
      BY <1>1 DEF Verdict, Cmds
    <2> QED
      BY <2>1 DEF Contract!vars
  <1>2. CASE cur # 0 /\ status[cur] = "applied"
    <2>1. cur \in Cmds /\ execs[cur] > 0 /\ Verdict[cur] = "pending"
      BY <1>2 DEF EffectInv, Verdict
    <2>2. Verdict' = [Verdict EXCEPT ![cur] = "applied"]
      <3>1. \A c \in Cmds : c # 0
        BY DEF Cmds
      <3>2. Verdict' = [c \in Cmds |-> status[c]]
        BY <3>1 DEF Verdict
      <3> QED
        BY <1>2, <2>1, <3>2 DEF Verdict
    <2>3. Contract!Apply(cur)
      BY <2>1, <2>2 DEF Contract!Apply
    <2> QED
      BY <2>1, <2>3 DEF Contract!Next
  <1> QED
    BY <1>1, <1>2 DEF HandInv

\* The loop decides the row in hand.
LEMMA Decide ==
  ASSUME IInv, cur # 0, cur' = 0, execs' = execs, NEW s \in {"applied", "failed"},
         status' = [status EXCEPT ![cur] = s], s = "applied" => execs[cur] > 0
  PROVE  Contract!Next
  <1>1. cur \in Cmds /\ Verdict[cur] = "pending"
    BY DEF IInv, TypeOK, Verdict
  <1>2. Verdict' = [Verdict EXCEPT ![cur] = s]
    <2>1. \A c \in Cmds : c # 0
      BY DEF Cmds
    <2>2. Verdict' = [c \in Cmds |-> IF c = cur THEN s ELSE status[c]]
      BY <2>1 DEF IInv, TypeOK, Verdict
    <2> QED
      BY <1>1, <2>2 DEF Verdict
  <1>3. Contract!Apply(cur) \/ Contract!Fail(cur)
    BY <1>1, <1>2 DEF Contract!Apply, Contract!Fail
  <1> QED
    BY <1>1, <1>3 DEF Contract!Next

\* The loop takes a row: to the reader of the table nothing has happened.
LEMMA TakeKeepsVerdict ==
  ASSUME IInv, TakeRow, status' = status
  PROVE  cur' \in Cmds /\ Verdict' = Verdict /\ Verdict[cur'] = "pending"
  <1>1. cur = 0 /\ cur' \in Cmds /\ status[cur'] = "pending"
    BY DEF IInv, TypeOK, HandInv, InHand, TakeRow, Running
  <1> QED
    BY <1>1 DEF Verdict, Cmds

LEMMA ContractNext == IInv /\ [Next]_vars => [Contract!Next]_(Contract!vars)
  <1> SUFFICES ASSUME IInv, [Next]_vars PROVE [Contract!Next]_(Contract!vars)
    OBVIOUS
  <1>1. ASSUME NEW c \in Cmds, NEW o \in Ops, insert_command(c, o)
        PROVE  Contract!Next
    <2>1. c # cur
      BY <1>1 DEF IInv, HandInv, insert_command, Cmds
    <2>2. Verdict[c] = "none" /\ Verdict' = [Verdict EXCEPT ![c] = "pending"]
      BY <1>1, <2>1 DEF insert_command, loop, IInv, TypeOK, Verdict
    <2>3. Contract!Insert(c)
      BY <1>1, <2>2 DEF insert_command, Contract!Insert
    <2> QED
      BY <2>3 DEF Contract!Next
  <1>2. CASE Switch \/ Kill
    <2>1. TakeRow /\ status' = status /\ execs' = [execs EXCEPT ![cur'] = @ + 1]
      BY <1>2 DEF Switch, Kill, Obeyed
    <2>2. cur' \in Cmds /\ Verdict' = Verdict /\ Verdict[cur'] = "pending"
      BY <2>1, TakeKeepsVerdict
    <2>3. PICK c \in Cmds : c = cur'
      BY <2>2
    <2>4. {e \in Cmds : execs'[e] > 0} = {e \in Cmds : execs[e] > 0} \cup {c}
      BY <2>1, <2>3 DEF IInv, TypeOK
    <2>5. Contract!TakeEffect(c)
      BY <2>2, <2>3, <2>4 DEF Contract!TakeEffect
    <2> QED
      BY <2>5 DEF Contract!Next
  <1>3. CASE Refuse \/ Reject \/ KillRaises
    <2>1. TakeRow /\ status' = status /\ execs' = execs
      BY <1>3 DEF Refuse, Reject, KillRaises
    <2> QED
      BY <2>1, TakeKeepsVerdict DEF Contract!vars
  <1>4. CASE MarkApplied
    <2>1. cur' = cur /\ execs' = execs /\ Becomes("applied")
      BY <1>4 DEF MarkApplied, Writes
    <2>2. Verdict' = Verdict
      BY <2>1 DEF Becomes, Verdict, IInv, TypeOK
    <2> QED
      BY <2>1, <2>2 DEF Contract!vars
  <1>5. CASE LogApplied
    BY <1>5, LeaveHand DEF LogApplied, Drop, Writes
  <1>6. CASE MarkRefused \/ MarkFailed
    <2>1. cur # 0 /\ cur' = 0 /\ execs' = execs /\ status' = [status EXCEPT ![cur] = "failed"]
      BY <1>6 DEF MarkRefused, MarkFailed, Running, Becomes, Drop, Writes, IInv, HandInv, InHand
    <2> QED
      BY <2>1, Decide
  <1>7. CASE MarkingFails \/ Crash \/ Stop
    BY <1>7, LeaveHand DEF MarkingFails, Crash, Stop, Die, Writes, table
  <1>8. CASE SigtermEarly
    <2>1. CASE UNCHANGED <<loop, table, execs>>
      BY <2>1 DEF loop, table, Verdict, Contract!vars
    <2>2. CASE Die
      BY <2>2, LeaveHand DEF Die, table
    <2> QED
      BY <1>8, <2>1, <2>2 DEF SigtermEarly
  <1>9. CASE UNCHANGED <<status, cur, execs>>
    BY <1>9 DEF Verdict, Contract!vars
  <1>10. CASE Tick \/ Start \/ InstallHandler \/ _request_shutdown
    BY <1>9, <1>10 DEF Tick, Start, InstallHandler, _request_shutdown, table, loop
  <1>11. CASE Sample \/ FetchPending \/ FinishBatch \/ BookkeepingFails
    BY <1>9, <1>11 DEF Sample, FetchPending, FinishBatch, BookkeepingFails, Writes
  <1>12. CASE UNCHANGED vars
    BY <1>9, <1>12 DEF vars, table, loop
  <1> QED
    BY <1>1, <1>2, <1>3, <1>4, <1>5, <1>6, <1>7, <1>8, <1>10, <1>11, <1>12 DEF Next, MainLoop

\* Once the loop has left a row its verdict is final, and applied means done
\* (apply_pending_commands, update_command_status).
THEOREM ImplementsContract == Spec => KeepsContract
  BY ContractInit, ContractNext, Invariance, PTL DEF Spec, KeepsContract, Contract!Spec
============================================================================
