--------------------------- MODULE SqliteSession ---------------------------
(***************************************************************************)
(* The one database connection the hw-worker keeps (src/db.py,             *)
(* src/storage/sqlite_backend.py) while it samples, applies commands and   *)
(* cleans up, and other processes commit to the same file.                 *)
(*                                                                         *)
(* Python's sqlite3 executes BEGIN before an INSERT, UPDATE or DELETE and  *)
(* leaves the transaction open when that statement raises, and src/db.py   *)
(* commits but never rolls back.  In WAL mode the first SELECT of an open  *)
(* transaction pins a snapshot; once another connection has committed, no  *)
(* write of that transaction can succeed any more.  The PostgreSQL adapter *)
(* rolls back with its `with` block and knows no such state.               *)
(*                                                                         *)
(* Drivers, the lock and crashes are the subject of module HwWorker.       *)
(***************************************************************************)
EXTENDS Naturals, FiniteSets

CONSTANTS
  Deployments,  \* see DeploymentType
  MaxCmds,      \* bound on commands
  MaxCount      \* effects of a command are counted up to this

Cmds == 1..MaxCmds

\* complete: every sensor is enabled and started, so that a row has every key;
\* glitches: how many sensor reads may fail; timeouts: how many writes may
\* find the database locked for five seconds.
DeploymentType ==
  [backend : {"sqlite", "postgres"}, complete : BOOLEAN,
   glitches : Nat, timeouts : Nat]

ASSUME ConstantTypes ==
  /\ Deployments \subseteq DeploymentType
  /\ MaxCmds \in Nat /\ MaxCount \in Nat \ {0}

VARIABLES
  deploy,    \* the deployment
  status,    \* commands table, as committed
  tx,        \* "none", "begun" (no snapshot yet), "current" or "stale"
  view,      \* the pending rows of the snapshot
  pc,        \* what the executor thread does
  row,       \* the reading in hand has all keys ("full") or not ("partial")
  lastRow,   \* what became of the last reading: "none", "stored" or "lost"
  batch, cur,         \* rows fetched and not yet handled; the row in hand
  execs,              \* ghost: how often a command took effect
  glitches, timeouts  \* ghost: faults so far

rows   == <<pc, row, lastRow>>
cmds   == <<status, batch, cur, execs>>
faults == <<glitches, timeouts>>
vars   == <<deploy, tx, view, rows, cmds, faults>>

Pinned == {"current", "stale"}

TypeOK ==
  /\ deploy \in Deployments
  /\ status \in [Cmds -> {"none", "pending", "applied", "failed"}]
  /\ tx \in {"none", "begun"} \cup Pinned /\ view \subseteq Cmds
  /\ pc \in {"idle", "event", "insert", "loop", "mark", "markFailed"}
  /\ row \in {"full", "partial"} /\ lastRow \in {"none", "stored", "lost"}
  /\ batch \subseteq Cmds /\ cur \in 0..MaxCmds /\ (cur = 0 => pc \notin {"mark", "markFailed"})
  /\ execs \in [Cmds -> 0..MaxCount]
  /\ glitches \in 0..deploy.glitches /\ timeouts \in 0..deploy.timeouts

Init ==
  /\ deploy \in Deployments
  /\ status = [c \in Cmds |-> "none"]
  /\ tx = "none" /\ view = {}
  /\ pc = "idle" /\ row = "full" /\ lastRow = "none"
  /\ batch = {} /\ cur = 0 /\ execs = [c \in Cmds |-> 0]
  /\ glitches = 0 /\ timeouts = 0

Sqlite == deploy.backend = "sqlite"

-----------------------------------------------------------------------------
(* One statement of the connection.                                        *)

\* execute and commit: a write of a pinned snapshot needs it to be current
Commits == tx # "stale" /\ tx' = "none" /\ view' = {} /\ UNCHANGED timeouts

\* "database is locked": at once behind a newer commit, else after 5 s
Locked ==
  /\ \/ tx = "stale" /\ UNCHANGED timeouts
     \/ timeouts < deploy.timeouts /\ timeouts' = timeouts + 1
  /\ tx' = IF Sqlite /\ tx = "none" THEN "begun" ELSE tx
  /\ UNCHANGED view

Pending == {c \in Cmds : status[c] = "pending"}

\* Mutant: the SELECT without its WHERE clause.
SelectAll ==
  /\ batch' = {c \in Cmds : status[c] # "none"}
  /\ UNCHANGED <<tx, view>>

\* the SELECT of fetch_pending_commands, in whatever transaction is open
Select ==
  /\ batch' = IF tx \in Pinned THEN view ELSE Pending
  /\ IF tx = "begun" THEN tx' = "current" /\ view' = Pending
                     ELSE UNCHANGED <<tx, view>>

-----------------------------------------------------------------------------
(* sample_sensors_inline                                                   *)

ReadSensors ==
  /\ pc = "idle" /\ pc' = "insert"
  /\ row' = IF deploy.complete THEN "full" ELSE "partial"
  /\ UNCHANGED <<deploy, tx, view, lastRow, cmds, faults>>

\* A read raises: its keys stay out of the row, and an event is written.
ReadGlitch ==
  /\ pc = "idle" /\ pc' = "event" /\ row' = "partial"
  /\ glitches < deploy.glitches /\ glitches' = glitches + 1
  /\ UNCHANGED <<deploy, tx, view, lastRow, cmds, timeouts>>

\* _emit_event logs an insert_event that raises
EmitEvent ==
  /\ pc = "event" /\ pc' = "insert"
  /\ Commits \/ Locked
  /\ UNCHANGED <<deploy, row, lastRow, cmds, glitches>>

\* Mutant: the row is indexed on either backend: row[c] for row.get(c).
NeedsAllKeys == row = "full"

\* named placeholders need every key; row.get(c) does not
Insertable == row = "full" \/ ~Sqlite

StoreReading ==
  /\ pc = "insert" /\ Insertable /\ pc' = "idle"
  /\ \/ Commits /\ lastRow' = "stored"
     \/ Locked /\ lastRow' = "lost"
  /\ UNCHANGED <<deploy, row, cmds, glitches>>

\* A named placeholder without its key raises after the implicit BEGIN.
BindingFails ==
  /\ pc = "insert" /\ ~Insertable /\ pc' = "idle"
  /\ lastRow' = "lost"
  /\ tx' = IF tx = "none" /\ Sqlite THEN "begun" ELSE tx
  /\ UNCHANGED <<deploy, view, row, cmds, faults>>

-----------------------------------------------------------------------------
(* apply_pending_commands_inline                                           *)

FetchPending ==
  /\ pc = "idle"
  /\ Select
  /\ pc' = IF batch' = {} THEN "idle" ELSE "loop"
  /\ UNCHANGED <<deploy, row, lastRow, status, cur, execs, faults>>

Execute(c) ==
  /\ pc = "loop" /\ c \in batch /\ \A d \in batch : c <= d
  /\ execs' = [execs EXCEPT ![c] = IF @ < MaxCount THEN @ + 1 ELSE @]
  /\ cur' = c /\ pc' = "mark"
  /\ UNCHANGED <<deploy, tx, view, row, lastRow, status, batch, faults>>

Settle(s) ==
  /\ Commits
  /\ status' = [status EXCEPT ![cur] = s]
  /\ batch' = batch \ {cur} /\ cur' = 0
  /\ pc' = IF batch' = {} THEN "idle" ELSE "loop"
  /\ UNCHANGED <<deploy, row, lastRow, execs, glitches>>

MarkApplied == pc = "mark" /\ Settle("applied")

\* Mutant: the except branch has lost the id of the command.
ForgetsCommand ==
  /\ pc = "mark" /\ Locked /\ pc' = "markFailed" /\ cur' = 0
  /\ UNCHANGED <<deploy, row, lastRow, status, batch, execs, glitches>>

\* the failed update raises into the handler, which marks the row failed
MarkAppliedFails ==
  /\ pc = "mark" /\ Locked /\ pc' = "markFailed"
  /\ UNCHANGED <<deploy, row, lastRow, cmds, glitches>>

MarkFailed == pc = "markFailed" /\ Settle("failed")

\* and if that raises too, the job ends and the row stays pending
MarkFailedFails ==
  /\ pc = "markFailed" /\ Locked /\ pc' = "idle"
  /\ batch' = {} /\ cur' = 0
  /\ UNCHANGED <<deploy, row, lastRow, status, execs, glitches>>

-----------------------------------------------------------------------------
(* The main thread, on the same connection, and the other processes.       *)

cleanup_old_readings ==
  /\ Commits \/ Locked
  /\ UNCHANGED <<deploy, rows, cmds, glitches>>

Overtaken == tx' = IF tx = "current" THEN "stale" ELSE tx

insert_command(c) ==
  /\ status[c] = "none"
  /\ status' = [status EXCEPT ![c] = "pending"]
  /\ Overtaken
  /\ UNCHANGED <<deploy, view, rows, batch, cur, execs, faults>>

\* a prediction, a proof, an event of another process
OtherCommit ==
  /\ Overtaken
  /\ UNCHANGED <<deploy, view, rows, cmds, faults>>

-----------------------------------------------------------------------------
Sampling == EmitEvent \/ StoreReading \/ BindingFails
Marking  == MarkApplied \/ MarkAppliedFails \/ MarkFailed \/ MarkFailedFails
Applying == (\E c \in Cmds : Execute(c)) \/ Marking

Next ==
  \/ ReadSensors \/ ReadGlitch \/ Sampling
  \/ FetchPending \/ Applying
  \/ cleanup_old_readings \/ OtherCommit
  \/ \E c \in Cmds : insert_command(c)

Spec == Init /\ [][Next]_vars

\* Both jobs of the scheduler keep firing and the executor thread finishes the
\* job it has; the hourly cleanup and the other processes may never run.
FairSpec ==
  /\ Spec
  /\ WF_vars(Sampling) /\ WF_vars(Applying)
  /\ SF_vars(ReadSensors) /\ SF_vars(FetchPending)

-----------------------------------------------------------------------------
(* Safety.                                                                 *)

Undisturbed == deploy.complete /\ glitches = 0 /\ timeouts = 0

\* Between two statements the worker holds no transaction on PostgreSQL, and
\* none on SQLite until a reading lacked a key or a write timed out: every
\* other path through src/db.py commits (164-179, 203-210, 293-302, 601-602).
NoLeftoverTransaction == tx # "none" => Sqlite /\ ~Undisturbed

\* deployments whose connection can always be written to
Robust == ~Sqlite \/ (deploy.complete /\ deploy.glitches = 0 /\ deploy.timeouts = 0)

\* A command takes effect again only after an update of its status was lost,
\* however the fetches interleave with commits of other processes and with
\* the cleanup on the same connection.
EffectsRecorded == Robust => \A c \in Cmds : execs[c] <= 1 + timeouts

-----------------------------------------------------------------------------
(* Liveness.                                                               *)

\* After a lost reading the next ones are stored again.
ReadingsResume == (Robust /\ lastRow = "lost") ~> lastRow = "stored"

\* "Read all enabled sensors once and write a row to storage" (hardware.py
\* 242): one failed sensor read does not end the recording of telemetry.
SurvivesGlitch == lastRow = "lost" ~> lastRow = "stored"
=============================================================================
