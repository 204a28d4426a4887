------------------------------ MODULE HwWorker ------------------------------
(***************************************************************************)
(* The hw-worker process (src/tasks/hardware.py) with the actors around    *)
(* it: dashboard handlers that insert rows of the commands table and send  *)
(* kill_switch_task, the one-thread APScheduler executor that samples the  *)
(* sensors and applies pending commands, and the solo-pool main thread     *)
(* that runs Celery tasks.  The two threads share _lock, the actuators and *)
(* the store.                                                              *)
(*                                                                         *)
(* A command is named by its created_at stamp, so ORDER BY created_at is   *)
(* the order of the names.  Time is counted in half seconds and passes     *)
(* while _lock is held: in a servo stroke, in a sensor sweep, and in a     *)
(* write that waits for another process of the store.                      *)
(***************************************************************************)
EXTENDS Naturals, Sequences, FiniteSets

CONSTANTS
  Handlers,       \* dashboard event listeners; each runs one event at a time
  Ops,            \* the commands the handlers may enqueue, see OpType
  Outputs,        \* relay channels and the traffic light
  Owner,          \* output -> the actuator driver that switches it
  BootSets,       \* sets of drivers whose construction may succeed at boot
  BootMayFail,    \* the store may be unreachable when the worker starts
  MayRaise,       \* the drivers whose calls may raise
  DbMayBlock,     \* a write may wait for another process to end its own
  SampleTicks,    \* length of one sensor sweep, in half seconds
  ServoTicks,     \* transient servo stroke: sleep(1.5)
  KillWait,       \* _lock.acquire(timeout=2.0) of kill_switch_task
  MaxCmds, MaxKills, MaxCrashes, MaxDbFaults,   \* bounds of the model
  None            \* no operation, no handler

Drivers == {"relay", "leds", "servo"}
Jobs    == {"sample", "apply"}
Cmds    == 1..MaxCmds

\* "lit" is any of the actions on, red, yellow and green; "dark" is off.
\* actuator "unknown" stands for a row that is rejected before a pin is written:
\* an unknown actuator, or an unknown action or channel of one.
OpType ==
  {o \in [actuator : {"relay", "leds"}, action : {"lit", "dark"}, output : Outputs] :
      Owner[o.output] = o.actuator}
  \cup [actuator : {"servo"}, action : {"set_angle", "neutral"}, output : {None}]
  \cup [actuator : {"system"}, action : {"kill_switch"}, output : {None}]
  \cup [actuator : {"unknown"}, action : {"rejected"}, output : {None}]

ASSUME ConstantTypes ==
  /\ Ops \subseteq OpType /\ None \notin Ops /\ None \notin Handlers
  /\ Owner \in [Outputs -> Drivers] /\ BootSets \subseteq SUBSET Drivers
  /\ BootMayFail \in BOOLEAN /\ MayRaise \subseteq Drivers /\ DbMayBlock \in BOOLEAN
  /\ MaxCmds \in Nat /\ MaxKills \in Nat
  /\ MaxCrashes \in Nat /\ MaxDbFaults \in Nat

\* A stroke (1.5 s) is shorter than the kill switch waits (2.0 s); that a
\* sensor sweep is shorter too is an assumption about the sensors.
ASSUME Timing ==
  /\ SampleTicks \in Nat \ {0} /\ ServoTicks \in Nat \ {0} /\ KillWait \in Nat
  /\ SampleTicks < KillWait /\ ServoTicks < KillWait

VARIABLES
  status, op, by,  \* commands table: status, payload, inserting handler
  clock,           \* the last created_at stamp handed out
  worker,          \* "up", "down", or on the way: "stopping", "stopped" (no store)
  sched,           \* the APScheduler of this incarnation is running
  present,         \* drivers in _resources["actuators"]
  open,            \* of these, the ones that are not closed
  todo,            \* and the ones cleanup_hardware_resources has yet to come to
  due,             \* jobs submitted to the executor, oldest first
  pc,              \* what the executor thread does
  batch, cur,      \* rows fetched and not yet handled; the row in hand
  left,            \* half seconds left of a stroke or a sweep
  write,           \* "blocked" while the write in hand waits for another process
  lock,            \* _lock: "free", "exec" or "main"
  main, wait,      \* what the main thread does; what is left of its timeout
  killq, kills,    \* kill messages in hardware_priority; kills ever sent
  outputs, servo,  \* energised outputs; "neutral" or "turned"
  execs,           \* ghost: how often a command took effect
  faulty,          \* ghost: drivers a call of which has raised
  dbFaults,        \* ghost: calls of the store that failed
  crashes,         \* ghost: crashes and stops of the worker
  longs            \* ghost: strokes and sweeps the waiting kill has met, up to
                   \* 2; a blocked write, which may last, counts for two

table == <<status, op, by, clock>>
exec  == <<due, pc, batch, cur, left, write>>
tasks == <<main, wait, killq, kills, longs>>
boot  == <<worker, sched, present, open, todo>>
hw    == <<outputs, servo, execs, faulty>>
vars  == <<table, exec, tasks, boot, hw, lock, dbFaults, crashes>>

Settled == {"applied", "failed"}
Holding == {"sampling", "loop", "stroke", "mark", "markFailed"}

TypeOK ==
  /\ status \in [Cmds -> {"none", "stamped", "rejected", "pending"} \cup Settled]
  /\ op \in [Cmds -> Ops \cup {None}] /\ by \in [Cmds -> Handlers \cup {None}]
  /\ clock \in 0..MaxCmds
  /\ worker \in {"up", "stopping", "stopped", "down"} /\ sched \in {"running", "absent"}
  /\ present \subseteq Drivers /\ open \subseteq present /\ todo \subseteq open
  /\ due \in Seq(Jobs)
  /\ pc \in Holding \cup {"idle", "fetched"}
  /\ batch \subseteq Cmds /\ cur \in 0..MaxCmds /\ left \in Nat /\ write \in {"prompt", "blocked"}
  /\ lock \in {"free", "exec", "main"}
  /\ main \in {"idle", "waiting", "killing", "retention"}
  /\ wait \in Nat /\ killq \in Nat /\ kills \in 0..MaxKills
  /\ outputs \subseteq Outputs /\ servo \in {"neutral", "turned"}
  /\ execs \in [Cmds -> Nat] /\ faulty \subseteq Drivers
  /\ dbFaults \in 0..MaxDbFaults /\ crashes \in 0..MaxCrashes
  /\ longs \in 0..2

Init ==
  /\ status = [c \in Cmds |-> "none"]
  /\ op = [c \in Cmds |-> None] /\ by = [c \in Cmds |-> None]
  /\ clock = 0
  /\ worker = "down" /\ sched = "absent" /\ present = {} /\ open = {} /\ todo = {}
  /\ due = <<>> /\ pc = "idle" /\ batch = {} /\ cur = 0 /\ left = 0 /\ write = "prompt"
  /\ lock = "free"
  /\ main = "idle" /\ wait = 0 /\ killq = 0 /\ kills = 0
  /\ outputs = {} /\ servo = "neutral" /\ execs = [c \in Cmds |-> 0] /\ faulty = {}
  /\ dbFaults = 0 /\ crashes = 0 /\ longs = 0

-----------------------------------------------------------------------------
(* Dashboard handlers: insert_command evaluates time.time() and then       *)
(* executes and commits the INSERT, so stamps may become visible out of    *)
(* order between handlers.                                                 *)

StampCommand(h, o) ==
  /\ clock < MaxCmds
  /\ \A c \in Cmds : by[c] = h => status[c] # "stamped"
  /\ clock' = clock + 1
  /\ status' = [status EXCEPT ![clock + 1] = "stamped"]
  /\ op' = [op EXCEPT ![clock + 1] = o]
  /\ by' = [by EXCEPT ![clock + 1] = h]
  /\ UNCHANGED <<exec, tasks, boot, hw, lock, dbFaults, crashes>>

CommitCommand(c) ==
  /\ status[c] = "stamped"
  /\ status' = [status EXCEPT ![c] = "pending"]
  /\ UNCHANGED <<op, by, clock, exec, tasks, boot, hw, lock, dbFaults, crashes>>

\* The INSERT raises; the handler shows the error and no row exists.
InsertFails(c) ==
  /\ status[c] = "stamped" /\ dbFaults < MaxDbFaults
  /\ status' = [status EXCEPT ![c] = "rejected"]
  /\ dbFaults' = dbFaults + 1
  /\ UNCHANGED <<op, by, clock, exec, tasks, boot, hw, lock, crashes>>

SendKill ==
  /\ kills < MaxKills
  /\ kills' = kills + 1 /\ killq' = killq + 1
  /\ UNCHANGED <<table, exec, main, wait, longs, boot, hw, lock, dbFaults, crashes>>

-----------------------------------------------------------------------------
(* The scheduler and the executor thread.                                  *)

\* The executor thread outlives the shutdown of the scheduler (wait=False).
Up(p) == worker # "down" /\ pc = p

\* max_instances=1 and coalesce: a job neither queued nor running is submitted.
Submit(j) ==
  /\ worker = "up" /\ sched = "running"
  /\ \A i \in 1..Len(due) : due[i] # j
  /\ j = "sample" => pc # "sampling"
  /\ j = "apply" => pc \in {"idle", "sampling"}
  /\ due' = Append(due, j)
  /\ UNCHANGED <<table, pc, batch, cur, left, write, tasks, boot, hw, lock, dbFaults, crashes>>

Takes(j) == Up("idle") /\ due # <<>> /\ Head(due) = j /\ due' = Tail(due)

\* What the ghost counter becomes when a long operation begins.
OneMoreLong == longs' = IF main = "waiting" /\ longs < 2 THEN longs + 1 ELSE longs

\* At a stop the sensors are closed first.
StartSample ==
  /\ Takes("sample")
  /\ lock = "free"
  /\ lock' = "exec" /\ pc' = "sampling"
  /\ left' = IF worker = "up" THEN SampleTicks ELSE 0
  /\ OneMoreLong
  /\ UNCHANGED <<table, batch, cur, write, main, wait, killq, kills, boot, hw, dbFaults, crashes>>

\* The lock is taken, or the run is later than misfire_grace_time allows.
SkipSample ==
  /\ Takes("sample")
  /\ UNCHANGED <<table, pc, batch, cur, left, write, tasks, boot, hw, lock, dbFaults, crashes>>

Release == lock' = "free" /\ pc' = "idle"

\* insert_reading, the event of a stroke and update_command_status: SQLite lets
\* a write wait 5 s for the writer of another process, PostgreSQL for ever.
WriteBlocks ==
  /\ DbMayBlock /\ write = "prompt" /\ left = 0
  /\ worker # "down" /\ pc \in {"sampling", "stroke", "mark", "markFailed"}
  /\ write' = "blocked"
  /\ longs' = IF main = "waiting" THEN 2 ELSE longs
  /\ UNCHANGED <<table, due, pc, batch, cur, left, main, wait, killq, kills, boot, hw,
                 lock, dbFaults, crashes>>

\* The write in hand, which may have waited, goes through or raises.
WriteEnds == write' = "prompt"

\* Whether the row was stored or insert_reading raised, the lock is released.
FinishSample ==
  /\ Up("sampling") /\ left = 0 /\ WriteEnds
  /\ Release
  /\ UNCHANGED <<table, due, batch, cur, left, tasks, boot, hw, dbFaults, crashes>>

\* Mutant: the SELECT without its WHERE clause.
EveryRow == {c \in Cmds : status[c] \in {"pending"} \cup Settled}

\* WHERE status = 'pending'
Pending == {c \in Cmds : status[c] = "pending"}

\* The snapshot is taken before the lock is.
FetchPending ==
  /\ Takes("apply") /\ worker # "stopped"
  /\ batch' = Pending
  /\ pc' = IF batch' = {} THEN "idle" ELSE "fetched"
  /\ UNCHANGED <<table, cur, left, write, tasks, boot, hw, lock, dbFaults, crashes>>

FetchFails ==
  /\ Takes("apply")
  /\ dbFaults < MaxDbFaults /\ dbFaults' = dbFaults + 1
  /\ UNCHANGED <<table, pc, batch, cur, left, write, tasks, boot, hw, lock, crashes>>

\* if store is None: return
NoStore ==
  /\ Takes("apply") /\ worker = "stopped"
  /\ UNCHANGED <<table, pc, batch, cur, left, write, tasks, boot, hw, lock, dbFaults, crashes>>

AcquireForBatch ==
  /\ Up("fetched") /\ lock = "free"
  /\ lock' = "exec" /\ pc' = "loop"
  /\ UNCHANGED <<table, due, batch, cur, left, write, tasks, boot, hw, dbFaults, crashes>>

DropBatch ==
  /\ Up("fetched") /\ lock # "free"
  /\ pc' = "idle" /\ batch' = {}
  /\ UNCHANGED <<table, due, cur, left, write, tasks, boot, hw, lock, dbFaults, crashes>>

\* Mutant: the SELECT without ORDER BY created_at.
UnorderedNext(c) == c \in batch

\* for cmd in pending: the earliest created_at of the rows not yet handled
IsNext(c) == c \in batch /\ \A d \in batch : c <= d

\* Mutant: close() turns the outputs off and releases nothing.
StillOpen(d) == d \in present

\* A driver that is closed raises.
Usable(d) == d \in open

\* _execute_command reaches a driver: the other commands raise.  A ServoDriver
\* has nothing to release: it still works when it is closed.
Executable(o) ==
  \/ o.actuator \in {"relay", "leds"} /\ Usable(o.actuator)
  \/ o.actuator \in {"servo", "system"}

\* The drivers of which a call raises in this step.
Raise(drivers) == drivers \subseteq MayRaise /\ faulty' = faulty \cup drivers

\* off_all, off and neutral_all, each best-effort: one that raises may have
\* reached a part of its outputs.
Secure(drivers, raising) ==
  /\ Raise(raising)
  /\ \E stuck \in SUBSET {x \in outputs : Owner[x] \in raising} :
        outputs' = {x \in outputs : Owner[x] \notin drivers \/ x \in stuck}
  /\ servo' \in {servo, "neutral"}
  /\ "servo" \notin drivers => servo' = servo
  /\ "servo" \in drivers \ raising => servo' = "neutral"

SafeState(drivers) == \E raising \in SUBSET drivers : Secure(drivers, raising)

\* _kill_switch_inline
KillSwitch == SafeState(present)

\* What the drivers do for a command; a new ServoDriver starts in neutral.
Switch(o) ==
  \/ o.action = "lit"       /\ outputs' = outputs \cup {o.output} /\ UNCHANGED <<servo, faulty>>
  \/ o.action = "dark"      /\ outputs' = outputs \ {o.output} /\ UNCHANGED <<servo, faulty>>
  \/ o.action = "set_angle" /\ servo' = "turned" /\ UNCHANGED <<outputs, faulty>>
  \/ o.action = "neutral"   /\ servo' = "neutral" /\ UNCHANGED <<outputs, faulty>>
  \/ o.action = "kill_switch" /\ KillSwitch

\* What they may have done when one of their calls raises: the traffic light
\* switches three pins one by one, so it may be left dark on the way to another
\* colour; a transient servo starts and is closed in neutral.
SwitchRaises(o) ==
  /\ Raise({o.actuator})
  /\ \/ outputs' = outputs
     \/ o.action = "lit" /\ outputs' = outputs \cup {o.output}
     \/ (o.action = "dark" \/ o.actuator = "leds") /\ outputs' = outputs \ {o.output}
  /\ \/ servo' = servo
     \/ o.actuator = "servo" /\ servo' = "neutral"
     \/ o.action = "set_angle" /\ servo' = "turned"

\* set_angle through a transient ServoDriver sleeps while it holds the lock.
Stroke(o) == o.action = "set_angle" /\ "servo" \notin present

Execute(c) ==
  /\ Up("loop") /\ IsNext(c) /\ Executable(op[c])
  /\ Switch(op[c])
  /\ execs' = [execs EXCEPT ![c] = @ + 1]
  /\ cur' = c
  /\ IF Stroke(op[c])
       THEN pc' = "stroke" /\ left' = ServoTicks /\ OneMoreLong
       ELSE pc' = "mark" /\ UNCHANGED <<left, longs>>
  /\ UNCHANGED <<table, due, batch, write, main, wait, killq, kills, boot, lock, dbFaults, crashes>>

\* Either no driver is reached, or its call raises with a part of its effect.
ExecuteRaises(c) ==
  /\ Up("loop") /\ IsNext(c)
  /\ \/ ~Executable(op[c]) /\ UNCHANGED hw
     \/ /\ Executable(op[c]) /\ op[c].actuator # "system"
        /\ SwitchRaises(op[c])
        /\ execs' = [execs EXCEPT ![c] = @ + 1]
  /\ cur' = c /\ pc' = "markFailed"
  /\ UNCHANGED <<table, due, batch, left, write, tasks, boot, lock, dbFaults, crashes>>

\* finally: servo.close() puts the servo back to neutral; one that raises is
\* logged, and the command still counts as applied.
FinishStroke ==
  /\ Up("stroke") /\ left = 0 /\ WriteEnds
  /\ SafeState({"servo"}) /\ pc' = "mark"
  /\ UNCHANGED <<table, due, batch, cur, left, tasks, boot, execs, lock, dbFaults, crashes>>

Settle(s) ==
  /\ status' = [status EXCEPT ![cur] = s] /\ WriteEnds
  /\ batch' = batch \ {cur} /\ cur' = 0 /\ pc' = "loop"
  /\ UNCHANGED <<op, by, clock, due, left, tasks, boot, hw, lock, dbFaults, crashes>>

MarkApplied == Up("mark") /\ Settle("applied")
MarkFailed  == Up("markFailed") /\ Settle("failed")

\* A store that was closed under the job opens again (SQLite) or raises
\* (the pool of PostgreSQL).
StoreFails ==
  \/ dbFaults < MaxDbFaults /\ dbFaults' = dbFaults + 1
  \/ worker = "stopped" /\ dbFaults' = dbFaults

\* update_command_status(applied) raises into the handler that marks failed
MarkAppliedFails ==
  /\ Up("mark") /\ StoreFails /\ WriteEnds
  /\ pc' = "markFailed"
  /\ UNCHANGED <<table, due, batch, cur, left, tasks, boot, hw, lock, crashes>>

\* Mutant: no try/finally, so the lock is never released.
MarkFailedKeepsLock ==
  /\ Up("markFailed") /\ WriteEnds
  /\ dbFaults < MaxDbFaults /\ dbFaults' = dbFaults + 1
  /\ pc' = "idle" /\ batch' = {} /\ cur' = 0
  /\ UNCHANGED <<table, due, left, tasks, boot, hw, lock, crashes>>

\* that update raises too: the job ends, the rest of the batch stays pending
MarkFailedFails ==
  /\ Up("markFailed") /\ StoreFails /\ WriteEnds
  /\ Release /\ batch' = {} /\ cur' = 0
  /\ UNCHANGED <<table, due, left, tasks, boot, hw, crashes>>

FinishBatch ==
  /\ Up("loop") /\ batch = {}
  /\ Release
  /\ UNCHANGED <<table, due, batch, cur, left, write, tasks, boot, hw, dbFaults, crashes>>

\* Half a second of a stroke, of a sweep or of a blocked write; a waiting kill
\* grows older.
Tick ==
  /\ worker # "down"
  /\ \/ pc \in {"sampling", "stroke"} /\ left > 0 /\ left' = left - 1
     \/ write = "blocked" /\ main = "waiting" /\ wait > 0 /\ left' = left
  /\ wait' = IF main = "waiting" /\ wait > 0 THEN wait - 1 ELSE wait
  /\ UNCHANGED <<table, due, pc, batch, cur, write, main, killq, kills, longs, boot, hw,
                 lock, dbFaults, crashes>>

-----------------------------------------------------------------------------
(* The main thread: kill_switch_task and retention_cleanup_task.           *)

Thread(m) == worker = "up" /\ main = m

KillReceive ==
  /\ Thread("idle") /\ killq > 0
  /\ killq' = killq - 1 /\ main' = "waiting" /\ wait' = KillWait
  /\ longs' = IF write = "blocked" THEN 2 ELSE IF pc \in {"sampling", "stroke"} THEN 1 ELSE 0
  /\ UNCHANGED <<table, exec, kills, boot, hw, lock, dbFaults, crashes>>

WaitIsOver == wait' = 0 /\ longs' = 0

KillAcquire ==
  /\ Thread("waiting") /\ lock = "free"
  /\ lock' = "main" /\ main' = "killing" /\ WaitIsOver
  /\ UNCHANGED <<table, exec, killq, kills, boot, hw, dbFaults, crashes>>

\* Mutant: acquire(blocking=False) instead of a timeout.
KillImpatient ==
  /\ Thread("waiting") /\ lock # "free"
  /\ main' = "idle" /\ WaitIsOver
  /\ UNCHANGED <<table, exec, killq, kills, boot, hw, lock, dbFaults, crashes>>

\* Mutant: blocking=True without a timeout: the task waits for ever.
KillPatient ==
  /\ Thread("waiting") /\ lock # "free" /\ wait = 0
  /\ UNCHANGED vars

\* returns {"status": "busy"}; the message is acknowledged
KillBusy ==
  /\ Thread("waiting") /\ lock # "free" /\ wait = 0
  /\ main' = "idle" /\ WaitIsOver
  /\ UNCHANGED <<table, exec, killq, kills, boot, hw, lock, dbFaults, crashes>>

KillRun ==
  /\ Thread("killing")
  /\ KillSwitch
  /\ lock' = "free" /\ main' = "idle"
  /\ UNCHANGED <<table, exec, wait, killq, kills, longs, boot, execs, dbFaults, crashes>>

\* retention_cleanup_task takes no lock, but occupies the thread
RetentionStart ==
  /\ Thread("idle") /\ main' = "retention"
  /\ UNCHANGED <<table, exec, wait, killq, kills, longs, boot, hw, lock, dbFaults, crashes>>

RetentionEnd ==
  /\ Thread("retention") /\ main' = "idle"
  /\ UNCHANGED <<table, exec, wait, killq, kills, longs, boot, hw, lock, dbFaults, crashes>>

-----------------------------------------------------------------------------
(* Process death, stop and start.                                          *)

\* acks_late: an unacknowledged kill message goes back to its queue
Crash ==
  /\ worker # "down" /\ crashes < MaxCrashes
  /\ crashes' = crashes + 1
  /\ worker' = "down" /\ sched' = "absent" /\ present' = {} /\ open' = {} /\ todo' = {}
  /\ due' = <<>> /\ pc' = "idle" /\ batch' = {} /\ cur' = 0 /\ left' = 0 /\ write' = "prompt"
  /\ lock' = "free"
  /\ main' = "idle" /\ WaitIsOver
  /\ killq' = IF main \in {"waiting", "killing"} THEN killq + 1 ELSE killq
  /\ UNCHANGED <<table, kills, hw, dbFaults>>

\* SIGTERM, and the task in hand has ended: worker_shutdown stops the scheduler,
\* which waits for no job, then closes what the jobs use, without the lock.
Shutdown ==
  /\ Thread("idle") /\ crashes < MaxCrashes
  /\ crashes' = crashes + 1
  /\ worker' = "stopping" /\ sched' = "absent" /\ todo' = present
  /\ UNCHANGED <<table, exec, tasks, present, open, hw, lock, dbFaults>>

\* the order in which init_hardware_resources put them into the table
Foremost(d) ==
  d \in todo /\ (d = "servo" => "relay" \notin todo) /\ (d = "leds" => todo = {"leds"})

\* A call that raises ends the try of its driver, which stays open.
CloseDriver(d) ==
  /\ worker = "stopping" /\ Foremost(d) /\ todo' = todo \ {d}
  /\ \E raising \in SUBSET {d} : Secure({d}, raising) /\ open' = open \ ({d} \ raising)
  /\ UNCHANGED <<table, exec, tasks, worker, sched, present, execs, lock, dbFaults, crashes>>

\* Mutant: the table is emptied before the drivers are closed.
ClearFirst ==
  /\ worker = "stopping"
  /\ worker' = "stopped" /\ present' = {} /\ open' = {}
  /\ UNCHANGED <<table, exec, tasks, sched, todo, hw, lock, dbFaults, crashes>>

ClearResources ==
  /\ worker = "stopping" /\ todo = {}
  /\ worker' = "stopped" /\ present' = {} /\ open' = {}
  /\ UNCHANGED <<table, exec, tasks, sched, todo, hw, lock, dbFaults, crashes>>

\* The interpreter waits for the executor thread.
Exit ==
  /\ worker = "stopped" /\ pc = "idle" /\ due = <<>>
  /\ worker' = "down"
  /\ UNCHANGED <<table, exec, tasks, sched, present, open, todo, hw, lock, dbFaults, crashes>>

Stopping == (\E d \in Drivers : CloseDriver(d)) \/ ClearResources \/ Exit

\* Relay4Channel, TrafficLight and ServoDriver start from the safe state;
\* the outputs of a driver that fails to start keep their level.
Start ==
  /\ worker = "down" /\ worker' = "up"
  /\ \/ /\ present' \in BootSets /\ open' = present' /\ sched' = "running"
        /\ outputs' = {x \in outputs : Owner[x] \notin present'}
        /\ servo' = IF "servo" \in present' THEN "neutral" ELSE servo
     \/ /\ BootMayFail /\ present' = {} /\ open' = {} /\ sched' = "absent"
        /\ UNCHANGED <<outputs, servo>>
  /\ UNCHANGED <<table, exec, tasks, todo, execs, faulty, lock, dbFaults, crashes>>

-----------------------------------------------------------------------------
Sampler  == StartSample \/ SkipSample \/ FinishSample
Fetcher  == FetchPending \/ FetchFails \/ NoStore \/ AcquireForBatch \/ DropBatch
Applier  == \/ \E c \in Cmds : Execute(c) \/ ExecuteRaises(c)
            \/ FinishStroke \/ MarkApplied \/ MarkAppliedFails
            \/ MarkFailed \/ MarkFailedFails \/ FinishBatch
Executor == Sampler \/ Fetcher \/ Applier \/ Tick
KillTask == KillAcquire \/ KillBusy \/ KillRun

Next ==
  \/ \E h \in Handlers, o \in Ops : StampCommand(h, o)
  \/ \E c \in Cmds : CommitCommand(c) \/ InsertFails(c)
  \/ SendKill
  \/ \E j \in Jobs : Submit(j)
  \/ Executor \/ WriteBlocks
  \/ KillReceive \/ KillTask \/ RetentionStart \/ RetentionEnd
  \/ Crash \/ Shutdown \/ Stopping \/ Start

Spec == Init /\ [][Next]_vars

\* Each interval trigger fires, the executor thread runs what it was given,
\* in which a blocked write ends in time, the main thread finishes what it
\* began, and kombu serves the two queues of the worker in turn.  Nothing
\* restarts a dead worker, and the handlers may never click.
FairSpec ==
  /\ Spec
  /\ \A j \in Jobs : WF_vars(Submit(j))
  /\ WF_vars(Executor)
  /\ WF_vars(KillTask) /\ WF_vars(RetentionEnd) /\ SF_vars(KillReceive)
-----------------------------------------------------------------------------
(* Safety.                                                                 *)

\* The executor thread and kill_switch_task are never on the I2C bus and the
\* GPIO together, whatever crashes, stops and database faults happen (_lock,
\* 243, 284 and 458).  cleanup_hardware_resources takes no lock.
BusExclusive == ~(pc \in Holding /\ main = "killing")

\* Each held section ends in a release: a taken lock has a thread that is
\* inside its critical section and will run its finally clause.
LockHasOwner ==
  /\ lock = "exec" => pc \in Holding
  /\ lock = "main" => main = "killing"

\* A command takes effect twice only if a crash, a stop or a failed status update
\* came between the effect and the record of it; stale snapshots alone
\* (fetch_pending_commands runs before the lock is taken) never cause it.
RepeatNeedsFault == \A c \in Cmds : execs[c] <= 1 + dbFaults + crashes

\* The recorded status is the truth about the actuator: an applied command
\* took effect, and a failed one did not, unless a status update was lost or
\* its driver raised, which it may do after a part of the effect (293-298).
HonestStatus ==
  \A c \in Cmds :
    /\ status[c] = "applied" => execs[c] > 0
    /\ (status[c] = "failed" /\ dbFaults = 0 /\ crashes = 0 /\ op[c].actuator \notin faulty)
         => execs[c] = 0

\* Two clicks on one control take effect in the order of the clicks: when a
\* command is being executed or recorded, no earlier command of the same
\* handler is still to come, even after crashes, dropped batches and aborted
\* ones.  (Commands of different handlers may be reordered: a stamp is taken
\* before its row is committed.)
HandlerOrder ==
  \A c \in Cmds, d \in Cmds :
    (cur = c /\ d < c /\ by[d] = by[c]) => status[d] \in Settled \cup {"rejected"}

\* A servo driven transiently is parked in neutral whenever its driver has
\* let go of the Analog IO, so that the MQ-2 gets it back (335-339, 364-369).
\* The exceptions are a servo call that has raised, close() among them, a crash
\* in mid-stroke, and a stop that closes a ServoDriver before the job in
\* progress uses it once more.
ServoParked ==
  (crashes = 0 /\ "servo" \notin faulty \cup present /\ pc # "stroke") => servo = "neutral"

\* "off_all() + close() so that relays do not remain HIGH on `systemctl stop`"
\* (relay.py 29-30): jobs go on while the drivers are closed under them, and no
\* output of a closed driver is energised again (hardware.py 154-166, 223).
ClosedStayDark == \A x \in outputs : Owner[x] \notin present \ open

\* The shared hardware as the next user finds it: one thread at a time on the
\* bus, a servo that never raised parked whenever nobody is in the middle of a
\* stroke, and no closed driver at work (_lock, lines 243, 284 and 458; the finally of 364-369;
\* the stop of 145-226).
HardwareOrderly == BusExclusive /\ ServoParked /\ ClosedStayDark

\* The kill switch gives up only behind two long operations in a row or a write
\* that another process holds up: one servo stroke or one sensor sweep never
\* costs a kill by itself (timeout=2.0 against sleep(1.5), lines 355 and 458).
BusyBehindLongWork ==
  [][(main = "waiting" /\ main' = "idle" /\ worker' = "up") => longs = 2]_vars

\* "High-priority task - gates all actuators to safe state" (457): when
\* kill_switch_task has returned, every output it controls is off.
KillGatesActuators ==
  [][(main \in {"waiting", "killing"} /\ main' = "idle" /\ worker' = "up")
       => \A x \in outputs' : Owner[x] \notin present]_vars

-----------------------------------------------------------------------------
(* The contract of the commands table, with the handler's stamp and the    *)
(* rejected INSERT hidden.                                                 *)

Contract == INSTANCE CommandContract WITH
  Commands  <- Cmds,
  state     <- [c \in Cmds |-> IF status[c] \in {"stamped", "rejected"}
                                THEN "none" ELSE status[c]],
  effective <- {c \in Cmds : execs[c] > 0}

\* The worker keeps the promise of the commands table through crashes, lost
\* status updates and stale snapshots: settled is final, applied means done.
KeepsContract == Contract!Spec

-----------------------------------------------------------------------------
(* Liveness.                                                               *)

Operational == worker = "up" /\ sched = "running"

\* A committed command is applied or failed in the end, unless the worker
\* dies or came up without a scheduler.  No kill, dropped snapshot or aborted
\* batch makes the queue stall.
CommandsSettle ==
  \A c \in Cmds :
    (status[c] = "pending" /\ Operational)
      ~> (status[c] \in Settled \/ ~Operational)

\* Every kill message is answered, with "ok" or "busy": the main thread never
\* waits for a lock that is not released.
KillsAnswered == (killq > 0) ~> ((killq = 0 /\ main # "waiting") \/ worker # "up")
=============================================================================
