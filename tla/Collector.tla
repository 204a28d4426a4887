----------------------------- MODULE Collector -----------------------------
(***************************************************************************)
(* The single-process way to run the stand, scripts/collector.py: one      *)
(* 1 Hz loop that samples, applies the pending rows of the commands table  *)
(* and limits the rate of commands per output.  Around it: the dashboard,  *)
(* which inserts rows, and the supervisor, which sends SIGTERM, kills the  *)
(* process or starts it again.                                             *)
(*                                                                         *)
(* A row is named by its created_at stamp; rows of two handlers may appear *)
(* out of that order.  The drivers (src/actuators) only write a pin or a   *)
(* duty cycle, so a command is executed in no time; time passes between    *)
(* steps, above all while the database is locked.  A write that raises is  *)
(* taken to leave nothing behind; what an unfinished transaction does to a *)
(* connection is the subject of SqliteSession.  Readings, threshold events *)
(* and maintenance write other tables and are left out.                    *)
(***************************************************************************)
EXTENDS Integers, FiniteSets

CONSTANTS
  Devices,      \* relay channels, servo channels and the traffic light
  Owner,        \* device -> the driver that switches it
  BootSets,     \* sets of drivers whose constructor may succeed
  Ops,          \* the commands the dashboard may enqueue
  RateLimit,    \* COMMAND_RATE_LIMIT_S
  Never,        \* no time in rate_state for this key
  None,         \* no command
  MaxCmds, MaxTime, MaxBoots, MaxFaults   \* bounds of the model

Drivers == {"relay", "servo", "leds"}
Cmds    == 1..MaxCmds

\* "lit" is any of on, red, yellow, green and set_angle away from neutral;
\* "dark" is off or neutral; "rejected" is a channel, an action or an angle
\* that _execute_command refuses.
KillSwitch == [device |-> "all", to |-> "dark"]
OpType     == [device : Devices, to : {"lit", "dark", "rejected"}] \cup {KillSwitch}

ASSUME ConstantTypes ==
  /\ "all" \notin Devices /\ Owner \in [Devices -> Drivers]
  /\ BootSets \subseteq SUBSET Drivers
  /\ Ops \subseteq OpType /\ None \notin Ops
  /\ RateLimit \in Nat /\ Never \notin Int
  /\ MaxCmds \in Nat /\ MaxTime \in Nat /\ MaxBoots \in Nat /\ MaxFaults \in Nat

VARIABLES
  status, op,       \* the commands table
  now,              \* time.monotonic()
  pc, batch, cur,   \* the main loop, the rows of this snapshot, the row in hand
  rate_state,       \* device -> time of its last executed command, or Never
  shutdown,         \* _shutdown_requested
  present,          \* drivers in the dict actuators of the last incarnation
  unplugged,        \* the relay's own SIGTERM handler has closed its channels
  lit,              \* devices out of their safe state
  boots, faults,    \* starts of the process; failures of the store or hardware
  execs,            \* ghost: how often a row took effect
  raised,           \* ghost: rows for which _execute_command raised
  trouble,          \* ghost: rows in hand when a write failed or the process died
  moves, born,      \* ghost: commands a device obeyed since the start, its time
  parked, stuck     \* ghost: the process closed its resources; drivers that raised

table == <<status, op>>
loop  == <<pc, batch, cur>>
proc  == <<shutdown, present, unplugged>>
ghost == <<raised, trouble, born>>
stop  == <<parked, stuck>>
vars  == <<table, loop, now, rate_state, proc, lit, boots, faults, execs, moves, ghost, stop>>

InHand == {"mark", "event", "refuse", "markFailed"}

TypeOK ==
  /\ status \in [Cmds -> {"none", "pending", "applied", "failed"}]
  /\ op \in [Cmds -> Ops \cup {None}]
  /\ now \in Nat /\ born \in Nat /\ boots \in Nat /\ faults \in Nat
  /\ pc \in {"down", "wiring", "idle", "sampled", "loop"} \cup InHand
  /\ batch \subseteq Cmds /\ cur \in Cmds \cup {0}
  /\ rate_state \in [Devices -> Nat \cup {Never}]
  /\ shutdown \in BOOLEAN /\ unplugged \in BOOLEAN /\ parked \in BOOLEAN
  /\ present \subseteq Drivers /\ stuck \subseteq Drivers
  /\ lit \subseteq Devices
  /\ execs \in [Cmds -> Nat] /\ moves \in [Devices -> Nat]
  /\ raised \subseteq Cmds /\ trouble \subseteq Cmds

Init ==
  /\ status = [c \in Cmds |-> "none"] /\ op = [c \in Cmds |-> None]
  /\ now = 0 /\ born = 0 /\ boots = 0 /\ faults = 0
  /\ pc = "down" /\ batch = {} /\ cur = 0
  /\ rate_state = [d \in Devices |-> Never]
  /\ shutdown = FALSE /\ present = {} /\ unplugged = FALSE
  /\ lit = {}
  /\ execs = [c \in Cmds |-> 0] /\ moves = [d \in Devices |-> 0]
  /\ raised = {} /\ trouble = {} /\ parked = FALSE /\ stuck = {}

-----------------------------------------------------------------------------
(* The dashboard and the clock.                                            *)

insert_command(c, o) ==
  /\ status[c] = "none"
  /\ status' = [status EXCEPT ![c] = "pending"] /\ op' = [op EXCEPT ![c] = o]
  /\ UNCHANGED <<loop, now, rate_state, proc, lit, boots, faults, execs, moves, ghost, stop>>

Tick ==
  /\ now < MaxTime /\ now' = now + 1
  /\ UNCHANGED <<table, loop, rate_state, proc, lit, boots, faults, execs, moves, ghost, stop>>

-----------------------------------------------------------------------------
(* Start and stop.                                                         *)

OutputsOf(D) == {d \in Devices : Owner[d] \in D}

\* What main and the interpreter held goes with the process.
Die ==
  /\ pc' = "down" /\ batch' = {} /\ cur' = 0
  /\ rate_state' = [d \in Devices |-> Never]
  /\ shutdown' = FALSE /\ unplugged' = FALSE
  /\ moves' = [d \in Devices |-> 0]
  /\ trouble' = trouble \cup ({cur} \ {0})
  /\ UNCHANGED <<table, now, present, boots, execs, raised, born>>

\* Constructors put their outputs in the safe state; one that raises may have
\* reached some of its own.
Start ==
  /\ pc = "down" /\ boots < MaxBoots
  /\ pc' = "wiring" /\ boots' = boots + 1
  /\ present' \in BootSets
  /\ \E D \in SUBSET OutputsOf(Drivers \ present') :
       lit' = lit \ (OutputsOf(present') \cup D)
  /\ born' = now /\ parked' = FALSE /\ stuck' = {}
  /\ UNCHANGED <<table, batch, cur, now, rate_state, shutdown, unplugged, faults, execs, moves,
                 raised, trouble>>

\* SIGTERM before main has installed its handler: that of Relay4Channel runs
\* and the process goes on, or there is none and the process dies.
SigtermEarly ==
  /\ pc = "wiring" /\ boots < MaxBoots
  /\ \/ /\ "relay" \in present
        /\ unplugged' = TRUE /\ lit' = lit \ OutputsOf({"relay"})
        /\ UNCHANGED <<loop, rate_state, shutdown, moves, table, now, present, boots, execs, ghost>>
     \/ "relay" \notin present /\ Die /\ UNCHANGED lit
  /\ UNCHANGED <<faults, stop>>

\* signal.signal(SIGTERM, _request_shutdown) and the start of the loop.
InstallHandler ==
  /\ pc = "wiring" /\ pc' = "idle"
  /\ UNCHANGED <<table, batch, cur, now, rate_state, proc, lit, boots, faults, execs, moves,
                 ghost, stop>>

_request_shutdown ==
  /\ pc \notin {"down", "wiring"} /\ boots < MaxBoots /\ ~shutdown
  /\ shutdown' = TRUE
  /\ UNCHANGED <<table, loop, now, rate_state, present, unplugged, lit, boots, faults, execs,
                 moves, ghost, stop>>

\* SIGKILL: outputs stay as they are.
Crash ==
  /\ pc # "down" /\ boots < MaxBoots
  /\ Die /\ UNCHANGED <<lit, faults, stop>>

\* Mutant: one try around the three drivers, so the first that raises ends it.
CloseInOneTry(S) ==
  /\ stuck' = S
  /\ \E D \in SUBSET OutputsOf(S) :
       lit' = lit \ (D \cup IF S = {} THEN OutputsOf(present) ELSE {})

\* Each driver in a try of its own; those in S raise on the way.
_close_resources(S) ==
  /\ stuck' = S
  /\ \E D \in SUBSET OutputsOf(S) : lit' = lit \ (OutputsOf(present \ S) \cup D)

\* The loop ends on shutdown, or because opening the day's CSV file raised:
\* finally closes everything.
Stop ==
  /\ pc = "idle"
  /\ shutdown \/ boots < MaxBoots
  /\ \E S \in SUBSET present :
       /\ faults' = faults + (IF shutdown THEN 0 ELSE 1) + (IF S = {} THEN 0 ELSE 1)
       /\ faults' <= MaxFaults
       /\ _close_resources(S)
  /\ parked' = TRUE
  /\ Die

-----------------------------------------------------------------------------
(* apply_pending_commands.                                                 *)

Running(p) == pc = p /\ UNCHANGED <<op, now, proc, boots, born, stop>>

Faulty == faults < MaxFaults /\ faults' = faults + 1

\* Mutant: the flag is not looked at.
SampleAlways ==
  /\ Running("idle") /\ pc' = "sampled"
  /\ UNCHANGED <<status, batch, cur, rate_state, lit, faults, execs, moves, raised, trouble>>

\* while not _shutdown_requested: read, check and store; what these raise is
\* caught, except by the CSV file, see Stop.
Sample ==
  /\ Running("idle") /\ ~shutdown /\ pc' = "sampled"
  /\ UNCHANGED <<status, batch, cur, rate_state, lit, faults, execs, moves, raised, trouble>>

\* Mutant: the SELECT without its WHERE clause.
EveryRow == {c \in Cmds : status[c] # "none"}

\* Mutant: only rows newer than the last one handled.
PendingAfterLast ==
  {c \in Cmds : status[c] = "pending" /\ \A d \in Cmds : status[d] \in {"applied", "failed"} => d < c}

\* WHERE status = 'pending'
Pending == {c \in Cmds : status[c] = "pending"}

\* The SELECT may raise; main logs it and the cycle is over.
FetchPending ==
  /\ Running("sampled")
  /\ \/ batch' = Pending /\ faults' = faults
     \/ batch' = {} /\ Faulty
  /\ pc' = IF batch' = {} THEN "idle" ELSE "loop"
  /\ UNCHANGED <<status, cur, rate_state, lit, execs, moves, raised, trouble>>

\* ORDER BY created_at
TakeRow ==
  /\ Running("loop")
  /\ cur' \in batch /\ (\A c \in batch : cur' <= c)
  /\ batch' = batch \ {cur'}

FinishBatch ==
  /\ Running("loop") /\ batch = {} /\ pc' = "idle"
  /\ UNCHANGED <<status, batch, cur, rate_state, lit, faults, execs, moves, raised, trouble>>

\* Mutant: <= in place of <, one tick too few.
LimitedShort(o) ==
  \E d \in Devices :
     o.device = d /\ rate_state[d] # Never /\ now - rate_state[d] + 1 < RateLimit

\* _command_rate_key names the output; the kill switch has no key.
Limited(o) ==
  \E d \in Devices :
     o.device = d /\ rate_state[d] # Never /\ now - rate_state[d] < RateLimit

Refuse ==
  /\ TakeRow /\ Limited(op[cur'])
  /\ pc' = "refuse"
  /\ UNCHANGED <<status, rate_state, lit, faults, execs, moves, raised, trouble>>

\* The driver is in the dict and, for the relay, still holds its channels.
Usable(d) == Owner[d] \in present /\ ~(unplugged /\ Owner[d] = "relay")

Obeyed(c) == execs' = [execs EXCEPT ![c] = @ + 1] /\ pc' = "mark"

Switch ==
  /\ TakeRow /\ ~Limited(op[cur'])
  /\ \E d \in Devices :
       /\ op[cur'].device = d /\ op[cur'].to # "rejected" /\ Usable(d)
       /\ lit' = IF op[cur'].to = "lit" THEN lit \cup {d} ELSE lit \ {d}
       /\ rate_state' = [rate_state EXCEPT ![d] = now]
       /\ moves' = [moves EXCEPT ![d] = @ + 1]
  /\ Obeyed(cur')
  /\ UNCHANGED <<status, faults, raised, trouble>>

Kill ==
  /\ TakeRow /\ op[cur'] = KillSwitch /\ ~Limited(op[cur'])
  /\ lit' = lit \ OutputsOf(present)
  /\ Obeyed(cur')
  /\ UNCHANGED <<status, rate_state, faults, moves, raised, trouble>>

\* The row is malformed, its driver is missing, or the driver call raises.
Reject ==
  /\ TakeRow /\ ~Limited(op[cur'])
  /\ \E d \in Devices :
       /\ op[cur'].device = d
       /\ \/ (op[cur'].to = "rejected" \/ ~Usable(d)) /\ faults' = faults
          \/ Faulty
  /\ raised' = raised \cup {cur'} /\ pc' = "markFailed"
  /\ UNCHANGED <<status, rate_state, lit, execs, moves, trouble>>

\* off_all, off and neutral_all in this order; the one that raises ends it.
KillOrder(x) == CASE x = "relay" -> 1 [] x = "leds" -> 2 [] x = "servo" -> 3

KillRaises ==
  /\ TakeRow /\ op[cur'] = KillSwitch /\ ~Limited(op[cur'])
  /\ Faulty
  /\ \E x \in present : \E D \in SUBSET OutputsOf({x}) :
       lit' = lit \ (D \cup OutputsOf({y \in present : KillOrder(y) < KillOrder(x)}))
  /\ raised' = raised \cup {cur'} /\ pc' = "markFailed"
  /\ UNCHANGED <<status, rate_state, execs, moves, trouble>>

\* update_command_status of the row in hand
Becomes(s) == status' = [status EXCEPT ![cur] = s]

Writes == UNCHANGED <<rate_state, lit, execs, moves, raised>>

Drop == pc' = "loop" /\ cur' = 0 /\ batch' = batch

\* Mutant: a refused row gets a status the schema does not know.
MarkLimited ==
  /\ Running("refuse") /\ Becomes("limited") /\ Drop /\ Writes
  /\ UNCHANGED <<faults, trouble>>

\* Mutant: a refused row is called applied.
MarkAnyway ==
  /\ Running("refuse") /\ Becomes("applied") /\ Drop /\ Writes
  /\ UNCHANGED <<faults, trouble>>

MarkRefused ==
  /\ Running("refuse") /\ Becomes("failed") /\ Drop /\ Writes
  /\ UNCHANGED <<faults, trouble>>

MarkApplied ==
  /\ Running("mark") /\ Becomes("applied") /\ pc' = "event" /\ Writes
  /\ UNCHANGED <<batch, cur, faults, trouble>>

\* insert_event, inside the same try
LogApplied ==
  /\ Running("event") /\ Drop /\ Writes
  /\ UNCHANGED <<status, faults, trouble>>

\* Either write raises: the except branch calls the command failed.
BookkeepingFails ==
  /\ pc \in {"mark", "event"} /\ Running(pc) /\ Faulty
  /\ pc' = "markFailed" /\ trouble' = trouble \cup {cur}
  /\ Writes /\ UNCHANGED <<status, batch, cur>>

MarkFailed ==
  /\ Running("markFailed") /\ Becomes("failed") /\ Drop /\ Writes
  /\ UNCHANGED <<faults, trouble>>

\* This write is in no try: main catches it and the batch is dropped.
MarkingFails ==
  /\ pc \in {"refuse", "markFailed"} /\ Running(pc) /\ Faulty
  /\ pc' = "idle" /\ cur' = 0 /\ batch' = {} /\ trouble' = trouble \cup {cur}
  /\ Writes /\ UNCHANGED status

MainLoop ==
  \/ Sample \/ FetchPending \/ FinishBatch \/ Refuse \/ Switch \/ Kill \/ Reject \/ KillRaises
  \/ MarkRefused \/ MarkApplied \/ LogApplied \/ BookkeepingFails \/ MarkFailed \/ MarkingFails

Next ==
  \/ \E c \in Cmds, o \in Ops : insert_command(c, o)
  \/ Tick
  \/ Start \/ SigtermEarly \/ InstallHandler \/ _request_shutdown \/ Crash \/ Stop
  \/ MainLoop

Spec == Init /\ [][Next]_vars

\* The process runs on, and someone starts it again after it ended.
FairSpec ==
  /\ Spec
  /\ WF_vars(InstallHandler \/ MainLoop) /\ WF_vars(shutdown /\ Stop)
  /\ WF_vars(Start)

-----------------------------------------------------------------------------
(* Properties.                                                             *)

\* A failing write or a killed process costs the row in hand only: of any
\* other row the status tells how often it took effect, once or never.
DamageConfined ==
  \A c \in Cmds \ (trouble \cup {cur}) :
     execs[c] = IF status[c] = "applied" THEN 1 ELSE 0

\* The limiter over a whole run of the process, whatever is enqueued: an
\* output obeys at most one command, and one more per RateLimit elapsed.
RateBounded ==
  \A d \in Devices : moves[d] > 0 => (moves[d] - 1) * RateLimit <= now - born

\* When a kill_switch row is recorded as applied, every output of the drivers
\* the process has is in the safe state.
KillHonest ==
  (pc = "event" /\ op[cur] = KillSwitch) => lit \cap OutputsOf(present) = {}

\* A row fails because its command raised, or, unless it is the kill switch,
\* because another command had run on the same output.
FailuresHaveCause ==
  \A c \in Cmds \ trouble : status[c] = "failed" =>
     \/ c \in raised
     \/ /\ op[c] # KillSwitch
        /\ \E e \in Cmds \ {c} : execs[e] > 0 /\ op[e].device = op[c].device

\* The rate limiter does what it is for and no more: it spares the outputs,
\* and refuses nothing without a cause (311-323, 350-365).
LimiterSound == RateBounded /\ FailuresHaveCause

\* After an orderly end every output is in the safe state but those of a
\* driver that raised, or that the process never had.
ParkedSafe == (pc = "down" /\ parked) => lit \cap OutputsOf(present \ stuck) = {}

\* Whenever the collector says that the outputs are safe, by the row of the
\* kill switch or by an orderly end, they are (411-419, 459-486).
OutputsSafe == KillHonest /\ ParkedSafe

\* Every command is decided, whatever fails on the way and however often the
\* process is killed or stopped, provided it is started again.
CommandsDecided ==
  \A c \in Cmds : (status[c] = "pending") ~> (status[c] \in {"applied", "failed"})

\* SIGTERM ends the process, also in the middle of a batch.
SigtermStops == shutdown ~> (pc = "down")

\* The commands contract, if a verdict is read once the loop has left the row:
\* before, an applied row may still be called failed because its event raised.
Verdict == [c \in Cmds |-> IF c = cur THEN "pending" ELSE status[c]]

Contract == INSTANCE CommandContract WITH
  Commands  <- Cmds,
  state     <- Verdict,
  effective <- {c \in Cmds : execs[c] > 0}

KeepsContract == Contract!Spec
=============================================================================
