# digital-twin-example in TLA+

This directory models the control logic of the digital twin: a Raspberry Pi stand whose hardware, AI
and publishing work runs in three Celery workers, with a Taipy dashboard in front, SQLite or
PostgreSQL behind, and models that are trained beside it. Paths below are relative to the
repository.

## 1. The system

| Component | State | Operations | Interacts through |
|---|---|---|---|
| hw-worker (`src/tasks/hardware.py`, pool solo) | `_resources` (sensors, actuators, store), `_scheduler`, `_lock`; the outputs themselves | `sample_sensors_inline`, `apply_pending_commands_inline` (APScheduler, one executor thread), `kill_switch_task`, `retention_cleanup_task` (main thread), init and cleanup | tables `readings`, `commands`, `events`; queues `hardware`, `hardware_priority`; I2C, GPIO |
| ext-worker (`src/tasks/external.py`, two threads) | none between tasks | `publish_digest_task`; `publish_pinata_task` and `publish_hedera_task` (nobody sends them) | tables `readings`, `proofs`; Pinata, Hedera, mirror node; queue `external` |
| ai-worker (`src/tasks/ai.py`, prefork, one child) | `_state` (predictor, store, model id), `MODEL_ID` in `.env` and in the environment | `predict_task`, `set_model_task`, init per child | tables `readings`, `predictions`; queue `ai`; `models/` |
| Celery application and Beat (`src/tasks/celery_app.py`) | schedule, unacknowledged messages | routing, `acks_late`, retries, worker init and shutdown signals | Redis |
| dashboard (`app/`) | session state, cache of the latest reading, a refresh thread for charts | control, kill switch, Publish now, model and threshold changes, range selection, live tick | table `commands`, Celery messages, `configs/runtime.yml` |
| storage (`src/db.py`, `src/storage/`) | seven tables; one connection (SQLite) or a pool (PostgreSQL) | `TelemetryStore` | every process |
| migration (`scripts/migrate_sqlite_to_postgres.py`) | a cursor, and what was committed batch by batch | copies tables, run by hand | both stores |
| collector (`scripts/collector.py`), a second, single-process way to run the stand | `command_rate_state`, `_shutdown_requested`, thresholds, the outputs | sample, thresholds, commands, safe state at the end | the same tables; `configs/runtime.yml`; SIGTERM |
| training (`training/`) | data frames; an artifact of two files in `models/` | seven trainers, `validate_model_artifact.py` | CSV files, `models/` |
| serving (`src/ai/`) | the loaded artifact | registry, loader, features, predictor, readiness | `models/`, table `readings` |
| drivers, RS-485, OLED | registers, GPIO | reads and switches | hw-worker, scripts |

What is hard here: two threads of the hw-worker on one bus with a lock that one of them waits
for only two seconds; rows read before the lock is taken and executed after it; an orderly stop
that closes drivers under a running job; effects on hardware that cannot be rolled back when the
record of them fails; a connection whose transaction nobody closes on an error; a publisher whose
external calls cannot be made idempotent, running in two threads with retries and redelivery;
windows of time computed from a clock that moves on while the task runs; model reloads that
swallow their errors; files that are truncated and rewritten while others read them; a
migration that can stop in the middle and be run again; labels shifted by rows where minutes are
meant. The `hazards` of `PROJECT.json` list them line by line.

What makes each component correct:

* hw-worker: the bus has one user; a command takes effect once, in the order of the clicks, and
  its row tells the truth; the kill switch is answered; a stop leaves the outputs off.
* storage session: a failed statement does not disturb the next one.
* ext-worker: a closed window gets one proof, no two in a row are skipped, the proof leads to the
  published evidence, and publication is repeated only when tasks overlap or an answer is lost.
* ai-worker: a failed model switch leaves the old model in service, and the persisted id is the
  one that is served.
* collector: a failure costs the command in hand only, the limiter spares the outputs and never
  refuses the kill switch, and an orderly end leaves the outputs safe.
* dashboard: no click is lost or reordered; a saved threshold holds for every reader; the charts
  show the range the page names.
* migration: nothing is lost, and no command is executed on both stores.
* training and serving: the rows that are scored come after those that were looked at, a label lies
  at its horizon, a forecast is for the time on its label, and a model called ready serves.

## 2. Modules

| Module | Models |
|---|---|
| `HwWorker` | the hw-worker with dashboard handlers, the kill switch, stop and start |
| `CommandContract` | abstract: what the commands table promises |
| `SqliteSession` | the hw-worker's database connection on both backends |
| `DigestPublisher` | `publish_digest_task`, Beat, Publish now, Pinata, the Hedera topic |
| `ProofLedger` | abstract: what the proofs table promises |
| `AiWorker` | `predict_task`, `set_model_task`, loading, the replaced child, `.env` |
| `Collector` | the single-process loop: start and stop, command batch, rate limits |
| `Selection` | taking rows of a table: in the order of a key (`sort_values`, ORDER BY), or those a condition keeps (`dropna`, WHERE); used by the two tables of training and of the store |
| `TrainingPipeline` | the seven trainers from the CSV to the validated artifact |
| `ModelServing` (extends `TrainingPipeline`) | registry, loader, features, forecasts and readiness over artifacts that are being replaced |
| `Settings` | `runtime.yml` between dashboard and collector; the three judges of a reading |
| `StoreMigration` | the two stores, the migration between them, ranges and downsampling |
| `Charts` (extends `StoreMigration`) | range selection, its callbacks and the refresh thread |
| `HwWorkerProofs`, `SqliteSessionProofs`, `DigestProofs`, `AiWorkerProofs`, `CollectorProofs` | theorems about the module of that name (`DigestProofs`: `DigestPublisher`) |
| `SelectionProofs` | what taking rows gives, for every table; lemmas for the two modules below |
| `TrainingProofs` | theorems about `TrainingPipeline` and `ModelServing` |
| `DeskProofs` | theorems about `Settings`, `Charts` and `StoreMigration`, and their union in `MCDesk` |
| `MCHwWorker`, `MCSqliteSession`, `MCDigestPublisher`, `MCAiWorker`, `MCCollector`, `MCModelServing`, `MCDesk` | constants of the runs; `MCDesk` puts `Settings`, `StoreMigration` and `Charts`, which share no variable, behind one switch |

No module uses a RECURSIVE operator, so that each can be proved about.

### HwWorker

Three kinds of process. *Dashboard handlers* stamp a command with `time.time()`
(`StampCommand`) and commit the INSERT in a later step (`CommitCommand`, or `InsertFails`), so
that rows of two handlers may become visible out of order; a command is named by its stamp.
The *executor thread* takes jobs from `due` in order; `pc` says where it stands:
`sample_sensors_inline` takes the lock or skips the tick, `apply_pending_commands_inline`
fetches (`FetchPending`), then tries the lock (`AcquireForBatch` or `DropBatch`), then for each
row of its snapshot executes, and records in a separate step, each of which may fail. A
transient servo stroke sleeps 1.5 s in the loop and holds the lock. The *main thread* receives
kill messages, waits up to `KillWait` for the lock, and is kept busy by the retention task.

Drivers may raise (`MayRaise`), and then after a part of their effect: the traffic light switches
three pins one by one, a servo may have turned, and `close()` of a transient servo, whose exception
is swallowed, may leave it turned (`SwitchRaises`, `Secure`, `FinishStroke`). The ghost `faulty`
holds the drivers that have raised; `ServoParked` and `HonestStatus` exempt them.

Time passes, in half seconds, while the lock is held (`Tick`): in a stroke, in a sweep, and in a
write that waits for another process of the store, for the 5 s of SQLite's busy timeout or, on
PostgreSQL, without limit (`DbMayBlock`, `WriteBlocks`, `write`); every other step takes none.
A crash loses both threads and the lock, keeps the table and the outputs, and gives an
unacknowledged kill message back (`acks_late`); `Start` brings up some set of drivers (`BootSets`),
or leaves the worker without a scheduler, as `celery_app.py` does when initialisation raises. An
orderly stop (`Shutdown`) runs on the idle main thread: `stop_apscheduler(wait=False)` lets a
running job go on, `CloseDriver` closes one driver after the other without the lock,
`ClearResources` empties the table, and `Exit` waits for the executor. So the cleanup shares the bus
with a job in progress; `BusExclusive` speaks of `kill_switch_task` only. A closed relay or LED
driver raises when it is used, whereas `ServoDriver` has nothing to release: a `set_angle` between
its close and the clearing of `_resources` leaves the servo turned. The store is reopened by the
next use on SQLite and raises on PostgreSQL, where an executed command then stays pending and is
executed again after the restart. A relay command that comes after the clearing is marked failed.
Operators are named for the functions they translate; `KillSwitch` is `_kill_switch_inline` with
every driver call best-effort.

`CommandContract` hides everything but a row's status and whether its command has taken effect.
The property `KeepsContract` maps `stamped` and `rejected` rows to `none`, and the set of
effective commands to those with `execs > 0`.

### SqliteSession

`tx` is the state of the connection as Python's `sqlite3` and WAL mode have it: `begun` after an
implicit BEGIN whose statement raised, `current` once a SELECT has pinned a snapshot inside that
transaction, `stale` after another connection has committed. `Commits`, `Locked` and `Select`
are the three things a statement can do; the jobs of the worker are sequences of them. A
deployment is a backend, whether all sensors are up, and how many sensor reads and writes may
fail. `HwWorker` counts failing writes (`MaxDbFaults`) without asking why they fail; this module
shows when they go on failing for ever. SQLite and Python are external code, modelled from how
`src/db.py` uses them; the sequence of the finding was also reproduced with `src/db.py` alone.

### DigestPublisher

One task per message, with the program points `fetch`, `pin`, `submit` and `decide`; at most
`Threads` tasks run. `Start` computes the window and looks the proof up; `Fetch` reads the rows
that the query still returns (`CoverFrom`); a failed pin or submit may have acted all the same;
`Retry`, `GiveUp`, `Record`, `RecordRace` and `RecordFails` are the ways out of the decision.
The next attempt of a retried or redelivered message computes a new window. A document stands
for its CID, and a message on the topic for its hash. Time is counted in minutes and may pass
between any two steps, in the calls of the providers too. `Slack` bounds three delays: by how much
Beat is late for an entry of its schedule, a message waits for a thread, and a fetch comes after
the start of its attempt. The schedule is an interval, re-armed from the send that was late
(`Beat`), so the delays add up over the runs. The ghost `troubled` collects the windows at which an
attempt met a store that raised, no provider that answered, or a crash.

`ProofLedger` hides tasks and time: documents and messages accumulate, and a window gets one
proof, once, backed by what is already published.

### AiWorker

The parent process has an environment (`environ`), read from `.env` when the stack starts; its
one child has the `_state` of `ai.py` (`predictor`, `name` for `model_id`, `store`) and is
replaced after `MaxTasks` tasks by a fork with the parent's environment. `Load` is
`Predictor.reload` with `load_model`: errors leave a predictor without a model (`NoOp`), which
`_reload_predictor` reports as a success. `ModelId` is `load_project_env`, which sets only what
the environment lacks, followed by `load_env_config`. A task is one message of the queue,
acknowledged after its last step; a kill in between returns it, and a kill while `.env` is
rewritten in place may leave it truncated. Whether `worker_process_init` initialises a fork
depends on what Celery tells it, so both are allowed. Artifacts are sound, lack an id in their
`meta.json`, or cannot be loaded; half a copy becomes a whole one.

### Collector

One loop, whose `pc` runs through start, sampling, the batch and the bookkeeping of the row in
hand (`cur`). Executing a command and setting `rate_state` is one step (`Switch`, `Kill`,
`Reject`, `KillRaises`), because the drivers only write a pin or a duty cycle and a kill in
between is a kill before or after; each database write after it is a step that may fail. A
failing mark or event sends the row to the `except` branch (`BookkeepingFails`), a failing write
of that branch drops the batch (`MarkingFails`). `Start` constructs some set of drivers;
until `InstallHandler` a SIGTERM runs the relay driver's own handler (`SigtermEarly`), which
closes its channels and lets the process go on. `Stop` is the `finally` block with
`_close_resources`, reached by SIGTERM or by a CSV file that cannot be opened; `Crash` is
SIGKILL. Time is in seconds and may pass between any two steps.

`KeepsContract` maps the row in hand to `pending`. Read directly, the table breaks the contract:
an applied row becomes `failed` when its event cannot be written. The model of the hw-worker
needs no such mapping. Failing writes are taken to leave nothing behind, as in `HwWorker`;
`SqliteSession` shows when that is too kind.

### TrainingPipeline

One job of one trainer at a time, under one `model_id`, which may be trained again. The data is
abstracted to where it comes from: a cell of the table is the set of the times of the readings it
was computed from, and the empty set is NaN. That is what tells a leak or a misplaced label apart
from a sound one, and needs no arithmetic. Rows are sorted and dropped with `SortedBy` and `Rows`
of `Selection`. `load_dataset` to `dropna` are the common steps; each
`prepare_*` chains those its script calls, each `fit_*` records which rows scaler, search, fit and
score look at. The LSTM's epochs are steps with any validation loss, NaN included; `lstm_stop`
may come at any epoch, because of the time budget. The payload and the `meta.json` are written in
two steps, and `Killed` may leave the file in hand torn. A CSV file has a schema: it was exported
from the readings table or written by the collector, and a model keeps which columns it was fitted
on. A Prophet payload keeps the time at which its history ends (`HistoryEnds`).

### ModelServing

`list_available_models` reads the `meta.json`, `load_model` later the payload; a training may
replace either in between, so a predictor may hold halves of two trainings. A forecast is a sequence
of points, each with the horizon on its label, the time of the last reading, the time the number was
computed for, and what it was computed from (values, zeros put for NaN, or NaN). That time is
counted as each backend counts it: from the last reading in minutes, from the end of its history in
minutes (Prophet), from the last reading in rows (N-BEATS). `feature_columns` are the columns a
model asks for and `Missing` those that the readings table does not have; with one of them missing,
a tree model answers with no point. Windows of readings are classes: the time of the last one, too
few rows or enough, and which columns have all, some or no values. Artifacts without `horizons_min`,
which no trainer of the repository writes any more, are left out.

### Settings

`on_save_thresholds` takes three steps, one for each access to the file: read, truncate, write.
Callbacks of different sessions may overlap (an assumption about Taipy; one session's clicks come
one at a time). `file` has a text (`whole`, `empty`, `mangled`), thresholds, and whether the
sections `fan_auto` and `ai` are still there. The GUI reads the file when it is imported
(`startup`), the collector every `Reload` cycles, at one cycle per tick. `_check_thresholds`,
`build_recommendations` and the `_*_severity` functions are operators on a reading.

### StoreMigration

`lite` and `pg` are the two stores; a table is its rows in the order of their ids. The stack
works on the one that `DB_BACKEND` names, which the operator may change, between stop and start,
after a migration that ended well. A migration copies a table in batches from the cursor it opened
(`left`, a snapshot), commits each, may fail anywhere and be started again, beside a stack that
runs or not, and, since the script does not look at `DB_BACKEND`, also after the switch; proofs go
last, in one transaction, without duplicates. A proof stands for its idempotency key alone: what
the migration makes of its consensus time (the text as a float, to the microsecond, or NULL if it is
none) is not followed. `fetch_readings_range` is the
SQL of both backends, which differ in the rounding of the group number.

### Charts

One session. A click is a callback that assigns the variables of the range one group at a time,
reads them for the redraw (`QueryStore`, which may fail), and sets the figures. The thread of
`_slow_refresh_loop` does the same to every session at any moment. `figures` stands for the range
the figures were drawn for; the ghost `stale` says that the selection changed and nothing has been
drawn from it yet, and the ghost `late` that the figures are those of a redraw by the thread that
had read the selection before it changed. The pickers are bound to `chart_date_from` and
`chart_date_to`, so an edit takes effect before Apply is pressed.

## 3. Runs

| Run | Checks | Shows |
|---|---|---|
| `hw_safety` | `TypeOK`, `HardwareOrderly`, `RepeatNeedsFault`, `HandlerOrder`, `BusyBehindLongWork`, `KeepsContract` | bus, outputs and the commands table stay correct through a crash or a stop, a lost status update, blocked writes and raising drivers |
| `hw_live` | `CommandsSettle`, `KillsAnswered` | nothing stalls the queue and no kill message waits for ever, not even one that a crash gives back |
| `hw_kill_busy` | `KillGatesActuators` (violated) | two long operations in a row make the kill switch give up, and nobody tries again |
| `digest_safety` | `BoundedDuplicates`, `KeepsLedger` | proofs are backed and final; how often a window is published |
| `digest_windows` | `TypeOK`, `NoTwoWindowsMissed` | late runs may skip a window, but never two in a row without a failing store, worker or set of providers |
| `digest_coverage` | `DigestCoversWindow` (violated) | the digest misses the start of its window |
| `sqlite_session` | `TypeOK`, `EffectsRecorded`, `ReadingsResume` | what disturbs the connection, and that nothing does on PostgreSQL or with complete rows and no timeouts |
| `sqlite_glitch` | `SurvivesGlitch` (violated) | one failed sensor read can end the recording of telemetry |
| `ai_worker` | `TypeOK`, `RowsNamed`, `ChoiceSurvivesRestart`, `PredictionsResume` | rows name their model, the chosen model survives a restart, every outage of predictions ends with the child |
| `collector` | `TypeOK`, `DamageConfined`, `LimiterSound`, `OutputsSafe`, `CommandsDecided`, `SigtermStops`, `KeepsContract` | what a failure costs, what the limiter refuses, how the outputs are left, and that every command and every SIGTERM is served |
| `models` | `TypeOK`, `TestHeldOut`, `LabelsReachHorizon`, `BestEpochKept`, `ForecastSound`, `ReadyServes` | where the numbers of an artifact come from, for what time a forecast is computed, also from halves of two artifacts, and which models that are called ready serve |
| `desk` | `TypeOK`, `AppliesInTime`, `SectionsKept`, `VerdictsAgree`, `NothingLost`, `NoReplay`, `RangeFaithful`, `LabelNamesRange` | whose settings hold, what a migration loses or repeats, and what a chart shows |

Some properties bundle what a reader would ask together: `HardwareOrderly` is `BusExclusive`,
`ServoParked` and `ClosedStayDark`; `LimiterSound` is `RateBounded` and `FailuresHaveCause`;
`OutputsSafe` is `KillHonest` and `ParkedSafe`.

**What the exceptions in the properties tell.** Where the code does less than its reader expects,
the property says exactly how much less.

* `RepeatNeedsFault`: a command is executed twice only after a crash, a stop or a failed status
  update.
* `ServoParked` (in `HardwareOrderly`): a servo of which a call has raised, `close()` among them,
  may stay turned, with the lock released and the command recorded as applied (`hardware.py`
  364-369); so may one after a crash in mid-stroke.
* `BusyBehindLongWork`: besides two long operations, one write that another process holds up for
  longer than two seconds makes the kill switch give up (`hardware.py` 260, 265, 295, 298).
* `BoundedDuplicates`: tasks that overlap, lost answers and unwritten proofs publish a window again,
  although the docstring of `publish_digest_task` calls a repeat a no-op.
* `NoTwoWindowsMissed`: a single window can be skipped although nothing fails. The schedule is
  re-armed from a late send, so that with a period of 3 two runs at 5 and 9 straddle a window; with
  delays of half a period or more, or longer than the query looks back beyond a period, nothing is
  promised.
* `SectionsKept`: two overlapping saves, or a kill between truncating and writing, cost the sections
  `fan_auto` and `ai`, or leave text that cannot be read, with which the GUI does not start.
* `NoReplay`: a pending command copied beside a running stack is executed again after the switch.
  `NothingLost`: a repeated migration copies rows again.
* `RangeFaithful`: a range that is thinned out may have one row more than `max_points`, whereas the
  docstring of `get_readings_range_df` says "the result has <= max_points rows" (`data_access.py`
  68-69).
* `LabelNamesRange`: in custom mode an edit of the pickers is obeyed by the next redraw before Apply
  is pressed, whatever order the dates are in. And a redraw of the refresh thread that had read the
  former selection may finish after the callback (`web.py` 844-857): the old range then stands under
  the new label until the next redraw or click, although the page says "auto-refresh every 30 s
  keeps the selection" (`charts.md` 30) and `_build_charts_from_state` that it "no longer resets the
  user's selected range" (`web.py` 250-252).
* `TestHeldOut` speaks of the rows that are looked at and of what their inputs know, not of their
  labels. There is no embargo at the splits, so the last rows of the fit, and of the LSTM's
  `scaler_y`, are labelled with readings of validation and test rows, although `train_lstm.py` 159
  says "Fit scalers on TRAIN ONLY - no data leakage from val/test" (`_common.py` 111-112 promises
  less: no leakage through tuning). An input knows a later reading where `bfill` filled the
  beginning of a column, the median a target, or a minute of N-BEATS averages its rows. In a file in
  which a time comes twice a scored row may be as early as one that was looked at, though never the
  same row.
* `LabelsReachHorizon`: gaps put a label later than its horizon, since shifts count rows, and a file
  in which a time comes twice (`Once`) puts it nearer; only N-BEATS does not mind.
* `ForecastSound`: Prophet counts from the end of its training history and N-BEATS, a model of
  minutes, is fed one-second rows, so that their numbers are for an earlier time than the label says
  (`predictor.py` 182-193, 312-321). N-BEATS alone computes with NaN.
* `ReadyServes`: readiness cannot see a torn payload. It does not look at columns either: a tree
  model trained on the collector's CSV, which has `voltage_v` and `mq2_voltage_v` where the readings
  table has `bus_voltage` and `mq2_voltage`, is ready, passes the validator, and yields no point.

**Bounds.** Two commands are enough for order, stale snapshots and a batch that is abandoned in the
middle; two handlers, for stamps that commit out of order. One kill message, one crash or stop
(`MaxCrashes` bounds both together) and one lost write occur at every point of both threads;
`hw_live` has five kinds of command, the kill switch among them, from one handler (switching on is
in `hw_safety`), a lost write, a crash or a stop and a worker that may come up without a scheduler;
blocked writes and raising drivers, the relay and the servo, are in `hw_safety`. `SampleTicks = 1`,
`ServoTicks = 3` and `KillWait = 4` are 0.5, 1.5 and 2 seconds. Handlers are symmetric (no liveness
in that run). In `sqlite_session` two commands and five deployments suffice because the connection
has four states; `MaxCount` is above the number of effects the property allows. In `digest_safety`
three messages are one more than the threads, windows of two minutes make the fetch, the window and
the retry fall on different sides of a boundary, and any two faults of the three kinds combine;
`digest_windows` has windows of three minutes, so that a delay of one minute is less than half a
period and yet lets two runs straddle a window, all phases of Beat, four runs in 13 minutes on one
thread, one silent window, each set of providers and any two faults. In `ai_worker` two models, two
switches and a child of two tasks let a switch be the first or the last task of a child, with one
kill or restart and one failure of the store or of `.env`; every `.env` the stack can start with is
an initial state. In `collector` two commands on one output, or one and the kill switch, meet the
limiter; `MaxTime = 2` is the limit itself, so the second command falls before or on its end; one of
the two drivers may be missing, and one restart and one failure occur at every step.

In `models` ten readings at two a minute carry horizons of one to three minutes; the seven files are
whole, out of order with a missing first value, with a gap, with a dropped row, with enough missing
targets for the median, with a time that comes twice, and too short; the one with a gap is the
collector's. Thresholds of rows (`Keep`, `Subsample`, `SeqLen`, `MinMinutes`) are scaled so that
each falls on both sides. Two trainings under one id, three epochs with patience two and losses of
two values or NaN contain every tie, every late improvement and every stop; five classes of windows
of readings, of two times, meet each imputation. In `desk` two sessions save twice with three sets
of thresholds, one of which has its limits in the wrong order, with one kill and a collector that
reads every second cycle; readings lie on, beside and between the limits. The migration has batches
of two, so that three readings make a full and a partial one, two runs, one command and one proof,
in four time steps. The charts have two quick ranges and three dates, with an emptied picker, so
that a range is inverted, too short, too long and sound. Longer batches, more sessions and repeated
failures are left to the proofs.

**Deadlock** is checked except in the digest, `models` and `desk` runs, whose clock, jobs and time
are bounded.

**Fairness.** Weak fairness of the executor thread: a thread that can go on does. Weak fairness of
each interval trigger in `HwWorker` (`Submit`) and of the kill task once it has been taken; strong
fairness of `KillReceive`, because kombu serves the two queues of the worker in turn. Strong
fairness of the two jobs in `SqliteSession`, where they alternate on one thread instead of being
queued. In `AiWorker`, Beat goes on sending and the child works while it has messages. The loop of
the collector runs on, and it is started again after it ended (the script calls itself
"systemd-ready"; without a restart the pending commands stay). Nothing else is assumed about
restarts (no supervisor is in the repository), about the operator, about the hourly cleanup or
about other processes. The other modules state safety only.

## 4. Proofs

Each proof module states an inductive invariant (`IInv`, or the name given below), proves that
`Init` implies it and that every step of `Next` preserves it, action by action, and derives its
theorems. The assumptions are those the modules name: `ConstantTypes`, `EnvTypes`, `TrainConstants`,
`ServeConstants`, `StoreConstants`, `SettingsConstants` and `ChartConstants` (the kinds of the
constants), `Timing` in `HwWorker` (a sweep and a stroke are shorter than the kill switch's wait, as
0.5 s and 1.5 s are against 2 s) and `NoneIsNew` in `DigestPublisher` (the value for "nothing" is
none of the things). Each invariant was checked by TLC before it was proved. A theorem with an
asterisk states a property that no run checks by its own name, because a run checks a stronger or a
bundled one, or because the proof says it for every value anyway.

**`HwWorkerProofs`**, for every number of commands, handlers, kills, stops and faults. None of the
properties is inductive. That a command takes effect once needs to know that every row of a
batch is still pending and that the row in hand is its earliest (`BatchInv`), which holds because
only the holder of the lock changes a pending row, which needs the owner of the lock (`LockInv`).
`HandlerOrder` needs that stamps grow and that a snapshot leaves no earlier row of its handler
behind (`StampInv`, `OrderInv`); `HonestStatus` needs the order of effect and record
(`RecordInv`); `BusyBehindLongWork` needs a bound on what is left of the timeout against what is
left of the operation in front, as long as no write is blocked (`KillInv`).

| Theorem | States |
|---|---|
| `TypeCorrect` | `TypeOK` |
| `LockSafety` * | `BusExclusive`, `LockHasOwner` |
| `EffectsAreCounted` | `RepeatNeedsFault` |
| `StatusIsHonest` * | `HonestStatus` |
| `ClicksInOrder` | `HandlerOrder` |
| `HardwareIsOrderly` | `HardwareOrderly` |
| `ServoIsParked` *, `StopIsDark` * | `ServoParked` and `ClosedStayDark`, the latter for a stop at any moment of a batch, both for drivers that raise anywhere |
| `BusyNeedsTwoOperations` | `BusyBehindLongWork`, an action property |
| `ImplementsContract` | `KeepsContract`: `HwWorker` implements `CommandContract` |

**`SqliteSessionProofs`**, for every set of deployments and every number of commands and faults.
`NoLeftoverTransaction` rests on where a partial row comes from (`RowInv`); the count of effects
(`CountInv`) on the rows in hand being pending, which holds only where no transaction can stay
open (`Robust`): elsewhere the finding shows the opposite.

| Theorem | States |
|---|---|
| `TypeCorrect` | `TypeOK` |
| `TransactionsEnd` * | `NoLeftoverTransaction` |
| `EffectsAreRecorded` | `EffectsRecorded` |

**`DigestProofs`**, for every period, number of threads, messages, retries and faults. What is
published is sound because whatever a task holds is (`ClosedInv`), and it stays so because the
clock only moves forward; a proof is backed because its task's CID and sequence number were
(`TaskInv`) and the outside world forgets nothing (`EvidenceStays`). `FloorWindow` is the
arithmetic of `floor_window`. How often a window is paid for needs an account (`PaidInv`): before
the window has its proof, every message of it is in the hands of a running task or was lost to a
fault; afterwards no task starts on it, and the messages plus the tasks that may still submit one
stay below the number of threads and faults. That no two windows in a row are missed needs
(`PaceInv`) that the delays are bounded and a task that fetches was sent before its window was two
periods old, so that the query still returns rows of it (`OnTime`), that a digest neither provider
took left its window in trouble (`Excused`), and that the last run of Beat has reached its window or
waits for a thread, in which case the run before has (`Followed`). The faults are part of it: an
attempt that fails for another reason is retried or has marked its window.

| Theorem | States |
|---|---|
| `TypeCorrect` | `TypeOK` |
| `OnlyClosedWindows` * | `WindowClosed` |
| `ProofsAreBacked` * | `ProofMatchesChain` |
| `DuplicatesAreBounded` | `BoundedDuplicates` |
| `NoTwoInARow` | `NoTwoWindowsMissed`, for every lateness below half a period |
| `ImplementsLedger` | `KeepsLedger`: `DigestPublisher` implements `ProofLedger` |

**`AiWorkerProofs`**, for every set of models and artifacts, every `.env` and every number of
switches and failures. `RowsNamed` needs that predictor and name in `_state` agree (`NameInv`);
`ChoiceSurvivesRestart` that the chosen id is in `.env` and, since a restart, in the environment
(`SavedInv`), from where a fork takes it (`ServedInv`).

| Theorem | States |
|---|---|
| `TypeCorrect` | `TypeOK` |
| `PredictionsAreNamed` | `RowsNamed` |
| `ChoiceIsKept` | `ChoiceSurvivesRestart` |

**`CollectorProofs`**, for every set of devices, every rate limit and any number of commands,
starts, kills and failures. `RateBounded` compares a count with a clock; it is inductive once the
time of the last command bounds the count (`RateInv`), by one multiplication per command
(`OneMore`). `DamageConfined` needs what is true of the row in hand (`HandInv`, `DamageInv`), and
`FailuresHaveCause` that every time in `rate_state` stems from an executed row (`CauseInv`).

| Theorem | States |
|---|---|
| `TypeCorrect` | `TypeOK` |
| `FailuresAreConfined` | `DamageConfined` |
| `OutputsAreSpared` *, `RefusalsAreCaused` * | `RateBounded`, `FailuresHaveCause` |
| `LimiterIsSound` | `LimiterSound` |
| `KillIsHonest` *, `EndIsSafe` * | `KillHonest`, `ParkedSafe` |
| `OutputsAreSafe` | `OutputsSafe` |
| `ImplementsContract` | `KeepsContract`: `Collector` implements `CommandContract` |

**`SelectionProofs`**, for every table and every key. `Arranged` and `Listed` choose the row with n
rows before it; that there is exactly one for each n is counting. From it follow that a sorted table
is a permutation in the order of its key, that `Rows` keeps the rows it is told, in their order, that
slices and appended rows have the occurrences one expects, and so on. The library's induction theorems
cannot be instantiated here; where one would argue by induction over rows, these lemmas and those of
the next two modules take a least counterexample, which exists because `<` is well-founded on Nat.

**`DeskProofs`**. *Settings*, for every number of sessions, saves, kills and restarts, every reload
interval, all thresholds and all readings (`SettingsInv`). `AppliesInTime` needs that a readable
file which differs from the collector's thresholds changed after they were read, and that the
next read has not been missed (`DueInv`); `SectionsKept` that a session whose save was not
disturbed writes alone and holds the other sections it read (`SectionsInv`). `VerdictsAgree` is a
fact of arithmetic about the three judges.

*Charts*, for all dates, quick ranges and limits (`ChartsInv`). Label and mode were chosen by the
same callback (`LabelInv`); a query that nothing has overtaken was made for the present variables,
and so were the figures unless they are stale or late (`DrawInv`); in the middle of a quick-range
click the session is not in custom mode (`ModeInv`).

*StoreMigration*, for any batch size, retention, number of rows and of runs (`StoreInv`). What left
SQLite since a run began does not come back (`BaseInv`), so the properties need to speak only of
rows held throughout. A run holds a row at most once, in its cursor or in what it has committed, and
the run that goes on or ended well has every such row in one of the two (`CopyInv`): between them
they give the lower and the upper bound of `NothingLost`. Before the switch, a command was executed
when its SQLite row says so, and the copies say so too unless the stack ran beside the copying
(`SqliteInv`); after the switch, the executions of a command plus its pending copies stay within the
number of runs, and one if the stack ran beside one (`PgInv`), and ids stay without gaps, so that a
new command is not taken for an old one. `RangeFaithful` is proved of the SQL alone: a group keeps
one row, which lies within a group's length of the others, and there are at most as many groups as
points allowed, and one.

| Theorem | States |
|---|---|
| `ChangesApply` | `AppliesInTime` |
| `SectionsAreKept` | `SectionsKept` |
| `JudgesAgree` | `VerdictsAgree` |
| `ChartsKeepSelection` | `LabelNamesRange` |
| `NothingIsLost` | `NothingLost` |
| `NothingIsReplayed` | `NoReplay` |
| `RangesAreFaithful` | `RangeFaithful` |
| `DeskTypes` | `TypeOK`, of the three together |

**`TrainingProofs`**, for every CSV, set of horizons, share of the partitions, patience and course
of the losses. A table is followed through the preparation by what each step keeps: `Tidy` (in the
order of time, each target taken from its own row unless the median was put in, and no time left out
if the file is regular) until the rows are labelled, then `Labelled`, or `Series` for the minutes of
N-BEATS (`TableInv`). `TestHeldOut` then needs that the partitions are slices in the order train,
validation, test, and that only the last one is scored (`PartInv`); `LabelsReachHorizon` that a
shift by n rows is at least n units of time where no time comes twice (`Steps`), and at most n where
none is left out (`Strides`), each by a least counterexample. `BestEpochKept` speaks of all losses,
`Improved` of the earlier ones; `EpochInv` carries from one epoch to the next that `BestEpoch` holds
the epoch of the lowest loss so far and that training has not outlived it by more than the patience.
`ServeInv` adds that every file, and each half a predictor holds, is absent, torn or whole and has
the horizons of some job (`FilesInv`); from any two such halves a forecast is sound (`Sound`),
because no history ends after the last reading (`ServeConstants`) and a row is at most a minute. All
theorems are about `Spec`, trainers and stand together.

| Theorem | States |
|---|---|
| `TestIsHeldOut` | `TestHeldOut` |
| `LabelsAreReached` | `LabelsReachHorizon` |
| `BestEpochIsKept` | `BestEpochKept` |
| `ServingTypes` | `TypeOK` |
| `ForecastsAreSound` | `ForecastSound` |
| `ReadyModelsServe` | `ReadyServes` |

**Only model-checked.** The liveness properties `CommandsSettle`, `KillsAnswered`, `ReadingsResume`,
`PredictionsResume`, `CommandsDecided` and `SigtermStops`: fairness and ENABLED are out of the
prover's reach. Every invariant and every other property that a passing run checks has a theorem.

## 5. Not modelled

* Sensor drivers and their formulas, RS-485 and OLED, the register protocol of the expander: pure
  device I/O. The workers see a reading that comes, fails or lacks keys.
* What a library computes (fits, forecasts, statistics, figures), and the rendering of the pages.
* Configuration that is read once (`src/config.py` but for `load_runtime_config`, `src/env.py`,
  `src/role.py`).
* The events the workers write for the journal, except where the write itself matters, and the
  queries of the store that only list rows.
* Readings, CSV rows and maintenance of the collector, and `run_once`, which is one cycle with a
  limiter of its own. Two owners of the hardware at once: `collector.py` calls itself the sole
  owner, and a second one would take commands from the table and fail them.
* `publish_pinata_task` and `publish_hedera_task`, which nothing sends; offline scripts, of which
  `scripts/publish_digest.py` imports `src.integrations.digest`, which does not exist.
* Loss of Redis itself; the visibility timeout of an hour after which Redis redelivers is an
  arbitrary delay.
* The two-second limit of the dashboard, which is kept per session, so that two tabs are not
  limited against each other; and the half-second cache of the latest reading, whose two globals
  are written without a lock and at worst hold a reading of a moment ago.
* A Hedera receipt without a sequence number, which `client.py:95` turns into 0: whether the SDK
  produces one cannot be told from the repository.

**Seen while modelling.** Observations that follow from a definition of a module or from reading
the code, and that no run claims:

* `set_model_task` changes the child and `.env`, not the environment of the parent; the next child
  that Celery forks goes back to the old model until the stack is restarted (`ai.py:96`,
  `env.py:33`, `celery_app.py:7`). `ChoiceSurvivesRestart` speaks of restarts only.
* The kill switch does not clear the table: a command that is still pending is executed after it.
* Celery replaces the relay driver's SIGTERM handler after `worker_init`; in the collector the
  driver's handler stands until `main` installs its own.
* `RETENTION_DAYS` is parsed, but the retention task reads `runtime.yml`, which has no such
  field, and always uses 7 days.
* The settings page says a change "will apply within a minute" (`web.py` 679); the collector and
  the recommendations do, but the colours of the overview and the fields of a new session keep the
  thresholds of the import, so that saving from a new session undoes another one's change.
* A value equal to its limit is red in the overview while no event is written and no advice given.
* `check_proofs.py` (80-86) compares the mirror node's string of the consensus time with the
  `str` of a `timestamptz` on PostgreSQL, and the dashboard's slow tick takes the `float` of it.
* `tests/test_taipy_data_access.py` expects no recent events from an empty store; the code returns
  placeholder rows.
* The picker defaults are naive local times that `_to_unix` takes as UTC (`web.py` 71-72,
  268-287).
* `_common.validate_artifact_inline` expects a list, the validator prints an object: warnings are
  always empty. A rejected artifact stays in `models/` and can be chosen.
* `training/evaluate.py` skips every artifact that these trainers write.
* The XGBoost and LightGBM trainers need the horizon of 15 minutes even without `--tune`.
* `merge_datasets` shifts `ts_unix` but not `ts_iso`, which the Prophet trainer uses.
* An LSTM whose losses are all NaN keeps its last weights.
