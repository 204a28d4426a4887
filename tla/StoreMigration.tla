--------------------------- MODULE StoreMigration ---------------------------
(***************************************************************************)
(* The two stores behind the contract of src/storage/base.py; the stack    *)
(* that samples, executes, publishes and cleans up on one of them; the     *)
(* charts, which read ranges of it; and migrate_sqlite_to_postgres, run by *)
(* hand, in batches, beside a stack that may be running, stopped by any    *)
(* error, and run again.  A table is the sequence of its rows by id; the   *)
(* unit of time is the sampling period.                                    *)
(***************************************************************************)
EXTENDS Selection

CONSTANTS
  BatchSize,               \* BATCH_SIZE = 1000
  Retention,               \* retention_days
  MaxPoints, MinSpan,      \* max_points = 2000, 60 s
  MaxCommands, MaxProofs, MaxTime, MaxRuns   \* bounds of the model

ASSUME StoreConstants ==
  /\ BatchSize \in Nat \ {0} /\ Retention \in Nat /\ MaxPoints \in Nat \ {0} /\ MinSpan \in Nat
  /\ MaxCommands \in Nat /\ MaxProofs \in Nat /\ MaxTime \in Nat /\ MaxRuns \in Nat

\* predictions and events are copied as readings are.
Tables   == <<"readings", "commands">>
AllTables == {"readings", "commands", "proofs"}
NoRows   == [t \in AllTables |-> <<>>]

VARIABLES
  lite, pg,       \* the tables of the two stores
  backend, stack, \* DB_BACKEND of .env, and whether the processes run
  time,
  mig, left,      \* the table being copied, the rows of its cursor to come
  runs, result,   \* migrations started, and how the last one ended
  acted,          \* ghost: how often each command took effect
  base,           \* ghost: what SQLite held when the migration was started
  dirty           \* ghost: the stack changed SQLite since the first migration

storeVars ==
  <<lite, pg, backend, stack, time, mig, left, runs, result, acted, base, dirty>>
migration == <<mig, left, runs, result, base>>

StoreTypeOK ==
  /\ \A s \in {lite, pg} :
       /\ \A i \in DOMAIN s["readings"] : s["readings"][i] \in 0..MaxTime
       /\ \A i \in DOMAIN s["commands"] :
            s["commands"][i] \in [id : 1..MaxCommands, status : {"pending", "applied"}]
       /\ \A i, j \in DOMAIN s["proofs"] : s["proofs"][i] = s["proofs"][j] => i = j
  /\ backend \in {"sqlite", "postgres"} /\ stack \in {"up", "down"}
  /\ mig \in 0..(Len(Tables) + 1) /\ mig = 0 => left = <<>>

StoreInit ==
  /\ lite = NoRows /\ pg = NoRows /\ backend = "sqlite" /\ stack = "up" /\ time = 0
  /\ mig = 0 /\ left = <<>> /\ runs = 0 /\ result = "none"
  /\ acted = [c \in 1..MaxCommands |-> 0] /\ base = NoRows /\ dirty = FALSE

-----------------------------------------------------------------------------
(* The contract, on the store in use.                                      *)

Store == IF backend = "sqlite" THEN lite ELSE pg

Put(table, rows) ==
  /\ stack = "up"
  /\ IF backend = "sqlite"
       THEN lite' = [lite EXCEPT ![table] = rows] /\ UNCHANGED pg
       ELSE pg' = [pg EXCEPT ![table] = rows] /\ UNCHANGED lite
  /\ dirty' = (dirty \/ (backend = "sqlite" /\ runs > 0))

insert_reading ==
  /\ \A i \in DOMAIN Store["readings"] : Store["readings"][i] < time
  /\ Put("readings", Append(Store["readings"], time))
  /\ UNCHANGED <<backend, stack, time, migration, acted>>

\* A click of the dashboard; ids follow created_at.
create_command ==
  LET ids == UNION {{s["commands"][i].id : i \in DOMAIN s["commands"]} : s \in {lite, pg}}
      new == Cardinality(ids) + 1
  IN  /\ new <= MaxCommands
      /\ Put("commands", Append(Store["commands"], [id |-> new, status |-> "pending"]))
      /\ UNCHANGED <<backend, stack, time, migration, acted>>

\* The oldest pending row is executed and marked.
fetch_pending_commands ==
  {i \in DOMAIN Store["commands"] : Store["commands"][i].status = "pending"}

update_command_status ==
  \E i \in fetch_pending_commands :
    /\ \A j \in fetch_pending_commands : Store["commands"][i].id <= Store["commands"][j].id
    /\ Put("commands", [Store["commands"] EXCEPT ![i].status = "applied"])
    /\ acted' = [acted EXCEPT ![Store["commands"][i].id] = @ + 1]
    /\ UNCHANGED <<backend, stack, time, migration>>

\* UNIQUE (idempotency_key), looked up before it is inserted.
insert_proof(k) ==
  /\ \A i \in DOMAIN Store["proofs"] : Store["proofs"][i] # k
  /\ Put("proofs", Append(Store["proofs"], k))
  /\ UNCHANGED <<backend, stack, time, migration, acted>>

cleanup_old_readings ==
  LET rows == Store["readings"]
      kept == {i \in DOMAIN rows : rows[i] >= time - Retention}
  IN  /\ kept # DOMAIN rows /\ Put("readings", Rows(rows, kept))
      /\ UNCHANGED <<backend, stack, time, migration, acted>>

StoreTick ==
  /\ time < MaxTime /\ time' = time + 1
  /\ UNCHANGED <<lite, pg, backend, stack, migration, acted, dirty>>

\* stop_all.sh, start_all.sh: DB_BACKEND is read when a process starts.
StopStack ==
  /\ stack = "up" /\ stack' = "down"
  /\ UNCHANGED <<lite, pg, backend, time, migration, acted, dirty>>

\* The operator changes DB_BACKEND after a migration that ended well.
StartStack ==
  /\ stack = "down" /\ stack' = "up"
  /\ backend' \in {backend} \cup (IF result = "ok" /\ mig = 0 THEN {"postgres"} ELSE {})
  /\ UNCHANGED <<lite, pg, time, migration, acted, dirty>>

-----------------------------------------------------------------------------
(* scripts/migrate_sqlite_to_postgres.py                                   *)

\* The cursor of a SELECT keeps the snapshot of its first row.
Open(n) ==
  /\ mig' = n
  /\ left' = IF n <= Len(Tables) THEN lite[Tables[n]] ELSE <<>>

\* The schema is there or is created; what is in the tables stays.  The script
\* looks at neither DB_BACKEND nor the stack: it may run after the switch, too.
StartMigration ==
  /\ mig = 0 /\ runs < MaxRuns /\ Open(1)
  /\ runs' = runs + 1 /\ result' = "running" /\ base' = lite
  /\ UNCHANGED <<lite, pg, backend, stack, time, acted, dirty>>

\* Mutant: the status column is not among the copied ones.
WithoutStatus(rows) == [i \in DOMAIN rows |-> IF mig = 2 THEN [rows[i] EXCEPT !.status = "pending"] ELSE rows[i]]

\* tuple(row[c] for c in columns): all of a row but its id.
Columns(rows) == rows

\* Mutant: what is left after the last full batch is forgotten.
FullBatchesOnly == IF Len(left) < BatchSize THEN 0 ELSE BatchSize

BatchRows == IF Len(left) < BatchSize THEN Len(left) ELSE BatchSize

\* executemany and commit; then the next table.
_migrate_table ==
  /\ mig \in 1..Len(Tables)
  /\ IF left # <<>> /\ BatchRows > 0
       THEN /\ pg' = [pg EXCEPT ![Tables[mig]] = @ \o Columns(SubSeq(left, 1, BatchRows))]
            /\ left' = SubSeq(left, BatchRows + 1, Len(left)) /\ UNCHANGED mig
       ELSE Open(mig + 1) /\ UNCHANGED pg
  /\ UNCHANGED <<lite, backend, stack, time, runs, result, base, acted, dirty>>

\* Mutant: without ON CONFLICT.
AllProofs == lite["proofs"]

\* ON CONFLICT (idempotency_key) DO NOTHING.
NewProofs ==
  LET there == {pg["proofs"][i] : i \in DOMAIN pg["proofs"]}
  IN  Rows(lite["proofs"], {i \in DOMAIN lite["proofs"] : lite["proofs"][i] \notin there})

\* All proofs in one transaction.
_migrate_proofs ==
  /\ mig = Len(Tables) + 1 /\ mig' = 0 /\ result' = "ok"
  /\ pg' = [pg EXCEPT !["proofs"] = @ \o NewProofs]
  /\ UNCHANGED <<lite, backend, stack, time, left, runs, base, acted, dirty>>

\* Any error, or Ctrl+C: the open transaction is lost, the batches are not.
MigrationFails ==
  /\ mig > 0 /\ mig' = 0 /\ left' = <<>> /\ result' = "failed"
  /\ UNCHANGED <<lite, pg, backend, stack, time, runs, base, acted, dirty>>

StoreNext ==
  \/ insert_reading \/ create_command \/ update_command_status \/ cleanup_old_readings
  \/ \E k \in 1..MaxProofs : insert_proof(k)
  \/ StoreTick \/ StopStack \/ StartStack
  \/ StartMigration \/ _migrate_table \/ _migrate_proofs \/ MigrationFails

StoreSpec == StoreInit /\ [][StoreNext]_storeVars

-----------------------------------------------------------------------------
(* The charts.                                                             *)

\* _df_for_custom_range: dates in the wrong order are exchanged, a short
\* range is widened.
CustomRange(f, t) ==
  LET from == IF t < f THEN t ELSE f
      to   == IF t < f THEN f ELSE t
  IN  [from |-> from, to |-> IF to - from < MinSpan THEN from + MinSpan ELSE to]

Span(r) == IF r.to - r.from < 1 THEN 1 ELSE r.to - r.from

\* Mutant: the step is an integer.
WholeStep(r) == <<Span(r) \div MaxPoints, 1>>

\* get_readings_range_df: span / max_points, as a fraction.
step_s(r) == <<Span(r), MaxPoints>>

InRange(rows, r) == {i \in DOMAIN rows : r.from <= rows[i] /\ rows[i] <= r.to}

\* The group of a row: (ts - from) / step, cut off by CAST ... AS INTEGER in
\* SQLite, rounded to the even neighbour by ::int in PostgreSQL.
Group(ts, r) ==
  LET num == (ts - r.from) * step_s(r)[2]
      den == step_s(r)[1]
      low == num \div den
      cut == 2 * (num % den)
  IN  IF backend = "sqlite" THEN low
      ELSE IF cut > den \/ (cut = den /\ low % 2 = 1) THEN low + 1 ELSE low

Downsampled(r) == Span(r) > MaxPoints

\* MIN(id) of each group.
fetch_readings_range(rows, r) ==
  IF ~Downsampled(r) THEN InRange(rows, r)
  ELSE {i \in InRange(rows, r) :
          \A j \in InRange(rows, r) : Group(rows[j], r) = Group(rows[i], r) => i <= j}

-----------------------------------------------------------------------------
(* Properties.                                                             *)

Copies(t, row) == Cardinality({i \in DOMAIN pg[t] : pg[t][i] = row})
RowsOf(s, t)   == {s[t][i] : i \in DOMAIN s[t]}

\* However many runs failed in the middle of a table, and whatever the stack
\* did meanwhile: after a run that reported DONE, each row that SQLite held
\* when it was started, and holds unchanged, is in PostgreSQL, at most once
\* for each run, a proof exactly once (migrate_sqlite_to_postgres.py 33-94).
NothingLost ==
  (result = "ok" /\ backend = "sqlite") =>
    \A t \in AllTables : \A row \in RowsOf(base, t) \cap RowsOf(lite, t) :
      Copies(t, row) \in 1..(IF t = "proofs" THEN 1 ELSE runs)

\* A command takes effect once, on whichever store, if it was copied by one
\* run beside a stopped stack.  A copy made beside a running stack is still
\* pending when the original has been executed, and a second run copies a
\* pending row again: each costs one more execution, and nothing else does.
NoReplay ==
  \A c \in 1..MaxCommands :
    /\ acted[c] <= runs + (IF dirty \/ runs = 0 THEN 1 ELSE 0)
    /\ runs = 1 /\ ~dirty => acted[c] <= 1

Duplicated(rows) == \E i, j \in DOMAIN rows : i # j /\ rows[i] = rows[j]
Gap(a, b) == IF a < b THEN b - a ELSE a - b

\* A range that is thinned out has at most one row more than max_points, with
\* either way of rounding: both ends are in it, so max_points + 1 groups are
\* possible, and the "<= max_points" of the docstring is off by one (data_access.py
\* 68-74).  One that is not has more only after a repeated migration.  And no
\* reading in the range is further than a step from one shown.
RangeFaithful ==
  LET rows == Store["readings"] IN
  \A f \in 0..time, t \in 0..time :
    LET r     == CustomRange(f, t)
        shown == fetch_readings_range(rows, r)
    IN  /\ Cardinality(shown) <= MaxPoints + 1 \/ (Duplicated(rows) /\ ~Downsampled(r))
        /\ \A i \in InRange(rows, r) : \E j \in shown : Gap(rows[i], rows[j]) * MaxPoints <= Span(r)
=============================================================================
