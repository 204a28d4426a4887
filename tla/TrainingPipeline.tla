-------------------------- MODULE TrainingPipeline --------------------------
(***************************************************************************)
(* The trainers of training/: one job loads a CSV of readings, prepares a  *)
(* table, splits it by time, fits, scores, and leaves a payload and a      *)
(* meta.json in models/.  The same model_id may be trained again.          *)
(*                                                                         *)
(* What is followed is where numbers come from: a cell is the set of the   *)
(* times of the readings it was computed from, {} if it is NaN.            *)
(***************************************************************************)
EXTENDS Selection

CONSTANTS
  CsvFiles,       \* [schema, rows]: who wrote the file, and its rows [at, t, x]:
                  \* a time, is the target, is the sensor there
  HorizonSets,    \* what parse_horizons may return
  Keep,           \* dropna_threshold = 30_000
  Minute,         \* rows in a minute: 60
  Lag,            \* rows of history a feature needs
  TestPct, ValPct,
  SeqLen, Subsample,   \* --sequence-len, --subsample-rows (0: off)
  MinMinutes,     \* input_chunk + output_chunk + 50
  OutputChunk,    \* --output-chunk-length
  Reference,      \* the horizon Optuna tunes for: 15
  Epochs, Patience, Losses,
  MaxLen, MaxHorizon,  \* _HORIZONS_MAX_LEN, _HORIZON_MAX_VALUE
  MaxJobs         \* bound of the model

ASSUME TrainConstants ==
  /\ CsvFiles \subseteq [schema : {"readings", "collector"},
                         rows : Seq([at : Int, t : BOOLEAN, x : BOOLEAN])]
  /\ Keep \in Nat /\ Minute \in Nat \ {0} /\ Lag \in Nat /\ SeqLen \in Nat \ {0} /\ Subsample \in Nat
  /\ TestPct \in 1..99 /\ ValPct \in 1..99 /\ TestPct + ValPct < 100
  /\ Epochs \in Nat \ {0} /\ Patience \in Nat \ {0} /\ Losses \subseteq Nat /\ MaxJobs \in Nat
  /\ \A H \in HorizonSets : H # {} /\ H \subseteq Nat \ {0} /\ IsFiniteSet(H)

Trainers == {"persistence", "linear", "xgboost", "lightgbm", "prophet", "lstm", "nbeats"}
Tunable  == {"xgboost", "lightgbm"}
Trees    == {"linear", "xgboost", "lightgbm"}
Diverged == -1              \* a loss that is NaN
NoJob    == [csv |-> <<>>, schema |-> "none", horizons |-> {}, tune |-> FALSE]
Absent   == [state |-> "absent", schema |-> "none", horizons |-> {}, rows |-> 0, until |-> 0]
Torn     == [Absent EXCEPT !.state = "torn"]
Nothing  == [scale |-> {}, tune |-> {}, fit |-> {}, score |-> {}]

VARIABLES
  algo,           \* the trainer that makes this model_id
  job, pc,
  table,          \* the prepared rows: [at, t, x, y]
  part,           \* index sets of the partitions
  used,           \* what scaling, tuning, fitting and scoring looked at
  losses, weights,  \* LSTM: the validation losses, the epoch of the weights
  payload, meta,  \* the two files of the artifact: [state, schema, horizons, rows, until]
  jobs            \* ghost: jobs started

train == <<table, part, used, losses, weights>>
files == <<payload, meta>>
trainVars == <<algo, job, pc, train, files, jobs>>

NoParts == [train |-> {}, val |-> {}, test |-> {}]

TrainInit ==
  /\ algo \in Trainers /\ job = NoJob /\ pc = "idle"
  /\ table = <<>> /\ part = NoParts /\ used = Nothing
  /\ losses = <<>> /\ weights = 0
  /\ payload = Absent /\ meta = Absent /\ jobs = 0

-----------------------------------------------------------------------------
(* training/_common.py: from the CSV to labelled rows.                     *)

\* Mutant: the file is taken as it lies on the disk.
FileOrder(csv) == csv

\* Rows of one time may come in either order; this one leaves them as they lie.
InTimeOrder(csv) == SortedBy(csv, [i \in DOMAIN csv |-> csv[i].at])

Cell(at, there) == IF there THEN {at} ELSE {}

\* Rows without a target are dropped if enough remain; otherwise the target
\* gets the median of the whole file.
load_dataset(csv) ==
  LET s     == InTimeOrder(csv)
      raw   == [i \in DOMAIN s |-> [at |-> s[i].at, t |-> Cell(s[i].at, s[i].t),
                                    x |-> Cell(s[i].at, s[i].x)]]
      known == UNION {raw[i].t : i \in DOMAIN raw}
  IN  IF Cardinality({i \in DOMAIN csv : csv[i].t}) >= Keep
        THEN Rows(raw, {i \in DOMAIN raw : raw[i].t # {}})
        ELSE [i \in DOMAIN raw |-> [raw[i] EXCEPT !.t = IF @ = {} THEN known ELSE @]]

\* ffill, then bfill: the row whose value row i gets.
Source(tab, i) ==
  LET there == {j \in DOMAIN tab : tab[j].x # {}}
  IN  IF i \in there \/ there = {} THEN i
      ELSE IF \E j \in there : j < i
        THEN CHOOSE j \in there : j < i /\ \A k \in there : k < i => k <= j
        ELSE CHOOSE j \in there : \A k \in there : j <= k

ffill_numeric(tab) == [i \in DOMAIN tab |-> [tab[i] EXCEPT !.x = tab[Source(tab, i)].x]]

\* Lags, rolling windows and gradients over the last Lag rows, counted in rows.
build_features(tab) ==
  [i \in DOMAIN tab |->
     LET past == (i - Lag)..i
     IN  [tab[i] EXCEPT !.x =
            IF i > Lag /\ \A j \in past : tab[j].x # {} /\ tab[j].t # {}
              THEN UNION {tab[j].x \cup tab[j].t : j \in past} ELSE {}]]

\* Mutant: the label is one row short of its horizon.
ShortShift(h) == h * Minute - 1

ShiftRows(h) == h * Minute

\* target.shift(-h * 60); rows that lack a label go.
build_target_lags(tab, H) ==
  LET Label(i, h) == IF i + ShiftRows(h) \in DOMAIN tab THEN tab[i + ShiftRows(h)].t ELSE {}
      wide == [i \in DOMAIN tab |->
                 [at |-> tab[i].at, t |-> tab[i].t, x |-> tab[i].x, y |-> [h \in H |-> Label(i, h)]]]
  IN  Rows(wide, {i \in DOMAIN wide : \A h \in H : wide[i].y[h] # {}})

\* Mutant: the warm-up rows stay.
KeepNaN(tab) == tab

dropna(tab) == Rows(tab, {i \in DOMAIN tab : tab[i].x # {}})

tail_rows(tab) ==
  IF Subsample > 0 /\ Len(tab) > Subsample
    THEN SubSeq(tab, Len(tab) - Subsample + 1, Len(tab)) ELSE tab

Cut(n, pct) == (n * (100 - pct)) \div 100

time_split(n) ==
  [train |-> 1..Cut(n, TestPct), val |-> {}, test |-> (Cut(n, TestPct) + 1)..n]

three_way_time_split(n) ==
  [train |-> 1..Cut(n, TestPct + ValPct),
   val   |-> (Cut(n, TestPct + ValPct) + 1)..Cut(n, TestPct),
   test  |-> (Cut(n, TestPct) + 1)..n]

\* The last rows of the windows of SeqLen rows in a partition: where the labels are.
_make_sequences(S) == {i \in S : i - SeqLen + 1 \in S}

\* One row a minute, a missing minute repeats the one before.
_build_minute_series(tab, H) ==
  LET min(r)  == (r.at - 1) \div Minute
      first   == min(tab[1])
      last    == min(tab[Len(tab)])
      In(m)   == UNION {tab[i].t : i \in {j \in DOMAIN tab : min(tab[j]) = m}}
      Full    == {m \in first..last : In(m) # {}}
      From(m) == CHOOSE k \in Full : k <= m /\ \A q \in Full : q <= m => q <= k
      row(m)  == [at |-> m, t |-> In(From(m)), x |-> In(From(m)),
                  y |-> [h \in H |-> IF m + h <= last THEN In(From(m + h)) ELSE {}]]
  IN  [i \in 1..(last - first + 1) |-> row(first + i - 1)]

-----------------------------------------------------------------------------
(* A job: what each trainer makes of the CSV.                              *)

\* An interrupted or rejected job leaves the files as they are.
StartJob(csv, H, tune) ==
  /\ pc \in {"idle", "ok", "rejected", "failed"} /\ jobs < MaxJobs
  /\ tune => algo \in Tunable
  /\ job' = [csv |-> csv.rows, schema |-> csv.schema, horizons |-> H, tune |-> tune]
  /\ pc' = "prepare" /\ jobs' = jobs + 1
  /\ table' = <<>> /\ part' = NoParts /\ used' = Nothing /\ losses' = <<>> /\ weights' = 0
  /\ UNCHANGED <<algo, files>>

Prepared(tab, parts, enough) ==
  /\ pc = "prepare" /\ pc' = IF enough THEN "fit" ELSE "failed"
  /\ table' = tab /\ part' = parts
  /\ UNCHANGED <<algo, job, used, losses, weights, files, jobs>>

Tabular(csv, H) ==
  dropna(build_target_lags(build_features(ffill_numeric(load_dataset(csv))), H))

prepare_persistence ==
  /\ algo = "persistence"
  /\ LET tab == build_target_lags(load_dataset(job.csv), job.horizons)
     IN  Prepared(tab, time_split(Len(tab)), TRUE)

prepare_linear ==
  /\ algo = "linear"
  /\ LET tab == Tabular(job.csv, job.horizons) IN Prepared(tab, time_split(Len(tab)), TRUE)

\* The column of the reference horizon is looked up even without --tune.
TreeParts(n) == IF job.tune THEN three_way_time_split(n) ELSE time_split(n)

prepare_xgboost ==
  /\ algo = "xgboost"
  /\ LET tab == Tabular(job.csv, job.horizons)
     IN  Prepared(tab, TreeParts(Len(tab)), Reference \in job.horizons)

prepare_lightgbm ==
  /\ algo = "lightgbm"
  /\ LET tab == Tabular(job.csv, job.horizons)
     IN  Prepared(tab, TreeParts(Len(tab)), Reference \in job.horizons)

\* The only feature is the time of the row.
prepare_prophet ==
  /\ algo = "prophet"
  /\ LET tab == build_target_lags(load_dataset(job.csv), job.horizons)
     IN  Prepared([i \in DOMAIN tab |-> [tab[i] EXCEPT !.x = {tab[i].at}]],
                  three_way_time_split(Len(tab)), TRUE)

\* Every partition must hold a window.
prepare_lstm ==
  /\ algo = "lstm"
  /\ LET tab == tail_rows(dropna(build_target_lags(ffill_numeric(load_dataset(job.csv)), job.horizons)))
         p   == three_way_time_split(Len(tab))
     IN  Prepared(tab, p, \A S \in {p.train, p.val, p.test} : _make_sequences(S) # {})

\* Subsampled before the series is built.
prepare_nbeats ==
  /\ algo = "nbeats"
  /\ LET late == tail_rows(load_dataset(job.csv))
         rows == Rows(late, {i \in DOMAIN late : late[i].t # {}})
         tab  == IF rows = <<>> THEN <<>> ELSE _build_minute_series(rows, job.horizons)
     IN  Prepared(tab, time_split(Len(tab)),
                  Len(tab) >= MinMinutes /\ \A h \in job.horizons : h <= OutputChunk)

-----------------------------------------------------------------------------
(* Fitting and scoring.  An empty partition makes the library raise.       *)

Fitted(u, enough) ==
  /\ pc = "fit" /\ pc' = IF enough THEN "dump" ELSE "failed"
  /\ used' = IF enough THEN u ELSE Nothing
  /\ UNCHANGED <<algo, job, table, part, losses, weights, files, jobs>>

Scored == part.test # {}
Trained == part.train # {} /\ Scored

\* LastValuePredictor.fit looks at nothing.
fit_persistence ==
  /\ algo = "persistence" /\ Fitted([Nothing EXCEPT !.score = part.test], Scored)

fit_linear ==
  /\ algo = "linear"
  /\ Fitted([Nothing EXCEPT !.fit = part.train, !.score = part.test], Trained)

\* run_optuna_search on (train, val), then a refit on both.
Refitted ==
  [scale |-> {}, tune |-> IF job.tune THEN part.train \cup part.val ELSE {},
   fit |-> part.train \cup part.val, score |-> part.test]

fit_xgboost ==
  /\ algo = "xgboost" /\ Fitted(Refitted, Trained /\ (job.tune => part.val # {}))

fit_lightgbm ==
  /\ algo = "lightgbm" /\ Fitted(Refitted, Trained /\ (job.tune => part.val # {}))

\* Two rows at least; the validation rows are only reported on.
fit_prophet ==
  /\ algo = "prophet"
  /\ Fitted([Nothing EXCEPT !.fit = part.train, !.score = part.test],
            Trained /\ part.val # {} /\ Cardinality(part.train) >= 2)

\* historical_forecasts from the split on, as far as the longest horizon.
fit_nbeats ==
  /\ algo = "nbeats"
  /\ Fitted([Nothing EXCEPT !.fit = part.train, !.score = part.test],
            Trained /\ \A h \in job.horizons : h <= Cardinality(part.test))

Ranked == {e \in DOMAIN losses : losses[e] # Diverged}

\* improved: lower than every loss before (the 1e-6 is below the grain of Losses).
Improved(e) == e \in Ranked /\ \A d \in Ranked : d < e => losses[e] < losses[d]
BestEpoch == {e \in Ranked : Improved(e) /\ \A d \in Ranked : Improved(d) => d <= e}
Since(e)  == Len(losses) - e
OutOfPatience ==
  IF BestEpoch = {} THEN Len(losses) >= Patience ELSE \A e \in BestEpoch : Since(e) >= Patience

\* One pass over the training windows, then the loss on the validation ones.
lstm_epoch(loss) ==
  /\ pc = "fit" /\ algo = "lstm" /\ Len(losses) < Epochs /\ ~OutOfPatience
  /\ losses' = Append(losses, loss) /\ weights' = Len(losses) + 1
  /\ UNCHANGED <<algo, job, pc, table, part, used, files, jobs>>

\* Mutant: the weights of the last epoch are saved.
LastWeights == weights

\* best_state is None if every loss was NaN.
RestoredWeights == IF BestEpoch = {} THEN weights ELSE CHOOSE e \in BestEpoch : TRUE

\* Patience, the end of the epochs, or the time budget at any epoch.
lstm_stop ==
  /\ pc = "fit" /\ algo = "lstm" /\ losses # <<>>
  /\ weights' = RestoredWeights /\ pc' = "dump"
  /\ used' = [scale |-> part.train, tune |-> part.val, fit |-> part.train,
               score |-> _make_sequences(part.test)]
  /\ UNCHANGED <<algo, job, table, part, losses, files, jobs>>

-----------------------------------------------------------------------------
(* The artifact.                                                           *)

TrainRows == Cardinality(used.fit \cup (IF algo = "persistence" THEN part.train ELSE {}))

\* Prophet keeps the dates it was fitted on; the last of them.
Latest(S)   == CHOOSE u \in S : \A v \in S : v <= u
HistoryEnds == IF algo = "prophet" THEN Latest({table[i].at : i \in used.fit}) ELSE 0

\* feature_columns are those of the CSV: who wrote it tells them.
Written == [state |-> "whole", schema |-> job.schema, horizons |-> job.horizons,
            rows |-> TrainRows, until |-> HistoryEnds]

joblib_dump ==
  /\ pc = "dump" /\ pc' = "meta" /\ payload' = Written
  /\ UNCHANGED <<algo, job, train, meta, jobs>>

write_meta_json ==
  /\ pc = "meta" /\ pc' = "validate" /\ meta' = Written
  /\ UNCHANGED <<algo, job, train, payload, jobs>>

\* parse_horizons sorts and removes duplicates.
validate_metadata_dict(m) ==
  /\ m.rows > 0
  /\ Cardinality(m.horizons) <= MaxLen /\ \A h \in m.horizons : h <= MaxHorizon

\* Neither file is opened as a model: a torn payload passes.
validate_artifact_pair ==
  payload.state # "absent" /\ meta.state = "whole" /\ validate_metadata_dict(meta)

\* --allow-load: the payload of persistence is left alone, the keys of a tree
\* payload are compared with the meta.json, of the others only the form.
_maybe_load_model ==
  \/ algo = "persistence"
  \/ payload.state = "whole" /\ (algo \in Trees => payload.horizons = meta.horizons)

\* validate_model_artifact.py: its exit code is 0.
validate_pairs(allow_load) == validate_artifact_pair /\ (allow_load => _maybe_load_model)

\* The script as a subprocess, without --allow-load.  sys.exit(2) leaves the files.
validate_artifact_inline ==
  /\ pc = "validate" /\ pc' = IF validate_pairs(FALSE) THEN "ok" ELSE "rejected"
  /\ UNCHANGED <<algo, job, train, files, jobs>>

\* The process is killed; the file being written is left in the middle.
Killed ==
  /\ pc \in {"prepare", "fit", "dump", "meta", "validate"} /\ pc' = "failed"
  /\ payload' \in IF pc = "dump" THEN {payload, Torn} ELSE {payload}
  /\ meta' \in IF pc = "meta" THEN {meta, Torn} ELSE {meta}
  /\ UNCHANGED <<algo, job, train, jobs>>

TrainNext ==
  \/ \E csv \in CsvFiles, H \in HorizonSets, tune \in BOOLEAN : StartJob(csv, H, tune)
  \/ prepare_persistence \/ prepare_linear \/ prepare_xgboost \/ prepare_lightgbm
  \/ prepare_prophet \/ prepare_lstm \/ prepare_nbeats
  \/ fit_persistence \/ fit_linear \/ fit_xgboost \/ fit_lightgbm \/ fit_prophet
  \/ fit_nbeats \/ (\E l \in Losses \cup {Diverged} : lstm_epoch(l)) \/ lstm_stop
  \/ joblib_dump \/ write_meta_json \/ validate_artifact_inline \/ Killed

-----------------------------------------------------------------------------
(* Properties.                                                             *)

Once(csv) == \A i, j \in DOMAIN csv : csv[i].at = csv[j].at => i = j
Imputed(csv) ==
  LET known == {i \in DOMAIN csv : csv[i].t}
  IN  known # DOMAIN csv /\ Cardinality(known) < Keep

\* Has the first row its sensor?  Then bfill fills nothing from later rows.
Sensed(csv) == LET raw == load_dataset(csv) IN raw # <<>> => raw[1].x # {}

\* Whatever the order of the file, the NaN policy, the subsample and the
\* trainer, no row that is scored is one that the scaler, the search, the early
\* stop or the fit has looked at, and none is earlier; if no time is twice in
\* the file, each is later.  Nor does a row's input know a later reading,
\* unless bfill, the median of load_dataset or a minute of N-BEATS put it there
\* (_common.py 60-94, 99-123, 405-416).  Labels are another matter: a label is
\* the target of a later row, there is no embargo at the split, and so the last
\* rows that a model or scaler_y is fitted on are labelled with readings of the
\* rows that are scored (_common.py 142-147, train_lstm.py 159-161).
TestHeldOut ==
  LET seen == used.scale \cup used.tune \cup used.fit
  IN  /\ \A i \in seen, j \in used.score : i # j /\ table[i].at <= table[j].at
      /\ Once(job.csv) => \A i \in seen, j \in used.score : table[i].at < table[j].at
      /\ algo # "nbeats" /\ ~Imputed(job.csv) /\ Sensed(job.csv) =>
           \A i \in DOMAIN table : \A u \in table[i].x : u <= table[i].at

Whole(csv)   == \A i \in DOMAIN csv : csv[i].t
Regular(csv) ==
  LET times == {csv[i].at : i \in DOMAIN csv}
  IN  \A a \in times : a + 1 \in times \/ \A b \in times : b <= a

\* Horizons are minutes, the shifts are rows (_common.py 142-147): the label
\* of horizon h is never a reading nearer than h minutes, and exactly that
\* reading if no row is missing and none was dropped.  Rows that repeat a time,
\* the median of load_dataset and the repeated minutes of N-BEATS are the
\* exceptions.
LabelsReachHorizon ==
  LET Due(i, h)    == table[i].at + (IF algo = "nbeats" THEN h ELSE h * Minute)
      Labels(i, h) == IF algo = "nbeats" THEN {(u - 1) \div Minute : u \in table[i].y[h]}
                                         ELSE table[i].y[h]
      Exact   == Regular(job.csv) /\ Whole(job.csv)
      Ordered == algo # "nbeats" /\ ~Imputed(job.csv)
  IN  algo = "nbeats" \/ Once(job.csv) =>
        \A i \in DOMAIN table, h \in job.horizons :
          /\ Exact   => Labels(i, h) \subseteq {Due(i, h)}
          /\ Ordered => \A u \in Labels(i, h) : u >= Due(i, h)

\* The artifact of the LSTM has the weights of the epoch with the lowest
\* validation loss, and training went on for at most Patience epochs after it,
\* also when the time budget ends it or some losses are NaN
\* (train_lstm.py 258-295).
BestEpochKept ==
  (algo = "lstm" /\ pc \in {"dump", "meta", "validate", "ok", "rejected"} /\ Ranked # {}) =>
    /\ weights \in Ranked /\ \A e \in Ranked : losses[weights] <= losses[e]
    /\ Len(losses) <= weights + Patience
=============================================================================
