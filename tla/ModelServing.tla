---------------------------- MODULE ModelServing ----------------------------
(***************************************************************************)
(* What the stand does with the files of TrainingPipeline while they may   *)
(* be rewritten: registry and loader (src/ai/registry.py, loader.py), the  *)
(* multi-horizon backends of Predictor (src/ai/predictor.py) over the      *)
(* imputed features of the last readings (src/ai/features.py), and the     *)
(* readiness summary (src/ai/recommender.py).                              *)
(***************************************************************************)
EXTENDS TrainingPipeline

CONSTANTS
  Windows,        \* [now, rows, target, sibling, humidity, other]: the time of the last
                  \* reading, how many recent rows there are, and of each column how
                  \* many values: "all", "some", "none"
  Wanted          \* the horizon predictor_daemon asks for: 15

Columns == {"all", "some", "none"}

ASSUME ServeConstants ==
  /\ Windows \subseteq [now : Nat, rows : {"none", "short", "enough"}, target : Columns,
                        sibling : Columns, humidity : Columns, other : Columns]
  /\ \A w \in Windows, csv \in CsvFiles : \A i \in DOMAIN csv.rows : csv.rows[i].at <= w.now

VARIABLES
  entry,          \* the meta.json that load_model has read, before the payload
  held,           \* [payload, meta] of the predictor; Absent if it has none
  forecast        \* the last forecast: a sequence of points

serving == <<entry, held, forecast>>
vars == <<trainVars, serving>>

NoEntry == [state |-> "none"]
NoOp    == [payload |-> Absent, meta |-> Absent]

TypeOK ==
  /\ algo \in Trainers /\ jobs \in 0..MaxJobs
  /\ pc \in {"idle", "prepare", "fit", "dump", "meta", "validate", "ok", "rejected", "failed"}
  /\ \A i \in DOMAIN table : /\ algo = "persistence" \/ table[i].x # {}
                             /\ algo = "nbeats" \/ \A h \in job.horizons : table[i].y[h] # {}
  /\ UNION {used.scale, used.tune, used.fit, used.score} \subseteq DOMAIN table
  /\ Len(losses) <= Epochs /\ weights \in 0..Epochs
  /\ \A f \in {payload, meta, held.payload, held.meta} :
       /\ f.state \in {"absent", "torn", "whole"} /\ f.horizons \in HorizonSets \cup {{}}
       /\ f.until \in Int
  /\ \A i \in DOMAIN forecast :
       forecast[i] \in [h : Nat, made : Nat, for : Int, on : SUBSET {"value", "zero", "nan"}]

Init == TrainInit /\ entry = NoEntry /\ held = NoOp /\ forecast = <<>>

-----------------------------------------------------------------------------
(* Loading: the meta.json first, then the payload.                         *)

\* list_available_models goes by the payload files; an unreadable meta is {}.
list_available_models ==
  /\ entry = NoEntry /\ payload.state # "absent"
  /\ entry' = IF meta.state = "whole" THEN meta ELSE Absent
  /\ UNCHANGED <<trainVars, held, forecast>>

\* The payload of persistence is not opened.  An error leaves a predictor
\* without a model.
load_model ==
  /\ entry # NoEntry /\ entry' = NoEntry
  /\ held' = IF entry.state = "whole" /\ algo = "persistence"
               THEN [payload |-> Absent, meta |-> entry]
               ELSE IF payload.state = "torn" THEN NoOp
               ELSE [payload |-> payload, meta |-> entry]
  /\ UNCHANGED <<trainVars, forecast>>

-----------------------------------------------------------------------------
(* src/ai/features.py at run time.                                         *)

Fill(col, sibling) == IF col = "none" /\ sibling # "none" THEN "all" ELSE col

\* A humidity that was never read becomes a constant, one of the two
\* temperatures the median of the other.
impute_raw_columns(w) ==
  [w EXCEPT !.humidity = IF @ = "none" THEN "all" ELSE @,
            !.target  = Fill(@, w.sibling), !.sibling = Fill(@, w.target)]

\* What the last feature row is made of: lags, windows and gradients inherit
\* the gaps of their column and lack the history of a short window.
build_features_row(w) ==
  {"value"} \cup (IF w.rows = "short" \/ \E c \in {w.target, w.humidity, w.other} : c # "all"
                    THEN {"nan"} ELSE {})

\* The raw columns of the last SeqLen rows.
Window(w) == {"value"} \cup (IF \E c \in {w.target, w.humidity, w.other} : c # "all" THEN {"nan"} ELSE {})

Zeroed(cells) == IF "nan" \in cells THEN (cells \ {"nan"}) \cup {"zero"} ELSE cells

latest_feature_row_imputed(w) == Zeroed(build_features_row(w))
fill_window_nans(w) == Zeroed(Window(w))

-----------------------------------------------------------------------------
(* The columns.  The feature_columns of a tree model are all numeric ones   *)
(* of its CSV but the target, with what build_features adds to those that   *)
(* both kinds of CSV have; the LSTM takes the raw columns that are there.   *)

Target == "temp_c"
RAW_FEATURE_COLS == {Target, "humidity_pct", "pressure_hpa", "lux", "current_ma", "mq2_raw"}
READINGS_COLUMNS == RAW_FEATURE_COLS \cup
  {"bus_voltage", "shunt_mv", "power_mw", "ds18b20_c", "mq2_voltage", "pir_state"}
CSV_FIELDNAMES   == RAW_FEATURE_COLS \cup {"voltage_v", "mq2_voltage_v", "pir_state"}

feature_columns(schema) ==
  LET csv == CASE schema = "readings" -> READINGS_COLUMNS
               [] schema = "collector" -> CSV_FIELDNAMES
               [] OTHER -> {}
  IN  CASE algo \in Trees -> csv \ {Target}
        [] algo = "lstm" -> csv \cap RAW_FEATURE_COLS
        [] algo = "nbeats" -> {Target}
        [] OTHER -> {}

\* The columns that the rows of the readings table lack.
Missing(schema) == feature_columns(schema) \ READINGS_COLUMNS

-----------------------------------------------------------------------------
(* The backends, for a predictor p and readings w: a sequence of points    *)
(* [h, made, for, on], h the horizon on the label, made the time of the    *)
(* last reading, for the time the number is computed for, on what it was   *)
(* computed from.                                                          *)

\* Counted from start, step rows for each of the h.
Points(H, w, start, step, on) ==
  [i \in 1..Cardinality(H) |->
     [h |-> Listed(H)[i], made |-> w.now, for |-> start + Listed(H)[i] * step, on |-> on]]

\* The last target that is there, or 0.0, for every horizon.
_predict_persistence_multi(p, w) ==
  Points(p.meta.horizons, w, w.now, Minute, IF w.target = "none" THEN {"zero"} ELSE {"value"})

\* self.model[h], fitted on labels h minutes on; a horizon the payload does not
\* have is skipped.  A missing column ends it, and an estimator that was fitted
\* on other columns than those of the meta raises.
_predict_tree_multi(p, w) ==
  IF Missing(p.meta.schema) # {} \/ p.payload.schema # p.meta.schema THEN <<>>
  ELSE Points(p.meta.horizons \cap p.payload.horizons, w, w.now, Minute,
              latest_feature_row_imputed(w))

\* make_future_dataframe: the h-th minute after the rows it was fitted on.
_predict_prophet_multi(p, w) ==
  Points(p.meta.horizons, w, p.payload.until, Minute, {"value"})

\* Mutant: the values of the payload, labelled with the horizons of the meta.
LabelsFromMeta(p, w) ==
  LET vals == Listed(p.payload.horizons)
      hs   == Listed(p.meta.horizons)
  IN  IF w.rows # "enough" THEN <<>>
      ELSE [i \in 1..(IF Len(hs) < Len(vals) THEN Len(hs) ELSE Len(vals)) |->
              [h |-> hs[i], made |-> w.now, for |-> w.now + vals[i] * Minute,
               on |-> fill_window_nans(w)]]

\* zip of the payload's horizons and the outputs; the columns are the payload's.
_predict_lstm_pytorch_multi(p, w) ==
  IF Missing(p.payload.schema) # {} \/ w.rows # "enough" THEN <<>>
  ELSE Points(p.payload.horizons, w, w.now, Minute, fill_window_nans(w))

\* A model of minutes, but the window is the last rows: a step of the forecast
\* is as long as one of the window, a row.  NaN stays in the window.
_predict_nbeats_multi(p, w) ==
  IF Missing(p.payload.schema) # {} \/ w.rows # "enough" THEN <<>>
  ELSE Points(p.meta.horizons, w, w.now, 1, IF w.target = "all" THEN {"value"} ELSE {"value", "nan"})

\* Mutant: the dispatch forgets the linear models.
BoostedOnly(p, w) ==
  IF algo \in {"xgboost", "lightgbm"} THEN _predict_tree_multi(p, w) ELSE <<>>

\* Without meta.algo there is no backend; all but persistence raise without a payload.
predict_multi(p, w) ==
  IF p.meta.state # "whole" \/ (algo # "persistence" /\ p.payload.state # "whole") THEN <<>>
  ELSE CASE algo = "persistence" -> _predict_persistence_multi(p, w)
         [] algo \in Trees -> _predict_tree_multi(p, w)
         [] algo = "prophet" -> _predict_prophet_multi(p, w)
         [] algo = "lstm" -> _predict_lstm_pytorch_multi(p, w)
         [] algo = "nbeats" -> _predict_nbeats_multi(p, w)

\* predict_task: no readings, no forecast.
PredictMulti(w) ==
  /\ entry = NoEntry /\ w.rows # "none"
  /\ forecast' = predict_multi(held, impute_raw_columns(w))
  /\ UNCHANGED <<trainVars, entry, held>>

Distance(h) == IF h < Wanted THEN Wanted - h ELSE h - Wanted

\* min() over the points: the first of the nearest.
Nearest(multi) ==
  {multi[i] : i \in {j \in DOMAIN multi : \A k \in DOMAIN multi :
     \/ Distance(multi[j].h) < Distance(multi[k].h)
     \/ Distance(multi[j].h) = Distance(multi[k].h) /\ j <= k}}

\* For artifacts with horizons, which all of these are.
predict(p, w) == Nearest(predict_multi(p, w))

\* scripts/predictor_daemon.py: no point, no row.
run_prediction_cycle(w) ==
  /\ entry = NoEntry /\ w.rows # "none"
  /\ \E point \in predict(held, impute_raw_columns(w)) : forecast' = <<point>>
  /\ UNCHANGED <<trainVars, entry, held>>

ServeNext ==
  \/ list_available_models \/ load_model
  \/ \E w \in Windows : PredictMulti(w) \/ run_prediction_cycle(w)

Next == (TrainNext /\ UNCHANGED serving) \/ ServeNext

Spec == Init /\ [][Next]_vars

\* build_model_readiness
Readiness ==
  IF payload.state = "absent" THEN "no_model"
  ELSE IF validate_artifact_pair THEN "ok" ELSE "model_invalid"

-----------------------------------------------------------------------------
(* Properties.                                                             *)

\* A model trained again under its id is read while its two files are being
\* replaced, so a predictor may hold the payload of one training and the
\* meta.json of another with other horizons (loader.py 168-223).  Even so a
\* number labelled h minutes is the one computed for h minutes after the last
\* reading; that of Prophet, which counts from the end of its history, and of
\* N-BEATS, whose steps are rows when it serves, is for no later time
\* (predictor.py 182-193, 312-321).  No backend but N-BEATS computes with a NaN.
ForecastSound ==
  \A i \in DOMAIN forecast :
    LET p == forecast[i]
    IN  /\ p.for <= p.made + p.h * Minute
        /\ algo \notin {"prophet", "nbeats"} => p.for = p.made + p.h * Minute
        /\ "nan" \in p.on => algo = "nbeats"
        /\ \A k \in 1..(i - 1) : forecast[k].h < p.h

\* An artifact that was called ready yields a forecast for every horizon of its
\* meta.json, once it is loaded and there are readings enough.  The readiness
\* summary cannot see a payload that is torn or of another training;
\* validate_model_artifact --allow-load can, but for the LSTM, which goes by
\* the horizons of its payload.  Neither looks at the columns: a tree model
\* trained on the CSV of scripts/collector.py, whose voltage_v the readings
\* table calls bus_voltage, is ready and yields nothing (recommender.py 159-201,
\* validate_model_artifact.py 37-131, collector.py 50-62, predictor.py 144-147).
ReadyServes ==
  \A w \in Windows : w.rows = "enough" =>
    LET f      == predict_multi([payload |-> payload, meta |-> meta], impute_raw_columns(w))
        served == {f[i].h : i \in DOMAIN f}
        Fits   == algo \in Trees => Missing(meta.schema) = {} /\ payload.schema = meta.schema
    IN  /\ Readiness = "ok" /\ payload = meta =>
             served = IF Fits THEN meta.horizons ELSE {}
        /\ validate_pairs(TRUE) =>
             served = IF ~Fits THEN {} ELSE IF algo = "lstm" THEN payload.horizons ELSE meta.horizons
=============================================================================
