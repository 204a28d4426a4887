------------------------------ MODULE AiWorker ------------------------------
(***************************************************************************)
(* The ai-worker (src/tasks/ai.py): a Celery parent whose single prefork   *)
(* child runs the tasks of the queue ai and is replaced after MaxTasks of  *)
(* them.  predict_task uses the child's predictor and store;               *)
(* set_model_task replaces the predictor and writes MODEL_ID to .env.      *)
(*                                                                         *)
(* Models are numbered by trained_at.  A predictor is the model it holds,  *)
(* NoOp when loading failed, Unset before the first load.  A message is    *)
(* the model to switch to, or Predict.                                     *)
(***************************************************************************)
EXTENDS Integers, Sequences

CONSTANTS
  Models,       \* 1..N, the later the fresher
  Kinds,        \* what an artifact may be: "good", "unnamed", "broken"
  EnvFiles,     \* the .env files the stack may be started with
  MaxTasks,     \* --max-tasks-per-child=100
  MaxQueue, MaxClicks, MaxCrashes, MaxFaults   \* bounds of the model

ASSUME ConstantTypes ==
  /\ Models \subseteq Nat \ {0} /\ Kinds \subseteq {"good", "unnamed", "broken"}
  /\ MaxTasks \in Nat \ {0} /\ MaxQueue \in Nat
  /\ MaxClicks \in Nat /\ MaxCrashes \in Nat /\ MaxFaults \in Nat

Unset   == -1   \* _state["predictor"] is None
NoOp    == 0    \* a Predictor without a model
Predict == 0    \* the message of predict_task
Empty   == 0    \* MODEL_ID= ; no model id
NoLine  == -1   \* there is no line MODEL_ID

ASSUME EnvTypes ==
  \A f \in EnvFiles :
    \/ f = [state |-> "missing", id |-> NoLine]
    \/ f \in [state : {"whole"}, id : Models \cup {Empty, NoLine}]

VARIABLES
  disk,           \* models/: what each artifact is, "absent" if it is not there
  file,           \* .env: its state, and the line MODEL_ID
  environ,        \* os.environ of the parent: AI_ENABLED, MODEL_ID
  queue,          \* the messages of the queue ai
  pc,             \* where the child stands, "dead" if there is none
  cur,            \* the message in hand; Predict if there is none
  predictor, name, store,   \* _state of the child
  done,           \* tasks this child has finished
  row,            \* the last prediction: by which model, under which name
  chosen, saved, restarted,  \* ghost: last switch, is it in .env, restart since
  clicks, crashes, faults    \* ghost: counts

child == <<predictor, name, store>>
ghost == <<chosen, saved, restarted>>
count == <<clicks, crashes, faults>>
vars  == <<disk, file, environ, queue, pc, cur, child, done, row, ghost, count>>

TypeOK ==
  /\ disk \in [Models -> {"absent"} \cup Kinds]
  /\ file \in [state : {"missing", "whole", "torn"}, id : Models \cup {Empty, NoLine}]
  /\ environ \in [enabled : BOOLEAN, id : Models \cup {Empty, NoLine}]
  /\ queue \in Seq(Models \cup {Predict})
  /\ pc \in {"dead", "idle", "predict", "load", "persist", "ack"}
  /\ cur \in Models \cup {Predict}
  /\ predictor \in Models \cup {NoOp, Unset}
  /\ name \in Models \cup {Empty} /\ store \in BOOLEAN
  /\ done \in 0..(MaxTasks - 1)
  /\ row \in [by : Models \cup {0}, as : Models \cup {Empty}]
  /\ chosen \in Models \cup {0} /\ saved \in BOOLEAN /\ restarted \in BOOLEAN
  /\ clicks \in 0..MaxClicks /\ crashes \in 0..MaxCrashes /\ faults \in 0..MaxFaults

\* The stack is started with AI_ENABLED=true in .env, or in the shell if there
\* is no .env.
Init ==
  /\ disk \in [Models -> {"absent"} \cup Kinds]
  /\ file \in EnvFiles /\ environ = [enabled |-> TRUE, id |-> file.id]
  /\ queue = <<>> /\ pc = "dead" /\ cur = Predict
  /\ predictor = Unset /\ name = Empty /\ store = FALSE /\ done = 0
  /\ row = [by |-> 0, as |-> Empty]
  /\ chosen = 0 /\ saved = FALSE /\ restarted = FALSE
  /\ clicks = 0 /\ crashes = 0 /\ faults = 0

-----------------------------------------------------------------------------
(* The surroundings: Beat, the dashboard, the operator's models/.          *)

\* Also the delayed prediction that on_apply_model asks for.
SendPredict ==
  /\ Len(queue) < MaxQueue /\ queue' = Append(queue, Predict)
  /\ UNCHANGED <<disk, file, environ, pc, cur, child, done, row, ghost, count>>

on_apply_model(m) ==
  /\ disk[m] # "absent" /\ clicks < MaxClicks /\ Len(queue) < MaxQueue
  /\ queue' = Append(queue, m) /\ clicks' = clicks + 1
  /\ UNCHANGED <<disk, file, environ, pc, cur, child, done, row, ghost, crashes, faults>>

\* A new artifact, or the end of a copy that was listed half-way.
CopyModel(m, k) ==
  /\ disk[m] \in {"absent", "broken"} /\ k # disk[m]
  /\ disk' = [disk EXCEPT ![m] = k]
  /\ UNCHANGED <<file, environ, queue, pc, cur, child, done, row, ghost, count>>

-----------------------------------------------------------------------------
(* Loading.                                                                *)

Present == {m \in Models : disk[m] # "absent"}
Latest  == CHOOSE m \in Present : \A k \in Present : k <= m

Loadable(m) == m \in Present /\ disk[m] # "broken"

\* Predictor(models_dir, model_id): errors leave a predictor without a model.
Load(id) ==
  IF id = Empty THEN IF Present # {} /\ Loadable(Latest) THEN Latest ELSE NoOp
                ELSE IF Loadable(id) THEN id ELSE NoOp

\* predictor.meta.get("model_id") or the id that was asked for
NameOf(p, id) == IF p \in Models /\ disk[p] = "good" THEN p ELSE id

\* load_project_env does not override what is in the environment
ModelId ==
  LET id == IF environ.id = NoLine THEN file.id ELSE environ.id
  IN  IF id = NoLine THEN Empty ELSE id

\* create_telemetry_store and init_schema
OpenStore ==
  \/ store' = TRUE /\ UNCHANGED faults
  \/ faults < MaxFaults /\ faults' = faults + 1 /\ UNCHANGED store

init_ai_resources ==
  IF predictor # Unset \/ ~environ.enabled
    THEN UNCHANGED <<child, faults>>
    ELSE /\ predictor' = Load(ModelId) /\ name' = NameOf(Load(ModelId), ModelId)
         /\ IF store THEN UNCHANGED <<store, faults>> ELSE OpenStore

-----------------------------------------------------------------------------
(* The child.                                                              *)

\* A fork has the environment of the parent.  Whether worker_process_init
\* knows the hostname, and initialises, is up to Celery.
Fork ==
  /\ pc = "dead" /\ pc' = "idle"
  /\ init_ai_resources \/ UNCHANGED <<child, faults>>
  /\ UNCHANGED <<disk, file, environ, queue, cur, done, row, ghost, clicks, crashes>>

Receive ==
  /\ pc = "idle" /\ queue # <<>>
  /\ cur' = Head(queue) /\ queue' = Tail(queue)
  /\ pc' = IF Head(queue) = Predict THEN "predict" ELSE "load"
  /\ UNCHANGED <<disk, file, environ, child, done, row, ghost, count>>

\* Everything up to the forecast; with the predictor unset it initialises
\* first.  No readings, or an error of the features, the forecast or the
\* insert: no row.
predict_task ==
  /\ pc = "predict" /\ pc' = "ack"
  /\ IF predictor = Unset THEN init_ai_resources ELSE UNCHANGED <<child, faults>>
  /\ \/ UNCHANGED row
     \/ /\ predictor' \in Models /\ store'
        /\ row' = [by |-> predictor', as |-> name']
  /\ UNCHANGED <<disk, file, environ, queue, cur, done, ghost, clicks, crashes>>

\* Mutant: a model that cannot be loaded leaves the old predictor in place,
\* under the new name.
NameOnly ==
  /\ pc = "load" /\ pc' = "persist"
  /\ predictor' = IF Load(cur) = NoOp THEN predictor ELSE Load(cur)
  /\ name' = NameOf(Load(cur), cur)
  /\ UNCHANGED <<disk, file, environ, queue, cur, store, done, row, ghost, count>>

\* It is True for a model that cannot be loaded as well.
_reload_predictor ==
  /\ pc = "load" /\ pc' = "persist"
  /\ predictor' = Load(cur) /\ name' = NameOf(Load(cur), cur)
  /\ UNCHANGED <<disk, file, environ, queue, cur, store, done, row, ghost, count>>

Switched(s) == chosen' = cur /\ saved' = s /\ restarted' = FALSE

\* Mutant: only a line that is there is replaced.
PersistIfListed ==
  /\ pc = "persist" /\ pc' = "ack"
  /\ file' = [file EXCEPT !.id = IF @ = NoLine THEN @ ELSE cur]
  /\ Switched(file.state # "missing")
  /\ UNCHANGED <<disk, environ, queue, cur, child, done, row, count>>

_persist_model_id ==
  /\ pc = "persist" /\ pc' = "ack"
  /\ file' = [file EXCEPT !.id = IF file.state = "missing" THEN @ ELSE cur]
  /\ Switched(file.state # "missing")
  /\ UNCHANGED <<disk, environ, queue, cur, child, done, row, count>>

\* The error is logged; the task still answers ok.
PersistFails ==
  /\ pc = "persist" /\ file.state # "missing" /\ faults < MaxFaults
  /\ faults' = faults + 1 /\ pc' = "ack" /\ Switched(FALSE)
  /\ UNCHANGED <<disk, file, environ, queue, cur, child, done, row, clicks, crashes>>

NoChild == predictor' = Unset /\ name' = Empty /\ store' = FALSE /\ done' = 0

\* Mutant: the child is never replaced.
AckForever ==
  /\ pc = "ack" /\ pc' = "idle" /\ cur' = Predict /\ UNCHANGED <<child, done>>
  /\ UNCHANGED <<disk, file, environ, queue, row, ghost, count>>

\* Mutant: the task count is one too many when the child is replaced.
AckLate ==
  /\ pc = "ack" /\ cur' = Predict
  /\ IF done = MaxTasks THEN NoChild /\ pc' = "dead"
                        ELSE done' = done + 1 /\ pc' = "idle" /\ UNCHANGED child
  /\ UNCHANGED <<disk, file, environ, queue, row, ghost, count>>

Ack ==
  /\ pc = "ack" /\ cur' = Predict
  /\ IF done + 1 = MaxTasks THEN NoChild /\ pc' = "dead"
                            ELSE done' = done + 1 /\ pc' = "idle" /\ UNCHANGED child
  /\ UNCHANGED <<disk, file, environ, queue, row, ghost, count>>

-----------------------------------------------------------------------------
(* Failures.                                                               *)

Busy == pc \notin {"dead", "idle"}

\* write_text truncates before it writes.
MayTear ==
  \/ UNCHANGED <<file, saved>>
  \/ /\ pc = "persist" /\ file.state # "missing"
     /\ file' = [state |-> "torn", id |-> NoLine] /\ saved' = FALSE

\* The child is killed; task_reject_on_worker_lost returns its message.
ChildDies ==
  /\ pc # "dead" /\ crashes < MaxCrashes /\ crashes' = crashes + 1
  /\ NoChild /\ pc' = "dead" /\ cur' = Predict /\ MayTear
  /\ queue' = IF Busy THEN <<cur>> \o queue ELSE queue
  /\ UNCHANGED <<disk, environ, row, chosen, restarted, clicks, faults>>

\* stop_all.sh kills what does not stop, start_all.sh reads .env again; a
\* message in hand returns at some time.
Restart ==
  /\ crashes < MaxCrashes /\ crashes' = crashes + 1
  /\ NoChild /\ pc' = "dead" /\ cur' = Predict /\ MayTear
  /\ queue' \in IF Busy THEN {<<cur>> \o queue, Append(queue, cur)} ELSE {queue}
  /\ environ' = [enabled |-> file'.state # "torn", id |-> file'.id]
  /\ restarted' = TRUE
  /\ UNCHANGED <<disk, row, chosen, clicks, faults>>

-----------------------------------------------------------------------------
Work ==
  \/ Fork \/ Receive \/ predict_task
  \/ _reload_predictor \/ _persist_model_id \/ PersistFails \/ Ack

Next ==
  \/ SendPredict \/ Work \/ ChildDies \/ Restart
  \/ \E m \in Models : on_apply_model(m)
  \/ \E m \in Models, k \in Kinds : CopyModel(m, k)

Spec == Init /\ [][Next]_vars

\* Beat goes on asking for predictions and the child works.
FairSpec == Spec /\ WF_vars(SendPredict) /\ WF_vars(Work)

-----------------------------------------------------------------------------
(* Safety.                                                                 *)

\* A prediction is stored under the id of the model that computed it, or
\* without one if its meta.json has none, however switches, failed loads and
\* replaced children interleave: _state keeps predictor and model_id in step
\* (src/tasks/ai.py 60-65, 83-88, 204-209).
RowsNamed == row.by # 0 => row.as \in {row.by, Empty}

\* "so the choice survives stack restart" (97): after a restart, until the
\* next switch, a child serves the model last chosen, if it can be loaded.
\* That needs a .env to write to, and no error while writing it.
ChoiceSurvivesRestart ==
  (restarted /\ saved /\ pc \in {"idle", "predict"} /\ predictor \in Models) =>
    predictor = chosen

-----------------------------------------------------------------------------
(* Liveness.                                                               *)

Bootable == environ.enabled /\ Load(ModelId) # NoOp

\* A switch to a model that cannot be loaded, or a store that could not be
\* opened while the predictor could, ends predictions for the rest of the
\* child's life and no longer: its replacement starts from the environment.
PredictionsResume == <>[]Bootable => []<>(predictor \in Models /\ store)
=============================================================================
