--------------------------- MODULE AiWorkerProofs ---------------------------
(***************************************************************************)
(* Safety of the ai-worker for every set of models and artifacts, every    *)
(* .env, every number of tasks per child, and any number of switches,      *)
(* kills, restarts and failures.                                           *)
(*                                                                         *)
(* The inductive invariant follows the chosen model from the line in .env  *)
(* to the environment of a restarted parent and on to its children, and    *)
(* keeps the two halves of _state in step.                                 *)
(***************************************************************************)
EXTENDS AiWorker, TLAPS

\* The name in _state is that of the predictor, or none.
NameInv == predictor \in Models => name \in {predictor, Empty}

\* set_model_task has a model in hand.
HandInv == pc \in {"load", "persist"} => cur \in Models

\* A saved choice is in .env, and in the environment since a restart.
SavedInv ==
  saved => /\ chosen \in Models /\ file.id = chosen
           /\ restarted => environ.id = chosen

\* A child forked since then serves it, unless it is switching again.
ServedInv ==
  (restarted /\ saved /\ pc # "persist" /\ predictor \in Models) => predictor = chosen

IInv == TypeOK /\ RowsNamed /\ NameInv /\ HandInv /\ SavedInv /\ ServedInv

-----------------------------------------------------------------------------

LEMMA NoModel == 0 \notin Models /\ -1 \notin Models /\ Models \subseteq Nat
  BY ConstantTypes DEF ConstantTypes

\* What loading returns, and the name it goes by.
LEMMA LoadedName ==
  ASSUME NEW id \in Models \cup {Empty}
  PROVE  /\ Load(id) \in Models \cup {NoOp}
         /\ Load(id) \in Models /\ id # Empty => Load(id) = id
         /\ NameOf(Load(id), id) \in Models \cup {Empty}
         /\ Load(id) \in Models => NameOf(Load(id), id) \in {Load(id), Empty}
  <1>1. \A m : Loadable(m) => m \in Models
    BY DEF Loadable, Present
  <1>2. id = Empty => Load(id) \in Models \cup {NoOp}
    BY <1>1 DEF Load
  <1>3. id # Empty => id \in Models /\ Load(id) \in {id, NoOp}
    BY DEF Load
  <1>4. NoOp \notin Models
    BY NoModel DEF NoOp
  <1> QED
    BY <1>2, <1>3, <1>4 DEF NameOf

LEMMA ModelIdType == TypeOK => ModelId \in Models \cup {Empty}
  BY NoModel DEF TypeOK, ModelId, NoLine, Empty

LEMMA InitIInv == Init => IInv
  <1> SUFFICES ASSUME Init PROVE IInv
    OBVIOUS
  <1>1. TypeOK
    <2>1. file \in [state : {"missing", "whole", "torn"}, id : Models \cup {Empty, NoLine}]
      BY EnvTypes DEF Init, EnvTypes
    <2>2. environ \in [enabled : BOOLEAN, id : Models \cup {Empty, NoLine}]
      BY <2>1 DEF Init
    <2>3. row \in [by : Models \cup {0}, as : Models \cup {Empty}] /\ done \in 0..(MaxTasks - 1)
      BY ConstantTypes DEF ConstantTypes, Init, Empty
    <2>4. clicks \in 0..MaxClicks /\ crashes \in 0..MaxCrashes /\ faults \in 0..MaxFaults
      BY ConstantTypes DEF ConstantTypes, Init
    <2>5. store \in BOOLEAN /\ saved \in BOOLEAN /\ restarted \in BOOLEAN
      BY DEF Init
    <2>6. /\ disk \in [Models -> {"absent"} \cup Kinds] /\ queue = <<>> /\ pc = "dead"
          /\ cur = Predict /\ predictor = Unset /\ name = Empty /\ chosen = 0
      BY DEF Init
    <2> QED
      BY <2>1, <2>2, <2>3, <2>4, <2>5, <2>6 DEF TypeOK
  <1> QED
    BY <1>1, NoModel DEF IInv, Init, RowsNamed, NameInv, HandInv, SavedInv, ServedInv, Unset

\* Initialising a child, eagerly or with its first task.
LEMMA InitResources ==
  ASSUME IInv, init_ai_resources \/ UNCHANGED <<child, faults>>,
         UNCHANGED <<file, environ, chosen, saved, restarted>>
  PROVE  /\ predictor' \in Models \cup {NoOp, Unset} /\ name' \in Models \cup {Empty}
         /\ store' \in BOOLEAN /\ faults' \in 0..MaxFaults
         /\ NameInv'
         /\ (restarted /\ saved /\ pc # "persist" /\ predictor' \in Models) => predictor' = chosen
  <1>1. CASE UNCHANGED <<child, faults>>
    BY <1>1 DEF IInv, TypeOK, NameInv, ServedInv, child
  <1>2. CASE init_ai_resources /\ predictor = Unset /\ environ.enabled
    <2>1. ModelId \in Models \cup {Empty}
      BY ModelIdType DEF IInv
    <2>2. predictor' = Load(ModelId) /\ name' = NameOf(Load(ModelId), ModelId)
      BY <1>2 DEF init_ai_resources
    <2>3. store' \in BOOLEAN /\ faults' \in 0..MaxFaults
      <3>1. store \in BOOLEAN /\ faults \in 0..MaxFaults
        BY DEF IInv, TypeOK
      <3>2. (UNCHANGED <<store, faults>>) \/ OpenStore
        BY <1>2 DEF init_ai_resources
      <3>3. CASE UNCHANGED <<store, faults>>
        BY <3>1, <3>3
      <3>4. CASE OpenStore
        <4>1. faults' \in 0..MaxFaults
          BY <3>1, <3>4, ConstantTypes DEF ConstantTypes, OpenStore
        <4>2. store' \in BOOLEAN
          BY <3>1, <3>4 DEF OpenStore
        <4> QED
          BY <4>1, <4>2
      <3> QED
        BY <3>2, <3>3, <3>4
    <2>4. restarted /\ saved => ModelId = chosen /\ chosen \in Models
      BY NoModel DEF IInv, SavedInv, ModelId, NoLine
    <2> QED
      BY <2>1, <2>2, <2>3, <2>4, LoadedName, NoModel DEF NameInv, Empty
  <1>3. CASE init_ai_resources /\ ~(predictor = Unset /\ environ.enabled)
    BY <1>1, <1>3 DEF init_ai_resources
  <1> QED
    BY <1>1, <1>2, <1>3

LEMMA ForkKeeps == ASSUME IInv, Fork PROVE IInv'
  <1>1. /\ pc' = "idle" /\ pc = "dead"
        /\ UNCHANGED <<disk, file, environ, queue, cur, done, row, chosen, saved, restarted,
                       clicks, crashes>>
    BY DEF Fork, ghost
  <1>2. init_ai_resources \/ UNCHANGED <<child, faults>>
    BY DEF Fork
  <1> QED
    BY <1>1, <1>2, InitResources DEF IInv, TypeOK, RowsNamed, HandInv, SavedInv, ServedInv

LEMMA PredictKeeps == ASSUME IInv, predict_task PROVE IInv'
  <1>1. /\ pc = "predict" /\ pc' = "ack"
        /\ UNCHANGED <<disk, file, environ, queue, cur, done, chosen, saved, restarted,
                       clicks, crashes>>
        /\ row' = row \/ (predictor' \in Models /\ row' = [by |-> predictor', as |-> name'])
    BY DEF predict_task, ghost
  <1>2. init_ai_resources \/ UNCHANGED <<child, faults>>
    BY DEF predict_task
  <1>3. row' \in [by : Models \cup {0}, as : Models \cup {Empty}] /\ RowsNamed'
    BY <1>1, <1>2, InitResources DEF IInv, TypeOK, RowsNamed, NameInv
  <1> QED
    BY <1>1, <1>2, <1>3, InitResources DEF IInv, TypeOK, HandInv, SavedInv, ServedInv

LEMMA ReloadKeeps == ASSUME IInv, _reload_predictor PROVE IInv'
  <1>1. /\ pc = "load" /\ pc' = "persist"
        /\ predictor' = Load(cur) /\ name' = NameOf(Load(cur), cur) /\ cur \in Models
        /\ UNCHANGED <<disk, file, environ, queue, cur, store, done, row, chosen, saved,
                       restarted, clicks, crashes, faults>>
    BY DEF _reload_predictor, IInv, HandInv, ghost, count
  <1> QED
    BY <1>1, LoadedName DEF IInv, TypeOK, RowsNamed, NameInv, HandInv, SavedInv, ServedInv

\* Writing the choice, or failing to.
LEMMA PersistKeeps == ASSUME IInv, _persist_model_id \/ PersistFails PROVE IInv'
  <1>1. /\ pc = "persist" /\ pc' = "ack" /\ cur \in Models
        /\ chosen' = cur /\ restarted' = FALSE /\ saved' \in BOOLEAN
        /\ UNCHANGED <<disk, environ, queue, cur, child, done, row, clicks, crashes>>
    BY DEF _persist_model_id, PersistFails, Switched, IInv, HandInv, count
  <1>2. /\ faults' \in 0..MaxFaults
        /\ file' \in [state : {"missing", "whole", "torn"}, id : Models \cup {Empty, NoLine}]
        /\ saved' => file'.id = cur
    <2>1. file.state \in {"missing", "whole", "torn"} /\ file.id \in Models \cup {Empty, NoLine}
          /\ file = [state |-> file.state, id |-> file.id] /\ faults \in 0..MaxFaults
      BY DEF IInv, TypeOK
    <2>2. CASE _persist_model_id
      BY <1>1, <2>1, <2>2 DEF _persist_model_id, Switched, count
    <2>3. CASE PersistFails
      <3>1. file' = file /\ ~saved'
        BY <2>3 DEF PersistFails, Switched
      <3>2. faults' \in 0..MaxFaults
        BY <2>1, <2>3, ConstantTypes DEF ConstantTypes, PersistFails
      <3> QED
        BY <2>1, <3>1, <3>2
    <2> QED
      BY <2>2, <2>3
  <1>3. TypeOK'
    BY <1>1, <1>2 DEF IInv, TypeOK, child
  <1>4. RowsNamed' /\ NameInv' /\ HandInv'
    BY <1>1 DEF IInv, RowsNamed, NameInv, HandInv, child
  <1>5. SavedInv' /\ ServedInv'
    BY <1>1, <1>2 DEF SavedInv, ServedInv
  <1> QED
    BY <1>3, <1>4, <1>5 DEF IInv

LEMMA NoChildType ==
  ASSUME NoChild
  PROVE  /\ predictor' = Unset /\ name' = Empty /\ store' \in BOOLEAN
         /\ done' \in 0..(MaxTasks - 1)
  <1>1. store' \in BOOLEAN
    BY DEF NoChild
  <1> QED
    BY <1>1, ConstantTypes DEF ConstantTypes, NoChild

LEMMA AckKeeps == ASSUME IInv, Ack PROVE IInv'
  <1>1. /\ pc = "ack" /\ pc' \in {"dead", "idle"} /\ cur' = Predict
        /\ UNCHANGED <<disk, file, environ, queue, row, chosen, saved, restarted, clicks,
                       crashes, faults>>
        /\ UNCHANGED child \/ NoChild
    BY DEF Ack, ghost, count
  <1>2. done' \in 0..(MaxTasks - 1)
    BY ConstantTypes DEF ConstantTypes, IInv, TypeOK, Ack, NoChild
  <1>3. CASE UNCHANGED child
    <2>1. TypeOK'
      BY <1>1, <1>2, <1>3 DEF IInv, TypeOK, child
    <2> QED
      BY <1>1, <1>3, <2>1 DEF IInv, RowsNamed, NameInv, HandInv, SavedInv, ServedInv, child
  <1>4. CASE NoChild
    <2>1. TypeOK'
      BY <1>1, <1>4, NoChildType DEF IInv, TypeOK
    <2> QED
      BY <1>1, <1>4, <2>1, NoModel DEF IInv, RowsNamed, NameInv, HandInv, SavedInv, ServedInv,
         NoChild, Unset
  <1> QED
    BY <1>1, <1>3, <1>4

\* A kill, alone or with the whole stack.
LEMMA DeathKeeps == ASSUME IInv, ChildDies \/ Restart PROVE IInv'
  <1>1. /\ NoChild /\ pc' = "dead" /\ cur' = Predict /\ MayTear
        /\ UNCHANGED <<disk, row, chosen, clicks, faults>>
    BY DEF ChildDies, Restart
  <1>2. /\ file' \in [state : {"missing", "whole", "torn"}, id : Models \cup {Empty, NoLine}]
        /\ saved' \in BOOLEAN
        /\ saved' => saved /\ file' = file
    <2>1. saved \in BOOLEAN
          /\ file \in [state : {"missing", "whole", "torn"}, id : Models \cup {Empty, NoLine}]
      BY DEF IInv, TypeOK
    <2>2. CASE file' = file /\ saved' = saved
      BY <2>1, <2>2
    <2>3. CASE file' = [state |-> "torn", id |-> NoLine] /\ saved' = FALSE
      <3>1. saved' \in BOOLEAN /\ ~saved'
        BY <2>3
      <3> QED
        BY <2>3, <3>1
    <2> QED
      BY <1>1, <2>2, <2>3 DEF MayTear
  <1>3. queue' \in Seq(Models \cup {Predict})
    <2>1. queue \in Seq(Models \cup {Predict}) /\ cur \in Models \cup {Predict}
      BY DEF IInv, TypeOK
    <2>2. queue' \in {queue, <<cur>> \o queue, Append(queue, cur)}
      BY DEF ChildDies, Restart
    <2>3. <<cur>> \o queue \in Seq(Models \cup {Predict})
          /\ Append(queue, cur) \in Seq(Models \cup {Predict})
      BY <2>1
    <2> QED
      BY <2>1, <2>2, <2>3
  <1>4. crashes' \in 0..MaxCrashes
    BY ConstantTypes DEF ConstantTypes, IInv, TypeOK, ChildDies, Restart
  <1>5. /\ environ' \in [enabled : BOOLEAN, id : Models \cup {Empty, NoLine}]
        /\ restarted' \in BOOLEAN
        /\ (environ' = environ /\ restarted' = restarted) \/ environ'.id = file'.id
    <2>1. environ \in [enabled : BOOLEAN, id : Models \cup {Empty, NoLine}] /\ restarted \in BOOLEAN
      BY DEF IInv, TypeOK
    <2>2. CASE ChildDies
      BY <2>1, <2>2 DEF ChildDies
    <2>3. CASE Restart
      BY <1>2, <2>3 DEF Restart
    <2> QED
      BY <2>2, <2>3
  <1>6. TypeOK'
    BY <1>1, <1>2, <1>3, <1>4, <1>5, NoChildType DEF IInv, TypeOK
  <1>7. SavedInv'
    BY <1>1, <1>2, <1>5 DEF IInv, SavedInv
  <1> QED
    BY <1>1, <1>6, <1>7, NoModel DEF IInv, RowsNamed, NameInv, HandInv, ServedInv, NoChild, Unset

LEMMA NextIInv == IInv /\ [Next]_vars => IInv'
  <1> SUFFICES ASSUME IInv, [Next]_vars PROVE IInv'
    OBVIOUS
  <1>1. CASE SendPredict
    BY <1>1 DEF SendPredict, IInv, TypeOK, RowsNamed, NameInv, HandInv, SavedInv, ServedInv,
       child, ghost, count
  <1>2. ASSUME NEW m \in Models, on_apply_model(m) PROVE IInv'
    BY <1>2, ConstantTypes DEF ConstantTypes, on_apply_model, IInv, TypeOK, RowsNamed, NameInv,
       HandInv, SavedInv, ServedInv, child, ghost
  <1>3. ASSUME NEW m \in Models, NEW k \in Kinds, CopyModel(m, k) PROVE IInv'
    BY <1>3 DEF CopyModel, IInv, TypeOK, RowsNamed, NameInv, HandInv, SavedInv, ServedInv,
       child, ghost, count
  <1>4. CASE Receive
    BY <1>4 DEF Receive, IInv, TypeOK, RowsNamed, NameInv, HandInv, SavedInv, ServedInv,
       child, ghost, count
  <1>5. CASE UNCHANGED vars
    BY <1>5 DEF vars, IInv, TypeOK, RowsNamed, NameInv, HandInv, SavedInv, ServedInv, child,
       ghost, count
  <1> QED
    BY <1>1, <1>2, <1>3, <1>4, <1>5, ForkKeeps, PredictKeeps, ReloadKeeps, PersistKeeps,
       AckKeeps, DeathKeeps DEF Next, Work

THEOREM InductiveInvariant == Spec => []IInv
  <1> QED
    BY InitIInv, NextIInv, PTL DEF Spec

-----------------------------------------------------------------------------
\* Every variable keeps its type; a child never runs more than MaxTasks tasks
\* (src/tasks/ai.py, --max-tasks-per-child).
THEOREM TypeCorrect == Spec => []TypeOK
  <1>1. IInv => TypeOK
    BY DEF IInv
  <1> QED
    BY <1>1, InductiveInvariant, PTL

\* Predictions carry the id of the model that computed them, or none, through
\* any number of switches, failed loads and replaced children (60-65, 83-88).
THEOREM PredictionsAreNamed == Spec => []RowsNamed
  <1>1. IInv => RowsNamed
    BY DEF IInv
  <1> QED
    BY <1>1, InductiveInvariant, PTL

\* The chosen model survives a restart of the stack, as _persist_model_id says
\* (96-104), unless writing .env failed or was cut short.
THEOREM ChoiceIsKept == Spec => []ChoiceSurvivesRestart
  <1>1. IInv => ChoiceSurvivesRestart
    BY DEF IInv, ServedInv, ChoiceSurvivesRestart
  <1> QED
    BY <1>1, InductiveInvariant, PTL
=============================================================================
