---------------------------- MODULE MCAiWorker ----------------------------
(***************************************************************************)
(* Two models; a child is replaced after two or three tasks.               *)
(***************************************************************************)
EXTENDS AiWorker

MCTwo      == {1, 2}
MCKinds    == {"good", "unnamed", "broken"}

\* MODEL_ID= as in .env.example, an id, no line, and no .env at all
MCEnvs     == {[state |-> "missing", id |-> NoLine]}
              \cup [state : {"whole"}, id : {1, Empty, NoLine}]
===========================================================================
