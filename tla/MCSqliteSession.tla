-------------------------- MODULE MCSqliteSession --------------------------
(***************************************************************************)
(* Deployments of both backends, with and without disturbances.            *)
(***************************************************************************)
EXTENDS SqliteSession

Deployment(backend, complete, g, t) ==
  [backend |-> backend, complete |-> complete, glitches |-> g, timeouts |-> t]

MCDeployments ==
  {Deployment("sqlite", TRUE, 0, 0), Deployment("sqlite", TRUE, 1, 1),
   Deployment("sqlite", FALSE, 0, 0),
   Deployment("postgres", FALSE, 1, 1), Deployment("postgres", TRUE, 1, 2)}

MCGlitch == {Deployment("sqlite", TRUE, 1, 0)}
============================================================================
