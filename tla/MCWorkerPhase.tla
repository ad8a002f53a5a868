--------------------------- MODULE MCWorkerPhase ----------------------------
(* Model-checking instances of the worker phases: one or two episode jobs, *)
(* one attempt each, a standing clock.                                     *)
EXTENDS WorkerPhase
=============================================================================
