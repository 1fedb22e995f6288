----------------------------- MODULE MCWorkerPool -----------------------------
(* Model checking of WorkerPool. *)
EXTENDS WorkerPool, TLC

CONSTANTS t1, t2, j1, j2, j3, j4
=============================================================================
