--------------------------- MODULE MCWorkerQueue ---------------------------
(* Bounds for TLC: three jobs, two workers and a channel of one slot or    *)
(* two, so that a push can block and both workers can be busy.             *)
EXTENDS WorkerQueue

CONSTANTS j1, j2, j3, w1, w2

MCJobs == {j1, j2, j3}
MCWorkers == {w1, w2}
=============================================================================
