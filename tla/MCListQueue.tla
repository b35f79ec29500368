---------------------------- MODULE MCListQueue ----------------------------
(* Bounds for TLC: four jobs, two workers, a limit of one element and two  *)
(* goroutines that push, so that the list can exceed its limit and a push  *)
(* can find it full.                                                       *)
EXTENDS ListQueue

CONSTANTS j1, j2, j3, j4, w1, w2

MCJobs == {j1, j2, j3, j4}
MCWorkers == {w1, w2}
=============================================================================
