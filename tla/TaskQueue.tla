----------------------------- MODULE TaskQueue -----------------------------
(***************************************************************************)
(* What a task queue (queue.Queuer) promises to its callers: the jobs it   *)
(* accepts start in the order it accepted them, each of them runs exactly  *)
(* once, and it is closed only when none of them is left.  WorkerQueue,    *)
(* the queue built from channels and goroutines, implements this module.   *)
(***************************************************************************)
EXTENDS Naturals, Sequences

CONSTANT Jobs        \* the jobs callers may push

VARIABLES
  phase,             \* "new", "open", "draining" or "closed"
  waiting,           \* accepted jobs that have not started, oldest first
  executing,         \* jobs whose callback runs
  finished           \* jobs whose callback has returned

vars == <<phase, waiting, executing, finished>>

Known(j) == (\E i \in 1..Len(waiting) : waiting[i] = j) \/ j \in executing \/ j \in finished

Init ==
  /\ phase = "new"
  /\ waiting = <<>>
  /\ executing = {}
  /\ finished = {}

Open ==
  /\ phase = "new"
  /\ phase' = "open"
  /\ UNCHANGED <<waiting, executing, finished>>

Accept(j) ==
  /\ phase = "open"
  /\ ~Known(j)
  /\ waiting' = Append(waiting, j)
  /\ UNCHANGED <<phase, executing, finished>>

Begin ==
  /\ phase \in {"open", "draining"}
  /\ waiting # <<>>
  /\ executing' = executing \cup {Head(waiting)}
  /\ waiting' = Tail(waiting)
  /\ UNCHANGED <<phase, finished>>

Finish(j) ==
  /\ j \in executing
  /\ executing' = executing \ {j}
  /\ finished' = finished \cup {j}
  /\ UNCHANGED <<phase, waiting>>

Drain ==
  /\ phase = "open"
  /\ phase' = "draining"
  /\ UNCHANGED <<waiting, executing, finished>>

Close ==
  /\ phase = "draining"
  /\ waiting = <<>>
  /\ executing = {}
  /\ phase' = "closed"
  /\ UNCHANGED <<waiting, executing, finished>>

Next == Open \/ Begin \/ Drain \/ Close \/ \E j \in Jobs : Accept(j) \/ Finish(j)

Spec == Init /\ [][Next]_vars

(* Callers decide when to open the queue, what to push and when to close   *)
(* it; a queue that is open or draining owes its callers every accepted    *)
(* job, and a queue that drains owes them the end of it.                   *)
Fairness ==
  /\ WF_vars(Begin)
  /\ \A j \in Jobs : WF_vars(Finish(j))
  /\ WF_vars(Close)

FairSpec == Spec /\ Fairness
=============================================================================
