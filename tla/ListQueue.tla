----------------------------- MODULE ListQueue -----------------------------
(***************************************************************************)
(* The second implementation of queue.Queuer: queue.ListQueue              *)
(* (list_queue.go) with the workers of worker.go and the synchronous jobs  *)
(* of job.go.  Pushes append to a linked list under a lock; the dispatcher *)
(* looks at the front, hands it to a worker and removes it afterwards, so  *)
(* an element is still in the list while its callback runs.                *)
(*                                                                         *)
(* Abstractions.  Run and the loop that stops the workers are one step     *)
(* each: the goroutines they start or stop go on in their own steps.  The  *)
(* lock is held for single reads and writes of the list, which are single  *)
(* steps here.  The callers keep the contract of WorkerQueue: no Push is   *)
(* between its check of running and its append when Terminate stores 0     *)
(* (the late push is studied there).  Under it no goroutine uses the pool  *)
(* once it is closed (PoolOpenWhileUsed), so the panics of such a use have *)
(* no action here.                                                         *)
(***************************************************************************)
EXTENDS Integers, Sequences, FiniteSets

CONSTANTS
  Jobs,              \* jobs, each pushed at most once
  Workers,           \* maxThread workers
  MaxLen,            \* maxLen of the list, 0 for none
  MaxPushers         \* bound: goroutines inside Push at the same time

ASSUME ListQueueAssumption ==
  /\ IsFiniteSet(Jobs)
  /\ IsFiniteSet(Workers)
  /\ MaxLen \in Nat
  /\ MaxPushers \in Nat \ {0}

VARIABLES
  wg,                \* counter of ListQueue.wg
  list,              \* the jobs in ListQueue.list, front first
  pool,              \* workers whose jobChan is in workerPool
  job,               \* where each job is: see JobStates
  opc,               \* program counter of the owner: Run, then Terminate
  dpc,               \* program counter of the dispatcher
  dworker,           \* the worker the dispatcher has taken, as a set
  wpc,               \* program counter of each worker
  wjob               \* the job each worker holds, a singleton or empty set

vars == <<wg, list, pool, job, opc, dpc, dworker, wpc, wjob>>

(* "test", "add" and "append" are inside Push: before the test of the      *)
(* length, before wg.Add and before PushBack.  "listed": in the list, not  *)
(* handed over.  "ran": the callback has returned, wg.Done not called.     *)
JobStates == {"new", "dropped", "test", "add", "append", "listed", "running", "ran", "done"}
OwnerStates == {"new", "up", "waiting", "stopping", "closing", "down"}
DispatcherStates == {"off", "look", "take", "send", "remove", "exited"}
WorkerStates == {"off", "idle", "running", "return", "done", "quitting", "exited"}

Running == opc = "up"
PoolClosed == opc = "down"

In(states) == {j \in Jobs : job[j] \in states}
Pushing == In({"test", "add", "append"})
Passed == In({"add", "append"})
Outstanding == In({"append", "listed", "running", "ran"})

(* syncJob.Job closes the result channel whether the callback fails or     *)
(* not, so whoever reads from Wait gets an answer then, and only then.     *)
Answered(j) == job[j] \in {"ran", "done"}

TypeOK ==
  /\ wg \in Nat
  /\ list \in Seq(Jobs)
  /\ pool \subseteq Workers
  /\ job \in [Jobs -> JobStates]
  /\ opc \in OwnerStates
  /\ dpc \in DispatcherStates
  /\ dworker \subseteq Workers
  /\ wpc \in [Workers -> WorkerStates]
  /\ wjob \in [Workers -> SUBSET Jobs]

Init ==
  /\ wg = 0
  /\ list = <<>>
  /\ pool = {}
  /\ job = [j \in Jobs |-> "new"]
  /\ opc = "new"
  /\ dpc = "off"
  /\ dworker = {}
  /\ wpc = [w \in Workers |-> "off"]
  /\ wjob = [w \in Workers |-> {}]

-----------------------------------------------------------------------------
(* The owner: Run and Terminate. *)

(* Every worker puts its jobChan into the pool before its goroutine starts. *)
RunQueue ==
  /\ opc = "new"
  /\ opc' = "up"
  /\ pool' = Workers
  /\ wpc' = [w \in Workers |-> "idle"]
  /\ dpc' = "look"
  /\ UNCHANGED <<wg, list, job, dworker, wjob>>

TerminateStore ==
  /\ opc = "up"
  /\ Pushing = {}
  /\ opc' = "waiting"
  /\ UNCHANGED <<wg, list, pool, job, dpc, dworker, wpc, wjob>>

(* Mutant of TerminateWait: wg.Wait is missing. *)
TerminateWait_NoWait ==
  /\ opc = "waiting"
  /\ opc' = "stopping"
  /\ UNCHANGED <<wg, list, pool, job, dpc, dworker, wpc, wjob>>

TerminateWait ==
  /\ opc = "waiting"
  /\ wg = 0
  /\ opc' = "stopping"
  /\ UNCHANGED <<wg, list, pool, job, dpc, dworker, wpc, wjob>>

StopWorkers ==
  /\ opc = "stopping"
  /\ opc' = "closing"
  /\ UNCHANGED <<wg, list, pool, job, dpc, dworker, wpc, wjob>>

ClosePool ==
  /\ opc = "closing"
  /\ opc' = "down"
  /\ UNCHANGED <<wg, list, pool, job, dpc, dworker, wpc, wjob>>

-----------------------------------------------------------------------------
(* Callers of Push. *)

PushCheck(j) ==
  /\ job[j] = "new"
  /\ Cardinality(Pushing) < MaxPushers
  /\ job' = [job EXCEPT ![j] = IF Running THEN "test" ELSE "dropped"]
  /\ UNCHANGED <<wg, list, pool, opc, dpc, dworker, wpc, wjob>>

(* The read lock is released before the element is appended. *)
PushTest(j) ==
  /\ job[j] = "test"
  /\ job' = [job EXCEPT ![j] = IF MaxLen > 0 /\ Len(list) > MaxLen THEN "dropped" ELSE "add"]
  /\ UNCHANGED <<wg, list, pool, opc, dpc, dworker, wpc, wjob>>

PushAdd(j) ==
  /\ job[j] = "add"
  /\ wg' = wg + 1
  /\ job' = [job EXCEPT ![j] = "append"]
  /\ UNCHANGED <<list, pool, opc, dpc, dworker, wpc, wjob>>

(* Mutant of PushAppend: PushFront instead of PushBack. *)
PushAppend_Front(j) ==
  /\ job[j] = "append"
  /\ list' = <<j>> \o list
  /\ job' = [job EXCEPT ![j] = "listed"]
  /\ UNCHANGED <<wg, pool, opc, dpc, dworker, wpc, wjob>>

PushAppend(j) ==
  /\ job[j] = "append"
  /\ list' = Append(list, j)
  /\ job' = [job EXCEPT ![j] = "listed"]
  /\ UNCHANGED <<wg, pool, opc, dpc, dworker, wpc, wjob>>

-----------------------------------------------------------------------------
(* The dispatcher. *)

(* Mutant of DispatchLook: the loop ends with the queue, whatever is left. *)
DispatchLook_EndsAtOnce ==
  /\ dpc = "look"
  /\ dpc' = IF Running THEN "take" ELSE "exited"
  /\ Running => list # <<>>
  /\ UNCHANGED <<wg, list, pool, job, opc, dworker, wpc, wjob>>

(* An empty list makes it sleep 10 ms and look again while the queue runs. *)
DispatchLook ==
  /\ dpc = "look"
  /\ \/ list # <<>> /\ dpc' = "take"
     \/ list = <<>> /\ ~Running /\ dpc' = "exited"
  /\ UNCHANGED <<wg, list, pool, job, opc, dworker, wpc, wjob>>

DispatchTake ==
  /\ dpc = "take"
  /\ \E w \in pool :
       /\ dworker' = {w}
       /\ pool' = pool \ {w}
  /\ dpc' = "send"
  /\ UNCHANGED <<wg, list, job, opc, wpc, wjob>>

(* The rendezvous on the jobChan; ele is still the front of the list. *)
DispatchSend ==
  /\ dpc = "send"
  /\ \E w \in dworker :
       /\ wpc[w] = "idle"
       /\ wpc' = [wpc EXCEPT ![w] = "running"]
       /\ wjob' = [wjob EXCEPT ![w] = {Head(list)}]
  /\ job' = [job EXCEPT ![Head(list)] = "running"]
  /\ dworker' = {}
  /\ dpc' = "remove"
  /\ UNCHANGED <<wg, list, pool, opc>>

(* Mutant of DispatchRemove: the element stays at the front. *)
DispatchRemove_Kept ==
  /\ dpc = "remove"
  /\ dpc' = "look"
  /\ UNCHANGED <<wg, list, pool, job, opc, dworker, wpc, wjob>>

DispatchRemove ==
  /\ dpc = "remove"
  /\ list' = Tail(list)
  /\ dpc' = "look"
  /\ UNCHANGED <<wg, pool, job, opc, dworker, wpc, wjob>>

-----------------------------------------------------------------------------
(* The workers. *)

(* Job returns: the callback has run and a synchronous job has answered. *)
WorkerRan(w) ==
  /\ wpc[w] = "running"
  /\ job' = [j \in Jobs |-> IF j \in wjob[w] THEN "ran" ELSE job[j]]
  /\ wpc' = [wpc EXCEPT ![w] = "return"]
  /\ UNCHANGED <<wg, list, pool, opc, dpc, dworker, wjob>>

(* Mutant of WorkerReturn: the jobChan is not put back. *)
WorkerReturn_Forgotten(w) ==
  /\ wpc[w] = "return"
  /\ wpc' = [wpc EXCEPT ![w] = "done"]
  /\ UNCHANGED <<wg, list, pool, job, opc, dpc, dworker, wjob>>

WorkerReturn(w) ==
  /\ wpc[w] = "return"
  /\ pool' = pool \cup {w}
  /\ wpc' = [wpc EXCEPT ![w] = "done"]
  /\ UNCHANGED <<wg, list, job, opc, dpc, dworker, wjob>>

WorkerDone(w) ==
  /\ wpc[w] = "done"
  /\ wg' = wg - 1
  /\ job' = [j \in Jobs |-> IF j \in wjob[w] THEN "done" ELSE job[j]]
  /\ wjob' = [wjob EXCEPT ![w] = {}]
  /\ wpc' = [wpc EXCEPT ![w] = "idle"]
  /\ UNCHANGED <<list, pool, opc, dpc, dworker>>

WorkerQuit(w) ==
  /\ wpc[w] = "idle"
  /\ opc \in {"closing", "down"}
  /\ wpc' = [wpc EXCEPT ![w] = "quitting"]
  /\ UNCHANGED <<wg, list, pool, job, opc, dpc, dworker, wjob>>

(* <-w.pool takes any jobChan, or returns nil once the pool is closed and  *)
(* empty; then the worker closes its own jobChan and returns.              *)
WorkerExit(w) ==
  /\ wpc[w] = "quitting"
  /\ \E v \in IF pool = {} /\ PoolClosed THEN {w} ELSE pool : pool' = pool \ {v}
  /\ wpc' = [wpc EXCEPT ![w] = "exited"]
  /\ UNCHANGED <<wg, list, job, opc, dpc, dworker, wjob>>

-----------------------------------------------------------------------------
Owner == RunQueue \/ TerminateStore \/ TerminateWait \/ StopWorkers \/ ClosePool
Push(j) == PushCheck(j) \/ PushTest(j) \/ PushAdd(j) \/ PushAppend(j)
Dispatcher == DispatchLook \/ DispatchTake \/ DispatchSend \/ DispatchRemove
Worker(w) == WorkerRan(w) \/ WorkerReturn(w) \/ WorkerDone(w) \/ WorkerQuit(w) \/ WorkerExit(w)

AllEnded == opc = "down" /\ dpc = "exited" /\ \A w \in Workers : wpc[w] = "exited"

Stopped ==
  /\ AllEnded
  /\ In({"new"}) = {}
  /\ UNCHANGED vars

Next ==
  \/ Owner
  \/ Dispatcher
  \/ \E j \in Jobs : Push(j)
  \/ \E w \in Workers : Worker(w)
  \/ Stopped

Spec == Init /\ [][Next]_vars

(* As in WorkerQueue: started goroutines are scheduled, callbacks return,  *)
(* a call of Push or Terminate that has begun goes on.                     *)
OwnerGoesOn == opc \notin {"new", "up"} /\ Owner
PushGoesOn(j) == job[j] # "new" /\ Push(j)

FairSpec ==
  /\ Spec
  /\ WF_vars(OwnerGoesOn)
  /\ WF_vars(Dispatcher)
  /\ \A j \in Jobs : WF_vars(PushGoesOn(j))
  /\ \A w \in Workers : WF_vars(Worker(w))

-----------------------------------------------------------------------------
(* Properties of list_queue.go. *)

(* The WaitGroup counts the jobs between wg.Add in Push and wg.Done in the *)
(* worker, which the length of the list does not.                          *)
WgCountsOutstanding == wg = Cardinality(Outstanding)

(* Once wg.Wait has returned in Terminate, every pushed job has run to its *)
(* end or was refused.                                                     *)
TerminateDrains ==
  opc \in {"stopping", "closing", "down"} =>
    \A j \in Jobs : job[j] \in {"new", "dropped", "done"}

(* The dispatcher does not hold a worker, and no worker returns its        *)
(* jobChan, once the workers are told to stop and the pool is closed: the  *)
(* element that is still in the list then has been handed over.            *)
PoolOpenWhileUsed ==
  opc \in {"stopping", "closing", "down"} =>
    /\ dpc \notin {"take", "send"}
    /\ \A w \in Workers : wpc[w] \notin {"running", "return", "done"}

(* The abstract task queue: a job is accepted when it is appended and      *)
(* starts when a worker receives it, before it leaves the list.            *)
Phase == CASE opc = "new" -> "new"
           [] opc = "up" -> "open"
           [] opc = "waiting" -> "draining"
           [] OTHER -> "closed"

TQ == INSTANCE TaskQueue WITH
        phase <- Phase,
        waiting <- IF dpc = "remove" THEN Tail(list) ELSE list,
        executing <- In({"running"}),
        finished <- In({"ran", "done"})

(* The list queue implements the same abstract queue as the channel queue, *)
(* with its fairness.                                                      *)
ImplementsTaskQueue == TQ!FairSpec

(* Whoever waits for a synchronous job that passed the tests of Push gets  *)
(* an answer, also when Terminate is called meanwhile.                     *)
AcceptedJobsAnswered == \A j \in Jobs : (job[j] = "add") ~> Answered(j)

(* Terminate returns, and the dispatcher and the workers all end.          *)
TerminateStopsAll == (opc = "waiting") ~> AllEnded
=============================================================================
