---------------------------- MODULE WorkerQueue ----------------------------
(***************************************************************************)
(* The notification queue of the event router: queue.Queue (chan_queue.go) *)
(* and its workers (worker.go), at the granularity of channel operations,  *)
(* atomics and WaitGroup calls.  The goroutines are the owner (main: Run,  *)
(* later Terminate), the dispatcher, the workers, and one caller of Push   *)
(* for every job, so any number of pushes may overlap.                     *)
(*                                                                         *)
(* Abstractions.  workerPool is a set: a worker's jobChan is in it at most *)
(* once (PoolHoldsFreeWorkers) and workers are interchangeable, so the     *)
(* order in which the buffered channel returns them is left open.  The     *)
(* rendezvous on an unbuffered jobChan is one joint step of the dispatcher *)
(* and the worker.  A panic is a send on a closed channel or a negative    *)
(* WaitGroup counter; it ends the process.                                 *)
(***************************************************************************)
EXTENDS Integers, Sequences, FiniteSets

CONSTANTS
  Jobs,              \* jobs, each pushed at most once
  Workers,           \* maxThread workers
  MaxCapacity,       \* buffer of the jobQueue channel
  NoWorker,          \* the nil channel received from a closed workerPool
  LatePush           \* may a Push overlap the store in Terminate?

ASSUME WorkerQueueAssumption ==
  /\ IsFiniteSet(Jobs)
  /\ IsFiniteSet(Workers)
  /\ MaxCapacity \in Nat \ {0}
  /\ NoWorker \notin Workers
  /\ LatePush \in BOOLEAN

VARIABLES
  wg,                \* counter of Queue.wg
  jobQueue,          \* contents of the jobQueue channel
  pool,              \* contents of workerPool: workers whose jobChan is in it
  quit,              \* workers whose quit channel is closed
  job,               \* where each job is: see JobStates
  opc,               \* program counter of the owner
  dpc,               \* program counter of the dispatcher
  djob,              \* the job the dispatcher holds, a singleton or empty set
  dworker,           \* the worker the dispatcher sends to
  wpc,               \* program counter of each worker
  wjob,              \* the job each worker holds, a singleton or empty set
  process            \* "alive" until a goroutine panics

vars == <<wg, jobQueue, pool, quit, job, opc, dpc, djob, dworker, wpc, wjob, process>>

ownerVars == <<opc, quit>>
dispatcherVars == <<dpc, djob, dworker>>
workerVars == <<wpc, wjob>>

(* "new": not pushed.  "add" and "send": inside Push, before wg.Add and    *)
(* before the channel send.  "queued": in the channel.  "held": taken by   *)
(* the dispatcher.  "running": its callback runs.  "ran": the callback has *)
(* returned, wg.Done has not been called.  "done": after wg.Done.          *)
JobStates == {"new", "dropped", "add", "send", "queued", "held", "running", "ran", "done"}
Outstanding == {j \in Jobs : job[j] \in {"send", "queued", "held", "running", "ran"}}

OwnerStates == {"new", "starting", "up", "waiting", "closing", "stopping", "down"}
DispatcherStates == {"off", "recv", "take", "send", "exited"}
WorkerStates == {"off", "idle", "running", "return", "done", "quitting", "exited"}

(* Only the owner writes running and closes the queue's channels, so its   *)
(* program counter tells their state.                                      *)
Running == opc \in {"starting", "up"}
PoolClosed == opc = "down"

(* Mutant of JobQueueClosed: close(q.jobQueue) is missing. *)
JobQueueClosed_Never == FALSE
JobQueueClosed == opc \in {"stopping", "down"}

TypeOK ==
  /\ wg \in Int
  /\ jobQueue \in Seq(Jobs)
  /\ Len(jobQueue) <= MaxCapacity
  /\ pool \subseteq Workers
  /\ quit \subseteq Workers
  /\ job \in [Jobs -> JobStates]
  /\ opc \in OwnerStates
  /\ dpc \in DispatcherStates
  /\ djob \subseteq Jobs
  /\ dworker \in Workers \cup {NoWorker}
  /\ wpc \in [Workers -> WorkerStates]
  /\ wjob \in [Workers -> SUBSET Jobs]
  /\ process \in {"alive", "panicked"}

Init ==
  /\ wg = 0
  /\ jobQueue = <<>>
  /\ pool = {}
  /\ quit = {}
  /\ job = [j \in Jobs |-> "new"]
  /\ opc = "new"
  /\ dpc = "off"
  /\ djob = {}
  /\ dworker = NoWorker
  /\ wpc = [w \in Workers |-> "off"]
  /\ wjob = [w \in Workers |-> {}]
  /\ process = "alive"

-----------------------------------------------------------------------------
(* The owner: Run and Terminate. *)

RunQueue ==
  /\ opc = "new"
  /\ opc' = "starting"
  /\ UNCHANGED <<wg, jobQueue, pool, quit, job, process, dispatcherVars, workerVars>>

(* newWorker and Start: the jobChan enters the pool, the goroutine starts. *)
StartWorker(w) ==
  /\ opc = "starting"
  /\ wpc[w] = "off"
  /\ pool' = pool \cup {w}
  /\ wpc' = [wpc EXCEPT ![w] = "idle"]
  /\ UNCHANGED <<wg, jobQueue, job, wjob, process, ownerVars, dispatcherVars>>

StartDispatcher ==
  /\ opc = "starting"
  /\ \A w \in Workers : wpc[w] # "off"
  /\ dpc' = "recv"
  /\ opc' = "up"
  /\ UNCHANGED <<wg, jobQueue, pool, quit, job, process, djob, dworker, workerVars>>

(* The callers' contract: unless LatePush, no Push is between its check of *)
(* running and its send when Terminate stores 0.                           *)
NoPushInFlight == \A j \in Jobs : job[j] \notin {"add", "send"}

TerminateStore ==
  /\ opc = "up"
  /\ LatePush \/ NoPushInFlight
  /\ opc' = "waiting"
  /\ UNCHANGED <<wg, jobQueue, pool, quit, job, process, dispatcherVars, workerVars>>

(* Mutant of TerminateWait: wg.Wait is missing. *)
TerminateWait_NoWait ==
  /\ opc = "waiting"
  /\ opc' = "closing"
  /\ UNCHANGED <<wg, jobQueue, pool, quit, job, process, dispatcherVars, workerVars>>

TerminateWait ==
  /\ opc = "waiting"
  /\ wg = 0
  /\ opc' = "closing"
  /\ UNCHANGED <<wg, jobQueue, pool, quit, job, process, dispatcherVars, workerVars>>

CloseJobQueue ==
  /\ opc = "closing"
  /\ opc' = "stopping"
  /\ UNCHANGED <<wg, jobQueue, pool, quit, job, process, dispatcherVars, workerVars>>

StopWorker(w) ==
  /\ opc = "stopping"
  /\ w \notin quit
  /\ quit' = quit \cup {w}
  /\ UNCHANGED <<wg, jobQueue, pool, job, opc, process, dispatcherVars, workerVars>>

ClosePool ==
  /\ opc = "stopping"
  /\ quit = Workers
  /\ opc' = "down"
  /\ UNCHANGED <<wg, jobQueue, pool, quit, job, process, dispatcherVars, workerVars>>

-----------------------------------------------------------------------------
(* Callers of Push: load running, wg.Add(1), send. *)

PushCheck(j) ==
  /\ job[j] = "new"
  /\ job' = [job EXCEPT ![j] = IF Running THEN "add" ELSE "dropped"]
  /\ UNCHANGED <<wg, jobQueue, pool, process, ownerVars, dispatcherVars, workerVars>>

(* Mutant of PushAdd: wg.Add(1) is missing. *)
PushAdd_NotCounted(j) ==
  /\ job[j] = "add"
  /\ job' = [job EXCEPT ![j] = "send"]
  /\ UNCHANGED <<wg, jobQueue, pool, process, ownerVars, dispatcherVars, workerVars>>

PushAdd(j) ==
  /\ job[j] = "add"
  /\ wg' = wg + 1
  /\ job' = [job EXCEPT ![j] = "send"]
  /\ UNCHANGED <<jobQueue, pool, process, ownerVars, dispatcherVars, workerVars>>

(* Mutant of PushSend: the buffer is one job too long. *)
PushSend_OneTooMany(j) ==
  /\ job[j] = "send"
  /\ ~JobQueueClosed
  /\ Len(jobQueue) <= MaxCapacity
  /\ jobQueue' = Append(jobQueue, j)
  /\ job' = [job EXCEPT ![j] = "queued"]
  /\ UNCHANGED <<wg, pool, process, ownerVars, dispatcherVars, workerVars>>

PushSend(j) ==
  /\ job[j] = "send"
  /\ ~JobQueueClosed
  /\ Len(jobQueue) < MaxCapacity
  /\ jobQueue' = Append(jobQueue, j)
  /\ job' = [job EXCEPT ![j] = "queued"]
  /\ UNCHANGED <<wg, pool, process, ownerVars, dispatcherVars, workerVars>>

PushPanic(j) ==
  /\ job[j] = "send"
  /\ JobQueueClosed
  /\ process' = "panicked"
  /\ UNCHANGED <<wg, jobQueue, pool, job, ownerVars, dispatcherVars, workerVars>>

-----------------------------------------------------------------------------
(* The dispatcher: for job := range jobQueue { worker := <-pool; worker <- job }. *)

(* Mutant of DispatchRecv: the newest job is taken first. *)
DispatchRecv_Newest ==
  /\ dpc = "recv"
  /\ jobQueue # <<>>
  /\ djob' = {jobQueue[Len(jobQueue)]}
  /\ jobQueue' = SubSeq(jobQueue, 1, Len(jobQueue) - 1)
  /\ job' = [job EXCEPT ![jobQueue[Len(jobQueue)]] = "held"]
  /\ dpc' = "take"
  /\ UNCHANGED <<wg, pool, dworker, process, ownerVars, workerVars>>

(* Mutant of DispatchRecv: the job stays in the queue. *)
DispatchRecv_NotRemoved ==
  /\ dpc = "recv"
  /\ jobQueue # <<>>
  /\ djob' = {Head(jobQueue)}
  /\ job' = [job EXCEPT ![Head(jobQueue)] = "held"]
  /\ dpc' = "take"
  /\ UNCHANGED <<wg, jobQueue, pool, dworker, process, ownerVars, workerVars>>

DispatchRecv ==
  /\ dpc = "recv"
  /\ jobQueue # <<>>
  /\ djob' = {Head(jobQueue)}
  /\ jobQueue' = Tail(jobQueue)
  /\ job' = [job EXCEPT ![Head(jobQueue)] = "held"]
  /\ dpc' = "take"
  /\ UNCHANGED <<wg, pool, dworker, process, ownerVars, workerVars>>

DispatchExit ==
  /\ dpc = "recv"
  /\ jobQueue = <<>>
  /\ JobQueueClosed
  /\ dpc' = "exited"
  /\ UNCHANGED <<wg, jobQueue, pool, job, djob, dworker, process, ownerVars, workerVars>>

(* Mutant of DispatchTake: the worker stays in the pool. *)
DispatchTake_Kept ==
  /\ dpc = "take"
  /\ \E w \in pool : dworker' = w
  /\ dpc' = "send"
  /\ UNCHANGED <<wg, jobQueue, pool, job, djob, process, ownerVars, workerVars>>

DispatchTake ==
  /\ dpc = "take"
  /\ \/ \E w \in pool :
          /\ dworker' = w
          /\ pool' = pool \ {w}
     \/ /\ pool = {}
        /\ PoolClosed
        /\ dworker' = NoWorker
        /\ UNCHANGED pool
  /\ dpc' = "send"
  /\ UNCHANGED <<wg, jobQueue, job, djob, process, ownerVars, workerVars>>

(* The rendezvous on jobChan; the worker enters j.Job(). *)
DispatchSend ==
  /\ dpc = "send"
  /\ dworker # NoWorker
  /\ wpc[dworker] = "idle"
  /\ wpc' = [wpc EXCEPT ![dworker] = "running"]
  /\ wjob' = [wjob EXCEPT ![dworker] = djob]
  /\ job' = [j \in Jobs |-> IF j \in djob THEN "running" ELSE job[j]]
  /\ djob' = {}
  /\ dworker' = NoWorker
  /\ dpc' = "recv"
  /\ UNCHANGED <<wg, jobQueue, pool, process, ownerVars>>

(* The worker has closed its jobChan. *)
DispatchPanic ==
  /\ dpc = "send"
  /\ dworker # NoWorker
  /\ wpc[dworker] = "exited"
  /\ process' = "panicked"
  /\ UNCHANGED <<wg, jobQueue, pool, job, ownerVars, dispatcherVars, workerVars>>

-----------------------------------------------------------------------------
(* The workers. *)

(* j.Job() returns. *)
WorkerRan(w) ==
  /\ wpc[w] = "running"
  /\ job' = [j \in Jobs |-> IF j \in wjob[w] THEN "ran" ELSE job[j]]
  /\ wpc' = [wpc EXCEPT ![w] = "return"]
  /\ UNCHANGED <<wg, jobQueue, pool, wjob, process, ownerVars, dispatcherVars>>

(* Mutant of WorkerReturn: the jobChan is not put back. *)
WorkerReturn_Forgotten(w) ==
  /\ wpc[w] = "return"
  /\ wpc' = [wpc EXCEPT ![w] = "done"]
  /\ UNCHANGED <<wg, jobQueue, pool, job, wjob, process, ownerVars, dispatcherVars>>

(* w.pool <- w.jobChan: the buffer has room for every worker. *)
WorkerReturn(w) ==
  /\ wpc[w] = "return"
  /\ ~PoolClosed
  /\ pool' = pool \cup {w}
  /\ wpc' = [wpc EXCEPT ![w] = "done"]
  /\ UNCHANGED <<wg, jobQueue, job, wjob, process, ownerVars, dispatcherVars>>

(* Mutant of WorkerDone: wg.Done is missing. *)
WorkerDone_Skipped(w) ==
  /\ wpc[w] = "done"
  /\ job' = [j \in Jobs |-> IF j \in wjob[w] THEN "done" ELSE job[j]]
  /\ wjob' = [wjob EXCEPT ![w] = {}]
  /\ wpc' = [wpc EXCEPT ![w] = "idle"]
  /\ UNCHANGED <<wg, jobQueue, pool, process, ownerVars, dispatcherVars>>

(* w.wg.Done(). *)
WorkerDone(w) ==
  /\ wpc[w] = "done"
  /\ wg' = wg - 1
  /\ process' = IF wg = 0 THEN "panicked" ELSE process
  /\ job' = [j \in Jobs |-> IF j \in wjob[w] THEN "done" ELSE job[j]]
  /\ wjob' = [wjob EXCEPT ![w] = {}]
  /\ wpc' = [wpc EXCEPT ![w] = "idle"]
  /\ UNCHANGED <<jobQueue, pool, ownerVars, dispatcherVars>>

WorkerPanic(w) ==
  /\ wpc[w] = "return"
  /\ PoolClosed
  /\ process' = "panicked"
  /\ UNCHANGED <<wg, jobQueue, pool, job, ownerVars, dispatcherVars, workerVars>>

WorkerQuit(w) ==
  /\ wpc[w] = "idle"
  /\ w \in quit
  /\ wpc' = [wpc EXCEPT ![w] = "quitting"]
  /\ UNCHANGED <<wg, jobQueue, pool, job, wjob, process, ownerVars, dispatcherVars>>

(* <-w.pool takes any jobChan, or nil once the pool is closed and empty;   *)
(* then the worker closes its own jobChan and returns.                     *)
WorkerExit(w) ==
  /\ wpc[w] = "quitting"
  /\ \/ \E v \in pool : pool' = pool \ {v}
     \/ pool = {} /\ PoolClosed /\ UNCHANGED pool
  /\ wpc' = [wpc EXCEPT ![w] = "exited"]
  /\ UNCHANGED <<wg, jobQueue, job, wjob, process, ownerVars, dispatcherVars>>

-----------------------------------------------------------------------------
Owner == \/ RunQueue \/ StartDispatcher \/ TerminateStore \/ TerminateWait
         \/ CloseJobQueue \/ ClosePool
         \/ \E w \in Workers : StartWorker(w) \/ StopWorker(w)
Push(j) == PushCheck(j) \/ PushAdd(j) \/ PushSend(j) \/ PushPanic(j)
Dispatcher == DispatchRecv \/ DispatchExit \/ DispatchTake \/ DispatchSend \/ DispatchPanic
Worker(w) == \/ WorkerRan(w) \/ WorkerReturn(w) \/ WorkerDone(w)
             \/ WorkerPanic(w) \/ WorkerQuit(w) \/ WorkerExit(w)

(* Terminate has returned and every goroutine has ended. *)
Stopped ==
  /\ opc = "down"
  /\ dpc = "exited"
  /\ \A w \in Workers : wpc[w] = "exited"
  /\ NoPushInFlight
  /\ UNCHANGED vars

Next ==
  /\ process = "alive"
  /\ \/ Owner
     \/ Dispatcher
     \/ \E j \in Jobs : Push(j)
     \/ \E w \in Workers : Worker(w)
     \/ Stopped

Spec == Init /\ [][Next]_vars

(* Every started goroutine is eventually scheduled, and callbacks return   *)
(* (advisor.go bounds each by its client and context timeouts).  Run is    *)
(* completed once called.  Nothing obliges a caller to push a job or to    *)
(* call Terminate; a call that has begun goes on.                          *)
OwnerGoesOn == opc \notin {"new", "up"} /\ Owner
PushGoesOn(j) == job[j] \in {"add", "send"} /\ Push(j)

Fairness ==
  /\ WF_vars(process = "alive" /\ OwnerGoesOn)
  /\ WF_vars(process = "alive" /\ Dispatcher)
  /\ \A j \in Jobs : WF_vars(process = "alive" /\ PushGoesOn(j))
  /\ \A w \in Workers : WF_vars(process = "alive" /\ Worker(w))

FairSpec == Spec /\ Fairness

-----------------------------------------------------------------------------
(* Properties of chan_queue.go and worker.go. *)

(* The WaitGroup counts exactly the jobs between wg.Add in Push and        *)
(* wg.Done in the worker, across every channel a job passes through.       *)
WgCountsOutstanding == wg = Cardinality(Outstanding)

(* No send on a closed channel and no negative WaitGroup counter.          *)
NoPanic == process = "alive"

(* Once wg.Wait has returned in Terminate, every job a caller pushed has   *)
(* run to its end or was refused because the queue no longer ran: nothing  *)
(* is lost in a channel, in the dispatcher or in a worker.                 *)
TerminateDrains ==
  opc \in {"closing", "stopping", "down"} =>
    \A j \in Jobs : job[j] \in {"new", "dropped", "done"}

(* The jobChan in the pool, or in the dispatcher's hand, is that of a      *)
(* worker that has finished its callback: the dispatcher never waits for a *)
(* callback while another worker is free.                                  *)
PoolHoldsFreeWorkers ==
  \A w \in pool \cup ({dworker} \cap Workers) : wpc[w] \in {"idle", "done", "quitting", "exited"}

(* A job is never handed out twice and never moves back: a callback that   *)
(* has returned does not run again, and a dropped job never runs.          *)
Rank == [new |-> 0, add |-> 1, send |-> 2, queued |-> 3, held |-> 4,
         running |-> 5, ran |-> 6, done |-> 7, dropped |-> 7]
JobsMoveForward == [][\A j \in Jobs : Rank[job'[j]] >= Rank[job[j]]]_vars

(* The abstract task queue: a job is accepted when it enters the channel,  *)
(* starts when a worker receives it, and the queue closes when Terminate   *)
(* has waited.                                                             *)
Phase == CASE opc = "new" -> "new"
           [] opc \in {"starting", "up"} -> "open"
           [] opc = "waiting" -> "draining"
           [] OTHER -> "closed"
Held == IF djob = {} THEN <<>> ELSE <<CHOOSE j \in djob : TRUE>>

TQ == INSTANCE TaskQueue WITH
        phase <- Phase,
        waiting <- Held \o jobQueue,
        executing <- {j \in Jobs : job[j] = "running"},
        finished <- {j \in Jobs : job[j] \in {"ran", "done"}}

(* The channel queue implements the abstract one, with its fairness: jobs  *)
(* start in the order they entered the channel, each runs once, and        *)
(* Terminate closes the queue only when none is left.                      *)
ImplementsTaskQueue == TQ!FairSpec

(* A job whose Push passed the check of running is executed, even when     *)
(* Terminate is called meanwhile.                                          *)
AcceptedJobsRun == \A j \in Jobs : (job[j] = "add") ~> (job[j] = "done")

(* Terminate returns, and the dispatcher and the workers all end: no       *)
(* goroutine is left blocked on a channel.                                 *)
TerminateStopsAll ==
  (opc = "waiting") ~> (opc = "down" /\ dpc = "exited" /\ \A w \in Workers : wpc[w] = "exited")
=============================================================================
