------------------------- MODULE WorkerQueueProofs -------------------------
(***************************************************************************)
(* Proofs about the notification queue (chan_queue.go, worker.go) for any  *)
(* finite sets of jobs and workers and any buffer size.                    *)
(***************************************************************************)
EXTENDS WorkerQueue, FiniteSetTheorems, TLAPS

-----------------------------------------------------------------------------
(* Every variable keeps its type: in particular the channel never holds    *)
(* more jobs than its buffer, and the dispatcher and the workers hold jobs *)
(* that were pushed.                                                       *)
THEOREM TypeCorrect == Spec => []TypeOK
<1>1. Init => TypeOK
  BY WorkerQueueAssumption DEF Init, TypeOK, JobStates, OwnerStates, DispatcherStates, WorkerStates
<1>2. TypeOK /\ [Next]_vars => TypeOK'
  <2> SUFFICES ASSUME TypeOK, [Next]_vars PROVE TypeOK'
    OBVIOUS
  <2> USE WorkerQueueAssumption
      DEF TypeOK, JobStates, OwnerStates, DispatcherStates, WorkerStates,
          ownerVars, dispatcherVars, workerVars
  <2>1. CASE RunQueue BY <2>1 DEF RunQueue
  <2>2. CASE StartDispatcher BY <2>2 DEF StartDispatcher
  <2>3. CASE TerminateStore BY <2>3 DEF TerminateStore
  <2>4. CASE TerminateWait BY <2>4 DEF TerminateWait
  <2>5. CASE CloseJobQueue BY <2>5 DEF CloseJobQueue
  <2>6. CASE ClosePool BY <2>6 DEF ClosePool
  <2>7. ASSUME NEW w \in Workers, StartWorker(w) PROVE TypeOK'
    BY <2>7 DEF StartWorker
  <2>8. ASSUME NEW w \in Workers, StopWorker(w) PROVE TypeOK'
    BY <2>8 DEF StopWorker
  <2>9. ASSUME NEW j \in Jobs, PushCheck(j) PROVE TypeOK'
    BY <2>9 DEF PushCheck
  <2>10. ASSUME NEW j \in Jobs, PushAdd(j) PROVE TypeOK'
    BY <2>10 DEF PushAdd
  <2>11. ASSUME NEW j \in Jobs, PushSend(j) PROVE TypeOK'
    BY <2>11 DEF PushSend
  <2>12. ASSUME NEW j \in Jobs, PushPanic(j) PROVE TypeOK'
    BY <2>12 DEF PushPanic
  <2>13. CASE DispatchRecv
    <3>1. Head(jobQueue) \in Jobs /\ Tail(jobQueue) \in Seq(Jobs)
          /\ Len(Tail(jobQueue)) <= MaxCapacity
      BY <2>13 DEF DispatchRecv
    <3>2. QED BY <2>13, <3>1 DEF DispatchRecv
  <2>14. CASE DispatchExit BY <2>14 DEF DispatchExit
  <2>15. CASE DispatchTake BY <2>15 DEF DispatchTake
  <2>16. CASE DispatchSend BY <2>16 DEF DispatchSend
  <2>17. CASE DispatchPanic BY <2>17 DEF DispatchPanic
  <2>18. ASSUME NEW w \in Workers, WorkerRan(w) PROVE TypeOK'
    BY <2>18 DEF WorkerRan
  <2>19. ASSUME NEW w \in Workers, WorkerReturn(w) PROVE TypeOK'
    BY <2>19 DEF WorkerReturn
  <2>20. ASSUME NEW w \in Workers, WorkerDone(w) PROVE TypeOK'
    BY <2>20 DEF WorkerDone
  <2>21. ASSUME NEW w \in Workers, WorkerPanic(w) PROVE TypeOK'
    BY <2>21 DEF WorkerPanic
  <2>22. ASSUME NEW w \in Workers, WorkerQuit(w) PROVE TypeOK'
    BY <2>22 DEF WorkerQuit
  <2>23. ASSUME NEW w \in Workers, WorkerExit(w) PROVE TypeOK'
    BY <2>23 DEF WorkerExit
  <2>24. CASE UNCHANGED vars BY <2>24 DEF vars
  <2>25. QED
    BY <2>1, <2>2, <2>3, <2>4, <2>5, <2>6, <2>7, <2>8, <2>9, <2>10, <2>11, <2>12, <2>13,
       <2>14, <2>15, <2>16, <2>17, <2>18, <2>19, <2>20, <2>21, <2>22, <2>23, <2>24
    DEF Next, Owner, Push, Dispatcher, Worker, Stopped
<1>3. QED BY <1>1, <1>2, PTL DEF Spec

-----------------------------------------------------------------------------
(* The owner starts the dispatcher at the end of Run and stops workers     *)
(* only after wg.Wait in Terminate.                                        *)
OwnerOrder ==
  /\ opc \in {"new", "starting"} => dpc = "off"
  /\ quit # {} => opc \in {"stopping", "down"}
  /\ \A w \in Workers : wpc[w] \in {"quitting", "exited"} => w \in quit

LEMMA OwnerOrderInvariant == Spec => []OwnerOrder
<1>1. Init => OwnerOrder
  BY DEF Init, OwnerOrder
<1>2. TypeOK /\ OwnerOrder /\ [Next]_vars => OwnerOrder'
  <2> SUFFICES ASSUME TypeOK, OwnerOrder, [Next]_vars PROVE OwnerOrder'
    OBVIOUS
  <2> USE DEF TypeOK, OwnerOrder
  <2>1. CASE UNCHANGED vars BY <2>1 DEF vars
  <2>2. CASE Owner
    BY <2>2 DEF Owner, RunQueue, StartWorker, StartDispatcher, TerminateStore, TerminateWait,
                CloseJobQueue, StopWorker, ClosePool, dispatcherVars, workerVars, ownerVars
  <2>3. ASSUME NEW j \in Jobs, Push(j) PROVE OwnerOrder'
    BY <2>3 DEF Push, PushCheck, PushAdd, PushSend, PushPanic,
                dispatcherVars, workerVars, ownerVars
  <2>4. CASE Dispatcher
    BY <2>4 DEF Dispatcher, DispatchRecv, DispatchExit, DispatchTake, DispatchSend,
                DispatchPanic, dispatcherVars, workerVars, ownerVars
  <2>5. ASSUME NEW w \in Workers, Worker(w) PROVE OwnerOrder'
    BY <2>5 DEF Worker, WorkerRan, WorkerReturn, WorkerDone, WorkerPanic, WorkerQuit,
                WorkerExit, dispatcherVars, workerVars, ownerVars
  <2>6. QED BY <2>1, <2>2, <2>3, <2>4, <2>5 DEF Next, Stopped
<1>3. QED BY <1>1, <1>2, TypeCorrect, PTL DEF Spec

-----------------------------------------------------------------------------
(* Where the jobs are.  The history variable job agrees with the channel,  *)
(* the dispatcher and the workers, and no job is in two of them.           *)
QueuePlaces ==
  /\ \A i \in 1..Len(jobQueue) : job[jobQueue[i]] = "queued"
  /\ \A i, k \in 1..Len(jobQueue) : jobQueue[i] = jobQueue[k] => i = k

DispatcherPlaces ==
  /\ dpc \in {"take", "send"} => \E j \in Jobs : djob = {j} /\ job[j] = "held"
  /\ dpc \notin {"take", "send"} => djob = {}

WorkerPlaces ==
  \A w \in Workers :
    /\ wpc[w] = "running" => \E j \in Jobs : wjob[w] = {j} /\ job[j] = "running"
    /\ wpc[w] \in {"return", "done"} => \E j \in Jobs : wjob[w] = {j} /\ job[j] = "ran"
    /\ wpc[w] \notin {"running", "return", "done"} => wjob[w] = {}
    /\ \A v \in Workers : v # w => wjob[v] \cap wjob[w] = {}

Places == QueuePlaces /\ DispatcherPlaces /\ WorkerPlaces

LEMMA PlacesInvariant == Spec => []Places
<1>1. Init => Places
  BY WorkerQueueAssumption DEF Init, Places, QueuePlaces, DispatcherPlaces, WorkerPlaces
<1>2. TypeOK /\ OwnerOrder /\ Places /\ [Next]_vars => Places'
  <2> SUFFICES ASSUME TypeOK, OwnerOrder, Places, [Next]_vars PROVE Places'
    OBVIOUS
  <2> USE DEF Places
  <2>1. CASE UNCHANGED <<jobQueue, job, dpc, djob, wpc, wjob>>
    BY <2>1 DEF QueuePlaces, DispatcherPlaces, WorkerPlaces
  <2>2. CASE StartDispatcher
    <3>1. /\ dpc' = "recv" /\ djob' = djob
          /\ UNCHANGED <<jobQueue, job, wpc, wjob>>
      BY <2>2 DEF StartDispatcher, workerVars
    <3>2. djob = {}
      BY <2>2 DEF StartDispatcher, OwnerOrder, DispatcherPlaces
    <3>3. QED BY <3>1, <3>2 DEF QueuePlaces, DispatcherPlaces, WorkerPlaces
  <2>3. ASSUME NEW w \in Workers, StartWorker(w) PROVE Places'
    <3>1. QueuePlaces' /\ DispatcherPlaces'
      BY <2>3 DEF StartWorker, QueuePlaces, DispatcherPlaces, dispatcherVars
    <3>2. WorkerPlaces'
      BY <2>3 DEF StartWorker, WorkerPlaces, TypeOK
    <3>3. QED BY <3>1, <3>2
  (* The calls of Push change only a job that is in none of the places. *)
  <2>4. ASSUME NEW j \in Jobs, NEW s \in JobStates,
               job[j] \in {"new", "add"}, job' = [job EXCEPT ![j] = s],
               UNCHANGED <<jobQueue, dpc, djob, wpc, wjob>>
        PROVE Places'
    <3>1. QueuePlaces' BY <2>4 DEF QueuePlaces, TypeOK
    <3>2. DispatcherPlaces' BY <2>4 DEF DispatcherPlaces, TypeOK
    <3>3. WorkerPlaces' BY <2>4 DEF WorkerPlaces, TypeOK
    <3>4. QED BY <3>1, <3>2, <3>3
  <2>5. ASSUME NEW j \in Jobs, PushCheck(j) PROVE Places'
    BY <2>4, <2>5 DEF PushCheck, JobStates, dispatcherVars, workerVars
  <2>6. ASSUME NEW j \in Jobs, PushAdd(j) PROVE Places'
    BY <2>4, <2>6 DEF PushAdd, JobStates, dispatcherVars, workerVars
  <2>7. ASSUME NEW j \in Jobs, PushSend(j) PROVE Places'
    <3>1. /\ jobQueue' = Append(jobQueue, j) /\ job[j] = "send"
          /\ job' = [job EXCEPT ![j] = "queued"]
          /\ UNCHANGED <<dpc, djob, wpc, wjob>>
      BY <2>7 DEF PushSend, dispatcherVars, workerVars
    <3>2. QueuePlaces'
      <4>1. /\ Len(jobQueue') = Len(jobQueue) + 1
            /\ \A i \in 1..Len(jobQueue) : jobQueue'[i] = jobQueue[i] /\ jobQueue[i] \in Jobs
            /\ jobQueue'[Len(jobQueue) + 1] = j
        BY <3>1 DEF TypeOK
      <4>2. \A i \in 1..Len(jobQueue) : jobQueue[i] # j
        BY <3>1 DEF QueuePlaces
      <4>3. QED BY <3>1, <4>1, <4>2 DEF QueuePlaces, TypeOK
    <3>3. DispatcherPlaces' BY <3>1 DEF DispatcherPlaces, TypeOK
    <3>4. WorkerPlaces' BY <3>1 DEF WorkerPlaces, TypeOK
    <3>5. QED BY <3>2, <3>3, <3>4
  <2>8. CASE DispatchRecv
    <3> DEFINE h == Head(jobQueue)
    <3>1. /\ dpc = "recv" /\ dpc' = "take"
          /\ jobQueue' = Tail(jobQueue) /\ jobQueue # <<>>
          /\ djob' = {h} /\ job' = [job EXCEPT ![h] = "held"]
          /\ UNCHANGED <<wpc, wjob>>
      BY <2>8 DEF DispatchRecv, workerVars
    <3>2. h \in Jobs /\ h = jobQueue[1] /\ 1 \in 1..Len(jobQueue) /\ job[h] = "queued"
      BY <3>1 DEF TypeOK, QueuePlaces
    <3>3. QueuePlaces'
      <4>1. /\ Len(jobQueue') = Len(jobQueue) - 1
            /\ \A i \in 1..Len(jobQueue') : jobQueue'[i] = jobQueue[i+1] /\ i+1 \in 1..Len(jobQueue)
            /\ \A i \in 1..Len(jobQueue) : jobQueue[i] \in Jobs
        BY <3>1 DEF TypeOK
      <4>2. \A i \in 1..Len(jobQueue') : jobQueue'[i] # h
        BY <3>2, <4>1 DEF QueuePlaces
      <4>3. QED BY <3>1, <4>1, <4>2 DEF QueuePlaces, TypeOK
    <3>4. DispatcherPlaces' BY <3>1, <3>2 DEF DispatcherPlaces, TypeOK
    <3>5. WorkerPlaces' BY <3>1, <3>2 DEF WorkerPlaces, TypeOK
    <3>6. QED BY <3>3, <3>4, <3>5
  <2>9. CASE DispatchExit
    BY <2>9 DEF DispatchExit, QueuePlaces, DispatcherPlaces, WorkerPlaces, workerVars
  <2>10. CASE DispatchTake
    BY <2>10 DEF DispatchTake, QueuePlaces, DispatcherPlaces, WorkerPlaces, workerVars
  <2>11. CASE DispatchSend
    <3>1. PICK j \in Jobs : djob = {j} /\ job[j] = "held"
      BY <2>11 DEF DispatchSend, DispatcherPlaces
    <3>2. /\ job' = [job EXCEPT ![j] = "running"]
          /\ dworker \in Workers /\ wpc[dworker] = "idle"
          /\ wpc' = [wpc EXCEPT ![dworker] = "running"]
          /\ wjob' = [wjob EXCEPT ![dworker] = {j}]
          /\ djob' = {} /\ dpc' = "recv" /\ jobQueue' = jobQueue
      BY <2>11, <3>1 DEF DispatchSend, TypeOK
    <3>3. QueuePlaces' BY <3>1, <3>2 DEF QueuePlaces, TypeOK
    <3>4. DispatcherPlaces' BY <3>2 DEF DispatcherPlaces
    <3>5. \A w \in Workers : j \notin wjob[w]
      BY <3>1 DEF WorkerPlaces, TypeOK, WorkerStates
    <3>6. WorkerPlaces' BY <3>1, <3>2, <3>5 DEF WorkerPlaces, TypeOK
    <3>7. QED BY <3>3, <3>4, <3>6
  <2>12. ASSUME NEW w \in Workers, WorkerRan(w) PROVE Places'
    <3>1. PICK j \in Jobs : wjob[w] = {j} /\ job[j] = "running"
      BY <2>12 DEF WorkerRan, WorkerPlaces
    <3>2. /\ job' = [job EXCEPT ![j] = "ran"]
          /\ wpc[w] = "running" /\ wpc' = [wpc EXCEPT ![w] = "return"]
          /\ UNCHANGED <<wjob, jobQueue, dpc, djob>>
      BY <2>12, <3>1 DEF WorkerRan, TypeOK, dispatcherVars
    <3>3. QueuePlaces' BY <3>1, <3>2 DEF QueuePlaces, TypeOK
    <3>4. DispatcherPlaces' BY <3>1, <3>2 DEF DispatcherPlaces, TypeOK
    <3>5. WorkerPlaces' BY <3>1, <3>2 DEF WorkerPlaces, TypeOK
    <3>6. QED BY <3>3, <3>4, <3>5
  <2>13. ASSUME NEW w \in Workers, WorkerReturn(w) PROVE Places'
    BY <2>13 DEF WorkerReturn, QueuePlaces, DispatcherPlaces, WorkerPlaces,
                 TypeOK, dispatcherVars
  <2>14. ASSUME NEW w \in Workers, WorkerDone(w) PROVE Places'
    <3>1. PICK j \in Jobs : wjob[w] = {j} /\ job[j] = "ran"
      BY <2>14 DEF WorkerDone, WorkerPlaces
    <3>2. /\ job' = [job EXCEPT ![j] = "done"]
          /\ wpc[w] = "done" /\ wpc' = [wpc EXCEPT ![w] = "idle"]
          /\ wjob' = [wjob EXCEPT ![w] = {}]
          /\ UNCHANGED <<jobQueue, dpc, djob>>
      BY <2>14, <3>1 DEF WorkerDone, TypeOK, dispatcherVars
    <3>3. QueuePlaces' BY <3>1, <3>2 DEF QueuePlaces, TypeOK
    <3>4. DispatcherPlaces' BY <3>1, <3>2 DEF DispatcherPlaces, TypeOK
    <3>5. WorkerPlaces' BY <3>1, <3>2 DEF WorkerPlaces, TypeOK
    <3>6. QED BY <3>3, <3>4, <3>5
  <2>15. ASSUME NEW w \in Workers, WorkerQuit(w) PROVE Places'
    BY <2>15 DEF WorkerQuit, QueuePlaces, DispatcherPlaces, WorkerPlaces,
                 TypeOK, dispatcherVars
  <2>16. ASSUME NEW w \in Workers, WorkerExit(w) PROVE Places'
    BY <2>16 DEF WorkerExit, QueuePlaces, DispatcherPlaces, WorkerPlaces,
                 TypeOK, dispatcherVars
  <2>17. QED
    BY <2>1, <2>2, <2>3, <2>5, <2>6, <2>7, <2>8, <2>9, <2>10, <2>11, <2>12, <2>13,
       <2>14, <2>15, <2>16
    DEF Next, Owner, Push, Dispatcher, Worker, Stopped, vars, dispatcherVars, workerVars,
        RunQueue, TerminateStore, TerminateWait, CloseJobQueue, StopWorker, ClosePool,
        PushPanic, DispatchPanic, WorkerPanic
<1>3. QED BY <1>1, <1>2, TypeCorrect, OwnerOrderInvariant, PTL DEF Spec

-----------------------------------------------------------------------------
(* The WaitGroup counts exactly the jobs between wg.Add and wg.Done,       *)
(* however pushes, dispatching, execution and Terminate interleave.        *)
THEOREM CountingCorrect == Spec => []WgCountsOutstanding
<1>1. Init => WgCountsOutstanding
  <2> SUFFICES ASSUME Init PROVE wg = Cardinality(Outstanding)
    BY DEF WgCountsOutstanding
  <2>1. Outstanding = {} BY DEF Init, Outstanding
  <2>2. QED BY <2>1, FS_EmptySet DEF Init
<1>2. TypeOK /\ Places /\ WgCountsOutstanding /\ [Next]_vars => WgCountsOutstanding'
  <2> SUFFICES ASSUME TypeOK, Places, WgCountsOutstanding, [Next]_vars
               PROVE  wg' = Cardinality(Outstanding')
    BY DEF WgCountsOutstanding
  <2>0. IsFiniteSet(Outstanding) /\ wg = Cardinality(Outstanding)
    BY WorkerQueueAssumption, FS_Subset DEF Outstanding, WgCountsOutstanding
  <2>1. CASE wg' = wg /\ Outstanding' = Outstanding
    BY <2>0, <2>1
  <2>2. CASE UNCHANGED <<wg, job>>
    BY <2>1, <2>2 DEF Outstanding
  <2>3. ASSUME NEW j \in Jobs, PushCheck(j) PROVE wg' = Cardinality(Outstanding')
    BY <2>1, <2>3 DEF PushCheck, Outstanding, TypeOK
  <2>4. ASSUME NEW j \in Jobs, PushAdd(j) PROVE wg' = Cardinality(Outstanding')
    <3>1. j \notin Outstanding /\ Outstanding' = Outstanding \cup {j} /\ wg' = wg + 1
      BY <2>4 DEF PushAdd, Outstanding, TypeOK
    <3>2. QED BY <2>0, <3>1, FS_AddElement
  <2>5. ASSUME NEW j \in Jobs, PushSend(j) PROVE wg' = Cardinality(Outstanding')
    BY <2>1, <2>5 DEF PushSend, Outstanding, TypeOK
  <2>6. CASE DispatchRecv
    <3>1. Head(jobQueue) \in Jobs /\ job[Head(jobQueue)] = "queued"
      BY <2>6 DEF DispatchRecv, TypeOK, Places, QueuePlaces
    <3>2. QED BY <2>1, <2>6, <3>1 DEF DispatchRecv, Outstanding, TypeOK
  <2>7. CASE DispatchSend
    BY <2>1, <2>7 DEF DispatchSend, Outstanding, TypeOK, Places, DispatcherPlaces
  <2>8. ASSUME NEW w \in Workers, WorkerRan(w) PROVE wg' = Cardinality(Outstanding')
    BY <2>1, <2>8 DEF WorkerRan, Outstanding, TypeOK, Places, WorkerPlaces
  <2>9. ASSUME NEW w \in Workers, WorkerDone(w) PROVE wg' = Cardinality(Outstanding')
    <3>1. PICK j \in Jobs : wjob[w] = {j} /\ job[j] = "ran"
      BY <2>9 DEF WorkerDone, Places, WorkerPlaces
    <3>2. j \in Outstanding /\ Outstanding' = Outstanding \ {j} /\ wg' = wg - 1
      BY <2>9, <3>1 DEF WorkerDone, Outstanding, TypeOK
    <3>3. QED BY <2>0, <3>2, FS_RemoveElement
  <2>10. QED
    BY <2>2, <2>3, <2>4, <2>5, <2>6, <2>7, <2>8, <2>9
    DEF Next, Owner, Push, Dispatcher, Worker, Stopped, vars,
        RunQueue, StartWorker, StartDispatcher, TerminateStore, TerminateWait, CloseJobQueue,
        StopWorker, ClosePool, PushPanic, DispatchExit, DispatchTake, DispatchPanic,
        WorkerReturn, WorkerPanic, WorkerQuit, WorkerExit
<1>3. QED BY <1>1, <1>2, TypeCorrect, PlacesInvariant, PTL DEF Spec

-----------------------------------------------------------------------------
(* A job never moves back: no callback runs twice, no dropped job runs.    *)
THEOREM JobsOnlyMoveForward == Spec => JobsMoveForward
<1>1. TypeOK /\ Places /\ [Next]_vars
        => [\A j \in Jobs : Rank[job'[j]] >= Rank[job[j]]]_vars
  <2> SUFFICES ASSUME TypeOK, Places, Next, NEW i \in Jobs
               PROVE  Rank[job'[i]] >= Rank[job[i]]
    OBVIOUS
  <2>0. job[i] \in JobStates BY DEF TypeOK
  <2>1. CASE job' = job BY <2>0, <2>1 DEF Rank, JobStates
  <2>2. ASSUME NEW j \in Jobs, Push(j) PROVE Rank[job'[i]] >= Rank[job[i]]
    BY <2>0, <2>2 DEF Push, PushCheck, PushAdd, PushSend, PushPanic, Rank, JobStates, TypeOK
  <2>3. CASE Dispatcher
    <3>1. CASE DispatchRecv
      <4>1. Head(jobQueue) \in Jobs /\ job[Head(jobQueue)] = "queued"
        BY <3>1 DEF DispatchRecv, TypeOK, Places, QueuePlaces
      <4>2. QED BY <2>0, <3>1, <4>1 DEF DispatchRecv, Rank, JobStates, TypeOK
    <3>2. CASE DispatchSend
      BY <2>0, <3>2 DEF DispatchSend, Rank, JobStates, TypeOK, Places, DispatcherPlaces
    <3>3. QED
      BY <2>1, <2>3, <3>1, <3>2 DEF Dispatcher, DispatchExit, DispatchTake, DispatchPanic
  <2>4. ASSUME NEW w \in Workers, Worker(w) PROVE Rank[job'[i]] >= Rank[job[i]]
    <3>1. CASE WorkerRan(w)
      BY <2>0, <3>1 DEF WorkerRan, Rank, JobStates, TypeOK, Places, WorkerPlaces
    <3>2. CASE WorkerDone(w)
      BY <2>0, <3>2 DEF WorkerDone, Rank, JobStates, TypeOK, Places, WorkerPlaces
    <3>3. QED
      BY <2>1, <2>4, <3>1, <3>2 DEF Worker, WorkerReturn, WorkerPanic, WorkerQuit, WorkerExit
  <2>5. QED
    BY <2>1, <2>2, <2>3, <2>4
    DEF Next, Owner, Stopped, vars, RunQueue, StartWorker, StartDispatcher, TerminateStore,
        TerminateWait, CloseJobQueue, StopWorker, ClosePool
<1>2. QED BY <1>1, TypeCorrect, PlacesInvariant, PTL DEF Spec, JobsMoveForward

-----------------------------------------------------------------------------
(* Nothing is pushed before Run, and no push is in flight when Terminate   *)
(* stores 0.                                                               *)
Drained ==
  /\ opc = "new" => \A j \in Jobs : job[j] \in {"new", "dropped"}
  /\ opc = "waiting" => NoPushInFlight
  /\ TerminateDrains
  /\ NoPanic

(* Under the callers' contract, Terminate returns from wg.Wait with every  *)
(* pushed job executed or refused, and nothing ever panics: while a job is *)
(* in the queue's hands the count is positive, so no channel is closed and *)
(* no worker is stopped.                                                   *)
LEMMA DrainedInvariant ==
  ASSUME ~LatePush
  PROVE  Spec => []Drained
<1>1. Init => Drained
  BY DEF Init, Drained, TerminateDrains, NoPanic
<1>2. TypeOK /\ OwnerOrder /\ Places /\ WgCountsOutstanding /\ Drained /\ [Next]_vars
        => Drained'
  <2> SUFFICES ASSUME TypeOK, OwnerOrder, Places, WgCountsOutstanding, Drained,
                      [Next]_vars
               PROVE  Drained'
    OBVIOUS
  <2> USE DEF Drained, TerminateDrains, NoPanic, NoPushInFlight
  <2>0. IsFiniteSet(Outstanding)
    BY WorkerQueueAssumption, FS_Subset DEF Outstanding
  <2>1. CASE UNCHANGED <<opc, job, process>> BY <2>1
  <2>2. CASE Owner
    <3>1. CASE TerminateWait
      <4>1. Outstanding = {}
        BY <2>0, <3>1, FS_EmptySet DEF TerminateWait, WgCountsOutstanding
      <4>2. QED BY <3>1, <4>1 DEF TerminateWait, Outstanding, TypeOK, JobStates
    <3>2. QED
      BY <2>2, <3>1 DEF Owner, RunQueue, StartWorker, StartDispatcher, TerminateStore,
                        CloseJobQueue, StopWorker, ClosePool, ownerVars
  <2>3. ASSUME NEW j \in Jobs, Push(j) PROVE Drained'
    BY <2>3 DEF Push, PushCheck, PushAdd, PushSend, PushPanic, Running, JobQueueClosed,
                TypeOK, ownerVars
  <2>4. CASE Dispatcher
    <3>1. CASE DispatchRecv
      <4>1. Head(jobQueue) \in Jobs /\ job[Head(jobQueue)] = "queued"
        BY <3>1 DEF DispatchRecv, TypeOK, Places, QueuePlaces
      <4>2. QED BY <3>1, <4>1 DEF DispatchRecv, TypeOK, ownerVars
    <3>2. CASE DispatchSend
      BY <3>2 DEF DispatchSend, TypeOK, Places, DispatcherPlaces, ownerVars
    <3>3. CASE DispatchPanic
      BY <3>3 DEF DispatchPanic, TypeOK, Places, DispatcherPlaces, OwnerOrder
    <3>4. QED
      BY <2>1, <2>4, <3>1, <3>2, <3>3 DEF Dispatcher, DispatchExit, DispatchTake, ownerVars
  <2>5. ASSUME NEW w \in Workers, Worker(w) PROVE Drained'
    <3>1. CASE WorkerRan(w)
      BY <3>1 DEF WorkerRan, TypeOK, Places, WorkerPlaces, ownerVars
    <3>2. CASE WorkerDone(w)
      <4>1. PICK j \in Jobs : wjob[w] = {j} /\ job[j] = "ran"
        BY <3>2 DEF WorkerDone, Places, WorkerPlaces
      <4>2. wg # 0
        BY <2>0, <4>1, FS_EmptySet DEF Outstanding, WgCountsOutstanding
      <4>3. QED BY <3>2, <4>1, <4>2 DEF WorkerDone, TypeOK, ownerVars
    <3>3. CASE WorkerPanic(w)
      BY <3>3 DEF WorkerPanic, Places, WorkerPlaces, PoolClosed
    <3>4. QED
      BY <2>1, <2>5, <3>1, <3>2, <3>3 DEF Worker, WorkerReturn, WorkerQuit, WorkerExit, ownerVars
  <2>6. QED BY <2>1, <2>2, <2>3, <2>4, <2>5 DEF Next, Stopped, vars
<1>3. QED
  BY <1>1, <1>2, TypeCorrect, OwnerOrderInvariant, PlacesInvariant, CountingCorrect, PTL DEF Spec

(* Terminate loses no job (chan_queue.go:53-66). *)
THEOREM TerminateLosesNoJob ==
  ASSUME ~LatePush
  PROVE  Spec => []TerminateDrains
BY DrainedInvariant, PTL DEF Drained

(* The queue never panics. *)
THEOREM QueueNeverPanics ==
  ASSUME ~LatePush
  PROVE  Spec => []NoPanic
BY DrainedInvariant, PTL DEF Drained

-----------------------------------------------------------------------------
(* Under the callers' contract every step of the channel queue is a step   *)
(* of the abstract task queue or leaves it as it was.                      *)
Waiting == Held \o jobQueue

LEMMA WaitingJobsAccepted ==
  ASSUME TypeOK, Places
  PROVE  /\ Waiting \in Seq(Jobs)
         /\ \A i \in 1..Len(Waiting) : job[Waiting[i]] \in {"queued", "held"}
         /\ djob # {} => Head(Waiting) \in djob /\ Tail(Waiting) = jobQueue /\ Waiting # <<>>
         /\ djob = {} => Waiting = jobQueue
<1>1. CASE djob = {}
  <2>1. Waiting = jobQueue BY <1>1 DEF Waiting, Held, TypeOK
  <2>2. QED BY <1>1, <2>1 DEF TypeOK, Places, QueuePlaces
<1>2. CASE djob # {}
  <2>1. PICK j \in Jobs : djob = {j} /\ job[j] = "held"
    BY <1>2 DEF Places, DispatcherPlaces
  <2>2. Waiting = <<j>> \o jobQueue BY <1>2, <2>1 DEF Waiting, Held
  <2>3. /\ Waiting \in Seq(Jobs) /\ Len(Waiting) = Len(jobQueue) + 1
        /\ Waiting[1] = j
        /\ \A i \in 2..Len(Waiting) : Waiting[i] = jobQueue[i - 1] /\ i - 1 \in 1..Len(jobQueue)
    BY <2>1, <2>2 DEF TypeOK
  <2>4. Head(Waiting) = j /\ Tail(Waiting) = jobQueue
    BY <2>2 DEF TypeOK
  <2>5. QED BY <1>2, <2>1, <2>3, <2>4 DEF Places, QueuePlaces
<1>3. QED BY <1>1, <1>2

THEOREM ImplementsQueue ==
  ASSUME ~LatePush
  PROVE  Spec => TQ!Spec
<1> DEFINE executing == {j \in Jobs : job[j] = "running"}
           finished == {j \in Jobs : job[j] \in {"ran", "done"}}
<1>1. Init => TQ!Init
  BY DEF Init, TQ!Init, Phase, Held
<1>2. TypeOK /\ OwnerOrder /\ Places /\ WgCountsOutstanding /\ Drained /\ [Next]_vars
        => [TQ!Next]_(TQ!vars)
  <2> SUFFICES ASSUME TypeOK, OwnerOrder, Places, WgCountsOutstanding, Drained, [Next]_vars
               PROVE  TQ!Next \/ UNCHANGED TQ!vars
    OBVIOUS
  <2>1. UNCHANGED <<opc, djob, jobQueue, job>> => UNCHANGED TQ!vars
    BY DEF TQ!vars, Phase, Held
  <2>2. CASE UNCHANGED vars BY <2>1, <2>2 DEF vars
  <2>3. CASE RunQueue
    <3>1. TQ!Open
      BY <2>3 DEF RunQueue, TQ!Open, Phase, Held, dispatcherVars
    <3>2. QED BY <3>1 DEF TQ!Next
  <2>4. CASE TerminateStore
    <3>1. TQ!Drain BY <2>4 DEF TerminateStore, TQ!Drain, Phase, Held, dispatcherVars
    <3>2. QED BY <3>1 DEF TQ!Next
  <2>5. CASE TerminateWait
    <3>1. IsFiniteSet(Outstanding)
      BY WorkerQueueAssumption, FS_Subset DEF Outstanding
    <3>2. Outstanding = {}
      BY <2>5, <3>1, FS_EmptySet DEF TerminateWait, WgCountsOutstanding
    <3>3. Waiting = <<>>
      <4>1. ASSUME Len(Waiting) > 0 PROVE FALSE
        <5>1. Waiting[1] \in Jobs /\ job[Waiting[1]] \in {"queued", "held"}
          BY <4>1, WaitingJobsAccepted
        <5>2. QED BY <3>2, <5>1 DEF Outstanding
      <4>2. QED BY <4>1, WaitingJobsAccepted
    <3>4. executing = {} BY <3>2 DEF Outstanding
    <3>5. TQ!Close
      BY <2>5, <3>3, <3>4 DEF TerminateWait, TQ!Close, Phase, Waiting, Held, dispatcherVars
    <3>6. QED BY <3>5 DEF TQ!Next
  <2>6. CASE CloseJobQueue \/ ClosePool \/ StartDispatcher
    <3>1. UNCHANGED <<djob, jobQueue, job>>
      BY <2>6 DEF CloseJobQueue, ClosePool, StartDispatcher, dispatcherVars
    <3>2. Phase' = Phase
      BY <2>6 DEF CloseJobQueue, ClosePool, StartDispatcher, Phase
    <3>3. QED BY <3>1, <3>2 DEF TQ!vars, Held
  <2>7. ASSUME NEW w \in Workers, StartWorker(w) \/ StopWorker(w) PROVE UNCHANGED TQ!vars
    BY <2>1, <2>7 DEF StartWorker, StopWorker, ownerVars, dispatcherVars
  <2>8. ASSUME NEW j \in Jobs, PushCheck(j) \/ PushAdd(j) PROVE UNCHANGED TQ!vars
    <3>1. /\ UNCHANGED <<opc, djob, jobQueue>>
          /\ \E s \in {"add", "dropped", "send"} : job' = [job EXCEPT ![j] = s]
          /\ job[j] \notin {"running", "ran", "done"}
      BY <2>8 DEF PushCheck, PushAdd, ownerVars, dispatcherVars
    <3>2. executing' = executing /\ finished' = finished
      BY <3>1 DEF TypeOK
    <3>3. Phase' = Phase /\ Held' = Held
      BY <3>1 DEF Phase, Held
    <3>4. QED BY <3>1, <3>2, <3>3 DEF TQ!vars
  <2>9. ASSUME NEW j \in Jobs, PushSend(j) PROVE TQ!Accept(j)
    <3>1. opc \in {"starting", "up"}
      BY <2>9 DEF PushSend, Drained, TerminateDrains, NoPushInFlight, TypeOK, OwnerStates
    <3>2. Waiting' = Append(Waiting, j)
      <4>1. Held \in Seq(Jobs) /\ Held' = Held
        BY <2>9 DEF Held, PushSend, dispatcherVars, TypeOK
      <4>2. QED BY <2>9, <4>1 DEF PushSend, Waiting, TypeOK
    <3>3. executing' = executing /\ finished' = finished
      BY <2>9 DEF PushSend, TypeOK
    <3>4. ~TQ!Known(j)
      BY <2>9, WaitingJobsAccepted DEF PushSend, TQ!Known, Waiting
    <3>5. QED
      BY <2>9, <3>1, <3>2, <3>3, <3>4 DEF PushSend, TQ!Accept, Phase, Waiting, ownerVars
  <2>10. CASE DispatchRecv
    <3>1. /\ djob = {} /\ djob' = {Head(jobQueue)} /\ jobQueue # <<>>
          /\ jobQueue' = Tail(jobQueue) /\ opc' = opc
          /\ Head(jobQueue) \in Jobs /\ job[Head(jobQueue)] = "queued"
          /\ job' = [job EXCEPT ![Head(jobQueue)] = "held"]
      BY <2>10 DEF DispatchRecv, Places, DispatcherPlaces, QueuePlaces, TypeOK, ownerVars
    <3>2. Held' = <<Head(jobQueue)>> /\ Held = <<>>
      BY <3>1 DEF Held
    <3>3. <<Head(jobQueue)>> \o Tail(jobQueue) = <<>> \o jobQueue
      BY <3>1 DEF TypeOK
    <3>4. executing' = executing /\ finished' = finished
      BY <3>1 DEF TypeOK
    <3>5. QED BY <3>1, <3>2, <3>3, <3>4 DEF TQ!vars, Phase
  <2>11. CASE DispatchTake \/ DispatchExit
    BY <2>1, <2>11 DEF DispatchTake, DispatchExit, ownerVars
  <2>12. CASE DispatchSend
    <3>1. PICK j \in Jobs : djob = {j} /\ job[j] = "held"
      BY <2>12 DEF DispatchSend, Places, DispatcherPlaces
    <3>2. Head(Waiting) = j /\ Tail(Waiting) = jobQueue /\ Waiting # <<>>
      BY <3>1, WaitingJobsAccepted
    <3>3. /\ job' = [job EXCEPT ![j] = "running"] /\ djob' = {}
          /\ jobQueue' = jobQueue /\ opc' = opc
      BY <2>12, <3>1 DEF DispatchSend, TypeOK, ownerVars
    <3>4. Waiting' = jobQueue
      BY <3>3 DEF Waiting, Held, TypeOK
    <3>5. executing' = executing \cup {j} /\ finished' = finished
      BY <3>1, <3>3 DEF TypeOK
    <3>6. opc \in {"starting", "up", "waiting"}
      BY <2>12, <3>1 DEF DispatchSend, Drained, TerminateDrains, OwnerOrder, TypeOK, OwnerStates
    <3>7. TQ!Begin
      BY <3>2, <3>3, <3>4, <3>5, <3>6 DEF TQ!Begin, Phase, Waiting
    <3>8. QED BY <3>7 DEF TQ!Next
  <2>13. ASSUME NEW w \in Workers, WorkerRan(w) PROVE TQ!Next
    <3>1. PICK j \in Jobs : wjob[w] = {j} /\ job[j] = "running"
      BY <2>13 DEF WorkerRan, Places, WorkerPlaces
    <3>2. executing' = executing \ {j} /\ finished' = finished \cup {j}
      BY <2>13, <3>1 DEF WorkerRan, TypeOK
    <3>3. TQ!Finish(j)
      BY <2>13, <3>1, <3>2 DEF WorkerRan, TQ!Finish, Phase, Held, ownerVars, dispatcherVars
    <3>4. QED BY <3>3 DEF TQ!Next
  <2>14. ASSUME NEW w \in Workers, WorkerDone(w) PROVE UNCHANGED TQ!vars
    <3>1. PICK j \in Jobs : wjob[w] = {j} /\ job[j] = "ran"
      BY <2>14 DEF WorkerDone, Places, WorkerPlaces
    <3>2. executing' = executing /\ finished' = finished
      BY <2>14, <3>1 DEF WorkerDone, TypeOK
    <3>3. QED BY <2>14, <3>2 DEF WorkerDone, TQ!vars, Phase, Held, ownerVars, dispatcherVars
  <2>15. ASSUME NEW w \in Workers, WorkerReturn(w) \/ WorkerPanic(w) \/ WorkerQuit(w) \/ WorkerExit(w)
         PROVE UNCHANGED TQ!vars
    BY <2>1, <2>15 DEF WorkerReturn, WorkerPanic, WorkerQuit, WorkerExit, ownerVars, dispatcherVars
  <2>16. ASSUME NEW j \in Jobs, Push(j) PROVE TQ!Next \/ UNCHANGED TQ!vars
    <3>1. PushPanic(j) => UNCHANGED TQ!vars
      BY <2>1 DEF PushPanic, ownerVars, dispatcherVars
    <3>2. QED BY <2>8, <2>9, <2>16, <3>1 DEF Push, TQ!Next
  <2>17. CASE DispatchPanic
    BY <2>1, <2>17 DEF DispatchPanic, ownerVars, dispatcherVars
  <2>18. ASSUME NEW w \in Workers, Worker(w) PROVE TQ!Next \/ UNCHANGED TQ!vars
    BY <2>13, <2>14, <2>15, <2>18 DEF Worker
  <2>19. QED
    BY <2>2, <2>3, <2>4, <2>5, <2>6, <2>7, <2>10, <2>11, <2>12, <2>16, <2>17, <2>18
    DEF Next, Owner, Dispatcher, Stopped
<1>3. QED
  BY <1>1, <1>2, TypeCorrect, OwnerOrderInvariant, PlacesInvariant, CountingCorrect,
     DrainedInvariant, PTL DEF Spec, TQ!Spec

(* TaskQueueProofs, of the state the channel queue shows its callers.      *)
Promises == INSTANCE TaskQueueProofs WITH
        phase <- Phase,
        waiting <- Held \o jobQueue,
        executing <- {j \in Jobs : job[j] = "running"},
        finished <- {j \in Jobs : job[j] \in {"ran", "done"}}

(* What the abstract queue promises, the channel queue keeps, because it   *)
(* implements it: jobs start in the order they entered the channel, none   *)
(* is lost or runs twice, and none is left once Terminate has waited       *)
(* (chan_queue.go:31-76).                                                  *)
THEOREM KeepsQueuePromises ==
  ASSUME ~LatePush
  PROVE  Spec => []Promises!QueueInv /\ [][Promises!KeepsItsOrder]_(Promises!vars)
<1>1. TQ!Init => Promises!Init
  BY DEF TQ!Init, Promises!Init
<1>2. [TQ!Next]_(TQ!vars) => [Promises!Next]_(Promises!vars)
  <2>1. UNCHANGED TQ!vars => UNCHANGED Promises!vars BY DEF TQ!vars, Promises!vars
  <2>2. TQ!Next => Promises!Next
    BY DEF TQ!Next, TQ!Open, TQ!Begin, TQ!Drain, TQ!Close, TQ!Accept, TQ!Known, TQ!Finish,
           Promises!Next, Promises!Open, Promises!Begin, Promises!Drain, Promises!Close,
           Promises!Accept, Promises!Known, Promises!Finish
  <2>3. QED BY <2>1, <2>2
<1>3. TQ!Spec => Promises!Spec
  BY <1>1, <1>2, PTL DEF TQ!Spec, Promises!Spec
<1>4. Promises!Spec => []Promises!QueueInv
  BY Promises!QueueSafe
<1>5. Promises!Spec => [][Promises!KeepsItsOrder]_(Promises!vars)
  BY Promises!JobsStartInAcceptedOrder
<1>6. QED BY ImplementsQueue, <1>3, <1>4, <1>5, PTL

-----------------------------------------------------------------------------
(* Whoever is in the pool or in the dispatcher's hand has finished its     *)
(* callback, whether or not pushes overlap Terminate: a worker leaves the  *)
(* pool before it gets a job and comes back after it.                      *)
THEOREM FreeWorkersInPool == Spec => []PoolHoldsFreeWorkers
<1> DEFINE Taken == dworker \notin pool
<1>1. Init => PoolHoldsFreeWorkers /\ Taken
  BY WorkerQueueAssumption DEF Init, PoolHoldsFreeWorkers
<1>2. TypeOK /\ PoolHoldsFreeWorkers /\ Taken /\ [Next]_vars
        => PoolHoldsFreeWorkers' /\ Taken'
  <2> SUFFICES ASSUME TypeOK, PoolHoldsFreeWorkers, Taken, [Next]_vars
               PROVE  PoolHoldsFreeWorkers' /\ Taken'
    OBVIOUS
  <2> USE WorkerQueueAssumption DEF PoolHoldsFreeWorkers, TypeOK
  <2>1. CASE UNCHANGED <<pool, dworker, wpc>> BY <2>1
  <2>2. ASSUME NEW w \in Workers, StartWorker(w) PROVE PoolHoldsFreeWorkers' /\ Taken'
    BY <2>2 DEF StartWorker, dispatcherVars
  <2>3. CASE DispatchTake BY <2>3 DEF DispatchTake, workerVars
  <2>4. CASE DispatchSend
    <3>1. dworker' = NoWorker /\ pool' = pool /\ dworker \notin pool
          /\ wpc' = [wpc EXCEPT ![dworker] = "running"]
      BY <2>4 DEF DispatchSend
    <3>2. QED BY <3>1
  <2>5. ASSUME NEW w \in Workers, Worker(w) PROVE PoolHoldsFreeWorkers' /\ Taken'
    <3>1. dworker' = dworker
      BY <2>5 DEF Worker, WorkerRan, WorkerReturn, WorkerDone, WorkerPanic, WorkerQuit,
                  WorkerExit, dispatcherVars
    <3>2. CASE WorkerRan(w) BY <3>1, <3>2 DEF WorkerRan
    <3>3. CASE WorkerReturn(w) BY <3>1, <3>3 DEF WorkerReturn
    <3>4. CASE WorkerDone(w) BY <3>1, <3>4 DEF WorkerDone
    <3>5. CASE WorkerPanic(w) BY <2>1, <3>1, <3>5 DEF WorkerPanic, workerVars
    <3>6. CASE WorkerQuit(w) BY <3>1, <3>6 DEF WorkerQuit
    <3>7. CASE WorkerExit(w) BY <3>1, <3>7 DEF WorkerExit
    <3>8. QED BY <2>5, <3>2, <3>3, <3>4, <3>5, <3>6, <3>7 DEF Worker
  <2>6. QED
    BY <2>1, <2>2, <2>3, <2>4, <2>5
    DEF Next, Owner, Push, Dispatcher, Stopped, vars, RunQueue, StartDispatcher,
        TerminateStore, TerminateWait, CloseJobQueue, StopWorker, ClosePool, PushCheck,
        PushAdd, PushSend, PushPanic, DispatchRecv, DispatchExit, DispatchPanic,
        workerVars, dispatcherVars
<1>3. QED BY <1>1, <1>2, TypeCorrect, PTL DEF Spec

-----------------------------------------------------------------------------
(* No job is lost on its way: each is where its state says it is.          *)
Located ==
  /\ \A j \in Jobs : job[j] = "queued" => \E i \in 1..Len(jobQueue) : jobQueue[i] = j
  /\ \A j \in Jobs : job[j] = "held" => djob = {j}
  /\ \A j \in Jobs : job[j] \in {"running", "ran"} => \E w \in Workers : wjob[w] = {j}

LEMMA LocatedInvariant == Spec => []Located
<1>1. Init => Located
  BY DEF Init, Located
<1>2. TypeOK /\ Places /\ Located /\ [Next]_vars => Located'
  <2> SUFFICES ASSUME TypeOK, Places, Located, [Next]_vars PROVE Located'
    OBVIOUS
  <2> USE DEF Located, TypeOK
  <2>1. CASE UNCHANGED <<jobQueue, job, djob, wjob>> BY <2>1
  <2>2. ASSUME NEW j \in Jobs, PushCheck(j) \/ PushAdd(j) PROVE Located'
    BY <2>2 DEF PushCheck, PushAdd, dispatcherVars, workerVars
  <2>3. ASSUME NEW j \in Jobs, PushSend(j) PROVE Located'
    <3>1. /\ jobQueue' = Append(jobQueue, j) /\ job' = [job EXCEPT ![j] = "queued"]
          /\ UNCHANGED <<djob, wjob>>
      BY <2>3 DEF PushSend, dispatcherVars, workerVars
    <3>2. /\ Len(jobQueue') = Len(jobQueue) + 1 /\ jobQueue'[Len(jobQueue) + 1] = j
          /\ \A i \in 1..Len(jobQueue) : jobQueue'[i] = jobQueue[i] /\ i \in 1..Len(jobQueue')
          /\ Len(jobQueue) + 1 \in 1..Len(jobQueue')
      BY <3>1
    <3>3. QED BY <3>1, <3>2
  <2>4. CASE DispatchRecv
    <3> DEFINE h == Head(jobQueue)
    <3>1. /\ dpc = "recv" /\ jobQueue' = Tail(jobQueue) /\ jobQueue # <<>>
          /\ djob' = {h} /\ job' = [job EXCEPT ![h] = "held"] /\ wjob' = wjob
      BY <2>4 DEF DispatchRecv, workerVars
    <3>2. h = jobQueue[1] /\ h \in Jobs /\ job[h] = "queued"
      BY <3>1 DEF Places, QueuePlaces
    <3>3. \A j \in Jobs : job[j] # "held"
      BY <3>1 DEF Places, DispatcherPlaces
    <3>4. ASSUME NEW j \in Jobs, job'[j] = "queued"
          PROVE  \E i \in 1..Len(jobQueue') : jobQueue'[i] = j
      <4>1. job[j] = "queued" /\ j # h
        BY <3>1, <3>2, <3>4
      <4>2. PICK i \in 1..Len(jobQueue) : jobQueue[i] = j
        BY <4>1
      <4>3. i # 1
        BY <3>2, <4>1, <4>2
      <4>4. i - 1 \in 1..Len(jobQueue') /\ jobQueue'[i - 1] = jobQueue[i]
        BY <3>1, <4>3
      <4>5. QED BY <4>2, <4>4
    <3>5. QED BY <3>1, <3>2, <3>3, <3>4
  <2>5. CASE DispatchSend
    <3>1. PICK j \in Jobs : djob = {j} /\ job[j] = "held"
      BY <2>5 DEF DispatchSend, Places, DispatcherPlaces
    <3>2. /\ job' = [job EXCEPT ![j] = "running"]
          /\ dworker \in Workers /\ wpc[dworker] = "idle"
          /\ wjob' = [wjob EXCEPT ![dworker] = {j}] /\ jobQueue' = jobQueue
      BY <2>5, <3>1 DEF DispatchSend
    <3>3. wjob[dworker] = {}
      BY <3>2 DEF Places, WorkerPlaces
    <3>4. ASSUME NEW i \in Jobs, job'[i] \in {"running", "ran"} PROVE \E w \in Workers : wjob'[w] = {i}
      <4>1. CASE i = j BY <3>2, <4>1
      <4>2. CASE i # j
        <5>1. PICK w \in Workers : wjob[w] = {i}
          BY <3>2, <3>4, <4>2
        <5>2. QED BY <3>2, <3>3, <5>1
      <4>3. QED BY <4>1, <4>2
    <3>5. QED BY <3>1, <3>2, <3>4
  <2>6. ASSUME NEW w \in Workers, WorkerRan(w) PROVE Located'
    <3>1. PICK j \in Jobs : wjob[w] = {j} /\ job[j] = "running"
      BY <2>6 DEF WorkerRan, Places, WorkerPlaces
    <3>2. job' = [job EXCEPT ![j] = "ran"] /\ UNCHANGED <<jobQueue, djob, wjob>>
      BY <2>6, <3>1 DEF WorkerRan, dispatcherVars
    <3>3. QED BY <3>1, <3>2
  <2>7. ASSUME NEW w \in Workers, WorkerDone(w) PROVE Located'
    <3>1. PICK j \in Jobs : wjob[w] = {j} /\ job[j] = "ran"
      BY <2>7 DEF WorkerDone, Places, WorkerPlaces
    <3>2. /\ job' = [job EXCEPT ![j] = "done"] /\ wjob' = [wjob EXCEPT ![w] = {}]
          /\ UNCHANGED <<jobQueue, djob>>
      BY <2>7, <3>1 DEF WorkerDone, dispatcherVars
    <3>3. QED BY <3>1, <3>2
  <2>8. QED
    BY <2>1, <2>2, <2>3, <2>4, <2>5, <2>6, <2>7
    DEF Next, Owner, Push, Dispatcher, Worker, Stopped, vars, dispatcherVars, workerVars,
        RunQueue, StartWorker, StartDispatcher, TerminateStore, TerminateWait, CloseJobQueue,
        StopWorker, ClosePool, PushPanic, DispatchExit, DispatchTake, DispatchPanic,
        WorkerReturn, WorkerPanic, WorkerQuit, WorkerExit
<1>3. QED BY <1>1, <1>2, TypeCorrect, PlacesInvariant, PTL DEF Spec

-----------------------------------------------------------------------------
(* The jobs whose callbacks run.                                           *)
Executing == {j \in Jobs : job[j] = "running"}

(* What the router's model takes of the queue for granted: at most the     *)
(* buffer and the dispatcher's job wait, and at most maxThread jobs run.   *)
WithinBounds ==
  /\ Len(Waiting) <= MaxCapacity + 1
  /\ IsFiniteSet(Executing) /\ Cardinality(Executing) <= Cardinality(Workers)

(* A worker holds one job, so as many jobs run as there are workers to     *)
(* hold them (chan_queue.go:31-50, worker.go:30-43).                       *)
THEOREM QueueStaysWithinBounds == Spec => []WithinBounds
<1>1. TypeOK /\ Places => Len(Waiting) <= MaxCapacity + 1
  <2> SUFFICES ASSUME TypeOK, Places PROVE Len(Waiting) <= MaxCapacity + 1
    OBVIOUS
  <2>1. MaxCapacity \in Nat /\ jobQueue \in Seq(Jobs) /\ Len(jobQueue) <= MaxCapacity
    BY WorkerQueueAssumption DEF TypeOK
  <2>2. CASE djob = {}
    <3>1. Waiting = jobQueue BY <2>1, <2>2 DEF Waiting, Held
    <3>2. QED BY <2>1, <3>1
  <2>3. CASE djob # {}
    <3>1. PICK j \in Jobs : djob = {j} BY <2>3 DEF Places, DispatcherPlaces
    <3>2. Waiting = <<j>> \o jobQueue BY <3>1 DEF Waiting, Held
    <3>3. Len(Waiting) = Len(jobQueue) + 1 BY <2>1, <3>2
    <3>4. QED BY <2>1, <3>3
  <2>4. QED BY <2>2, <2>3
<1>2. TypeOK /\ Located => IsFiniteSet(Executing) /\ Cardinality(Executing) <= Cardinality(Workers)
  <2> SUFFICES ASSUME Located
               PROVE  IsFiniteSet(Executing) /\ Cardinality(Executing) <= Cardinality(Workers)
    OBVIOUS
  <2> DEFINE holder == [j \in Executing |-> CHOOSE w \in Workers : wjob[w] = {j}]
  <2>1. \A j \in Executing : holder[j] \in Workers /\ wjob[holder[j]] = {j}
    BY DEF Executing, Located
  <2>2. \A i, j \in Executing : holder[i] = holder[j] => i = j
    BY <2>1
  <2>3. holder \in Injection(Executing, Workers)
    BY <2>1, <2>2 DEF Injection, IsInjective
  <2>4. QED BY <2>3, FS_Injection, WorkerQueueAssumption
<1>3. QED
  BY <1>1, <1>2, TypeCorrect, PlacesInvariant, LocatedInvariant, PTL DEF WithinBounds

-----------------------------------------------------------------------------
(* No worker is lost either: until Terminate stops the workers, each one   *)
(* that has nothing to do is in the pool or in the dispatcher's hand, and  *)
(* the dispatcher is there to take it.                                     *)
Staffed ==
  /\ opc \notin {"new", "starting"} => dpc # "off" /\ \A w \in Workers : wpc[w] # "off"
  /\ dpc = "exited" => opc \in {"stopping", "down"}
  /\ dpc # "send" => dworker = NoWorker
  /\ dpc = "send" /\ ~PoolClosed => dworker \in Workers
  /\ opc = "down" => quit = Workers
  /\ opc \notin {"stopping", "down"} =>
       \A w \in Workers : wpc[w] \in {"idle", "done"} => w \in pool \cup {dworker}

LEMMA StaffedInvariant == Spec => []Staffed
<1>1. Init => Staffed
  BY DEF Init, Staffed
<1>2. TypeOK /\ OwnerOrder /\ Staffed /\ [Next]_vars => Staffed'
  <2> SUFFICES ASSUME TypeOK, OwnerOrder, Staffed, [Next]_vars PROVE Staffed'
    OBVIOUS
  <2> USE DEF TypeOK, OwnerOrder, Staffed, PoolClosed
  <2>1. CASE UNCHANGED <<opc, quit, pool, dpc, dworker, wpc>> BY <2>1
  <2>2. CASE RunQueue \/ StartDispatcher \/ TerminateStore \/ TerminateWait \/ CloseJobQueue \/ ClosePool
    BY <2>2 DEF RunQueue, StartDispatcher, TerminateStore, TerminateWait, CloseJobQueue, ClosePool,
                dispatcherVars, workerVars
  <2>3. ASSUME NEW w \in Workers, StartWorker(w) \/ StopWorker(w) PROVE Staffed'
    BY <2>3 DEF StartWorker, StopWorker, ownerVars, dispatcherVars, workerVars
  <2>4. ASSUME NEW j \in Jobs, Push(j) PROVE Staffed'
    BY <2>1, <2>4 DEF Push, PushCheck, PushAdd, PushSend, PushPanic,
                      ownerVars, dispatcherVars, workerVars
  <2>5. CASE DispatchRecv \/ DispatchExit \/ DispatchPanic
    BY <2>5 DEF DispatchRecv, DispatchExit, DispatchPanic, JobQueueClosed,
                ownerVars, dispatcherVars, workerVars
  <2>6. CASE DispatchTake
    <3>1. dpc = "take" /\ dpc' = "send" /\ dworker = NoWorker /\ UNCHANGED <<opc, quit, wpc>>
      BY <2>6 DEF DispatchTake, ownerVars, workerVars
    <3>2. CASE \E w \in pool : dworker' = w /\ pool' = pool \ {w}
      BY <3>1, <3>2, WorkerQueueAssumption
    <3>3. CASE PoolClosed /\ dworker' = NoWorker
      BY <3>1, <3>3
    <3>4. QED BY <2>6, <3>2, <3>3 DEF DispatchTake
  <2>7. CASE DispatchSend
    <3>1. /\ wpc' = [wpc EXCEPT ![dworker] = "running"] /\ dworker' = NoWorker /\ dpc' = "recv"
          /\ dpc = "send" /\ dworker \in Workers /\ UNCHANGED <<opc, quit, pool>>
      BY <2>7 DEF DispatchSend, ownerVars
    <3>2. QED BY <3>1
  <2>8. ASSUME NEW w \in Workers, Worker(w) PROVE Staffed'
    <3>1. UNCHANGED <<opc, quit, dpc, dworker>>
      BY <2>8 DEF Worker, WorkerRan, WorkerReturn, WorkerDone, WorkerPanic, WorkerQuit,
                  WorkerExit, ownerVars, dispatcherVars
    <3>2. CASE WorkerRan(w) \/ WorkerReturn(w) \/ WorkerDone(w) \/ WorkerPanic(w)
      BY <3>1, <3>2 DEF WorkerRan, WorkerReturn, WorkerDone, WorkerPanic, workerVars
    <3>3. CASE WorkerQuit(w) \/ WorkerExit(w)
      BY <3>1, <3>3 DEF WorkerQuit, WorkerExit
    <3>4. QED BY <2>8, <3>2, <3>3 DEF Worker
  <2>9. QED
    BY <2>1, <2>2, <2>3, <2>4, <2>5, <2>6, <2>7, <2>8
    DEF Next, Owner, Dispatcher, Stopped, vars
<1>3. QED BY <1>1, <1>2, TypeCorrect, OwnerOrderInvariant, PTL DEF Spec

-----------------------------------------------------------------------------
(* Who can take a step: the guards of the dispatcher's, a worker's, a      *)
(* caller's and the owner's steps, that is of Dispatcher, Worker(w),       *)
(* PushGoesOn(j) and OwnerGoesOn.                                          *)
DispatcherCanMove ==
  \/ dpc = "recv" /\ (jobQueue # <<>> \/ JobQueueClosed)
  \/ dpc = "take" /\ (pool # {} \/ PoolClosed)
  \/ dpc = "send" /\ dworker # NoWorker /\ wpc[dworker] \in {"idle", "exited"}

WorkerHasJob(w) == wpc[w] \in {"running", "return", "done"}

WorkerCanMove(w) ==
  \/ WorkerHasJob(w)
  \/ wpc[w] = "idle" /\ w \in quit
  \/ wpc[w] = "quitting" /\ (pool # {} \/ PoolClosed)

PushCanMove(j) ==
  \/ job[j] = "add"
  \/ job[j] = "send" /\ (Len(jobQueue) < MaxCapacity \/ JobQueueClosed)

OwnerCanMove ==
  \/ opc \in {"starting", "closing", "stopping"}
  \/ opc = "waiting" /\ wg = 0

(* While a job is between Push and the end of its callback, somebody can   *)
(* take a step for it: Run has not ended, the dispatcher goes on, a worker *)
(* has a job, or a Push has room.                                          *)
JobsGoOn ==
  Outstanding # {} =>
    \/ opc = "starting"
    \/ DispatcherCanMove
    \/ \E w \in Workers : WorkerHasJob(w)
    \/ \E j \in Jobs : PushCanMove(j)

(* Once Terminate is called, somebody can take a step until every          *)
(* goroutine has ended.                                                    *)
Ended == opc = "down" /\ dpc = "exited" /\ \A w \in Workers : wpc[w] = "exited"

TerminateGoesOn ==
  opc \in {"waiting", "closing", "stopping", "down"} =>
    \/ Ended
    \/ OwnerCanMove
    \/ DispatcherCanMove
    \/ \E w \in Workers : WorkerCanMove(w)
    \/ \E j \in Jobs : PushCanMove(j)

LEMMA SomebodyMoves ==
  ASSUME Workers # {}, TypeOK, OwnerOrder, Places, WgCountsOutstanding, Drained, Located,
         Staffed, PoolHoldsFreeWorkers
  PROVE  JobsGoOn /\ TerminateGoesOn
<1> USE DEF TypeOK, JobStates, OwnerStates, DispatcherStates, WorkerStates
<1>1. ASSUME Outstanding # {}, opc # "starting", ~DispatcherCanMove,
             \A w \in Workers : ~WorkerHasJob(w), \A j \in Jobs : ~PushCanMove(j)
      PROVE  FALSE
  <2>1. opc \in {"up", "waiting"}
    BY <1>1 DEF Outstanding, Drained, TerminateDrains
  <2>2. dpc \in {"recv", "take", "send"}
    BY <2>1 DEF Staffed
  <2>3. CASE dpc = "recv"
    <3>1. jobQueue = <<>> /\ Len(jobQueue) < MaxCapacity
      BY <1>1, <2>3, WorkerQueueAssumption DEF DispatcherCanMove
    <3>2. djob = {}
      BY <2>3 DEF Places, DispatcherPlaces
    <3>3. \A w \in Workers : wjob[w] = {}
      BY <1>1 DEF WorkerHasJob, Places, WorkerPlaces
    <3>4. PICK j \in Jobs : job[j] \in {"send", "queued", "held", "running", "ran"}
      BY <1>1 DEF Outstanding
    <3>5. job[j] # "send"
      BY <1>1, <3>1 DEF PushCanMove
    <3>6. QED BY <3>1, <3>2, <3>3, <3>4, <3>5 DEF Located
  <2>4. CASE dpc = "take"
    <3>1. pool = {} /\ dworker = NoWorker
      BY <1>1, <2>4 DEF DispatcherCanMove, Staffed
    <3>2. PICK w \in Workers : TRUE
      OBVIOUS
    <3>3. wpc[w] \in {"idle", "quitting", "exited"}
      BY <1>1, <2>1 DEF WorkerHasJob, Staffed
    <3>4. QED BY <2>1, <3>1, <3>3, WorkerQueueAssumption DEF Staffed, OwnerOrder
  <2>5. CASE dpc = "send"
    <3>1. dworker \in Workers
      BY <2>1, <2>5 DEF Staffed, PoolClosed
    <3>2. wpc[dworker] \in {"idle", "done", "quitting", "exited"}
      BY <3>1 DEF PoolHoldsFreeWorkers
    <3>3. wpc[dworker] = "idle"
      BY <1>1, <2>1, <3>1, <3>2 DEF WorkerHasJob, OwnerOrder
    <3>4. QED BY <1>1, <2>5, <3>1, <3>3, WorkerQueueAssumption DEF DispatcherCanMove
  <2>6. QED BY <2>2, <2>3, <2>4, <2>5
<1>2. JobsGoOn
  BY <1>1 DEF JobsGoOn
<1>3. CASE opc = "waiting"
  <2>1. Outstanding = {} => wg = 0
    BY FS_EmptySet DEF WgCountsOutstanding
  <2>2. QED BY <1>2, <1>3, <2>1 DEF JobsGoOn, TerminateGoesOn, OwnerCanMove, WorkerCanMove
<1>4. CASE opc \in {"closing", "stopping"}
  BY <1>2, <1>4 DEF TerminateGoesOn, OwnerCanMove
<1>5. CASE opc = "down"
  <2>1. \A j \in Jobs : job[j] \in {"new", "dropped", "done"}
    BY <1>5 DEF Drained, TerminateDrains
  <2>2. dpc \in {"recv", "exited"}
    BY <1>5, <2>1 DEF Staffed, Places, DispatcherPlaces
  <2>3. dpc = "recv" => DispatcherCanMove
    BY <1>5 DEF DispatcherCanMove, JobQueueClosed
  <2>4. ASSUME NEW w \in Workers, wpc[w] # "exited" PROVE WorkerCanMove(w)
    BY <1>5, <2>4 DEF WorkerCanMove, WorkerHasJob, Staffed, PoolClosed
  <2>5. QED BY <1>2, <1>5, <2>2, <2>3, <2>4 DEF TerminateGoesOn, Ended
<1>6. QED BY <1>2, <1>3, <1>4, <1>5 DEF TerminateGoesOn

(* The queue never stands still with a job in its hands: at least one      *)
(* worker, and pushes that do not overlap the store in Terminate, are all  *)
(* it takes, whatever the buffer size (chan_queue.go:31-76, worker.go).    *)
THEOREM JobsAlwaysGoOn ==
  ASSUME ~LatePush, Workers # {}
  PROVE  Spec => []JobsGoOn
BY SomebodyMoves, TypeCorrect, OwnerOrderInvariant, PlacesInvariant, CountingCorrect,
   DrainedInvariant, LocatedInvariant, StaffedInvariant, FreeWorkersInPool, PTL

(* Terminate never blocks for good: not in wg.Wait, and not on a worker    *)
(* that waits for the pool (chan_queue.go:53-66, worker.go).               *)
THEOREM TerminateAlwaysGoesOn ==
  ASSUME ~LatePush, Workers # {}
  PROVE  Spec => []TerminateGoesOn
BY SomebodyMoves, TypeCorrect, OwnerOrderInvariant, PlacesInvariant, CountingCorrect,
   DrainedInvariant, LocatedInvariant, StaffedInvariant, FreeWorkersInPool, PTL
=============================================================================
