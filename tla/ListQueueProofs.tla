-------------------------- MODULE ListQueueProofs --------------------------
(***************************************************************************)
(* Proofs about the list queue (list_queue.go, worker.go) for any finite   *)
(* sets of jobs and workers, any limit and any number of pushers.          *)
(***************************************************************************)
EXTENDS ListQueue, FiniteSetTheorems, TLAPS

(* Everything of TypeOK but the sign of the WaitGroup's counter, which     *)
(* needs to know where the jobs are; and the dispatcher has an element.    *)
Typed ==
  /\ wg \in Int
  /\ list \in Seq(Jobs)
  /\ pool \subseteq Workers
  /\ job \in [Jobs -> JobStates]
  /\ opc \in OwnerStates
  /\ dpc \in DispatcherStates
  /\ dworker \subseteq Workers
  /\ wpc \in [Workers -> WorkerStates]
  /\ wjob \in [Workers -> SUBSET Jobs]
  /\ dpc \in {"take", "send", "remove"} => list # <<>>

LEMMA TypedInvariant == Spec => []Typed
<1>1. Init => Typed
  BY DEF Init, Typed, JobStates, OwnerStates, DispatcherStates, WorkerStates
<1>2. Typed /\ [Next]_vars => Typed'
  <2> SUFFICES ASSUME Typed, [Next]_vars PROVE Typed'
    OBVIOUS
  <2> USE DEF Typed, JobStates, OwnerStates, DispatcherStates, WorkerStates
  <2>1. CASE UNCHANGED vars BY <2>1 DEF vars
  <2>2. CASE RunQueue BY <2>2 DEF RunQueue
  <2>3. CASE TerminateStore BY <2>3 DEF TerminateStore
  <2>4. CASE TerminateWait BY <2>4 DEF TerminateWait
  <2>5. CASE StopWorkers BY <2>5 DEF StopWorkers
  <2>6. CASE ClosePool BY <2>6 DEF ClosePool
  <2>7. ASSUME NEW j \in Jobs, PushCheck(j) PROVE Typed'
    BY <2>7 DEF PushCheck
  <2>8. ASSUME NEW j \in Jobs, PushTest(j) PROVE Typed'
    BY <2>8 DEF PushTest
  <2>9. ASSUME NEW j \in Jobs, PushAdd(j) PROVE Typed'
    BY <2>9 DEF PushAdd
  <2>10. ASSUME NEW j \in Jobs, PushAppend(j) PROVE Typed'
    BY <2>10 DEF PushAppend
  <2>11. CASE DispatchLook BY <2>11 DEF DispatchLook
  <2>12. CASE DispatchTake BY <2>12 DEF DispatchTake
  <2>13. CASE DispatchSend
    <3>1. Head(list) \in Jobs BY <2>13 DEF DispatchSend
    <3>2. PICK w \in dworker :
            /\ wpc' = [wpc EXCEPT ![w] = "running"]
            /\ wjob' = [wjob EXCEPT ![w] = {Head(list)}]
      BY <2>13 DEF DispatchSend
    <3>3. QED BY <2>13, <3>1, <3>2 DEF DispatchSend
  <2>14. CASE DispatchRemove
    <3>1. Tail(list) \in Seq(Jobs) BY <2>14 DEF DispatchRemove
    <3>2. QED BY <2>14, <3>1 DEF DispatchRemove
  <2>15. ASSUME NEW w \in Workers, WorkerRan(w) PROVE Typed'
    BY <2>15 DEF WorkerRan
  <2>16. ASSUME NEW w \in Workers, WorkerReturn(w) PROVE Typed'
    BY <2>16 DEF WorkerReturn
  <2>17. ASSUME NEW w \in Workers, WorkerDone(w) PROVE Typed'
    BY <2>17 DEF WorkerDone
  <2>18. ASSUME NEW w \in Workers, WorkerQuit(w) PROVE Typed'
    BY <2>18 DEF WorkerQuit
  <2>19. ASSUME NEW w \in Workers, WorkerExit(w) PROVE Typed'
    BY <2>19 DEF WorkerExit
  <2>20. QED
    BY <2>1, <2>2, <2>3, <2>4, <2>5, <2>6, <2>7, <2>8, <2>9, <2>10, <2>11, <2>12, <2>13,
       <2>14, <2>15, <2>16, <2>17, <2>18, <2>19
    DEF Next, Owner, Push, Dispatcher, Worker, Stopped
<1>3. QED BY <1>1, <1>2, PTL DEF Spec

-----------------------------------------------------------------------------
(* Where the jobs are: the list holds what was appended and not handed     *)
(* over, and while the dispatcher is about to remove it the front one that *)
(* was; each busy worker has a job of its own.                             *)
ListPlaces ==
  /\ \A i \in 1..Len(list) :
       IF i = 1 /\ dpc = "remove" THEN job[list[i]] \in {"running", "ran", "done"}
                                  ELSE job[list[i]] = "listed"
  /\ \A i, k \in 1..Len(list) : list[i] = list[k] => i = k

WorkerPlaces ==
  \A w \in Workers :
    /\ wpc[w] = "running" => \E j \in Jobs : wjob[w] = {j} /\ job[j] = "running"
    /\ wpc[w] \in {"return", "done"} => \E j \in Jobs : wjob[w] = {j} /\ job[j] = "ran"
    /\ wpc[w] \notin {"running", "return", "done"} => wjob[w] = {}
    /\ \A v \in Workers : v # w => wjob[v] \cap wjob[w] = {}

Started ==
  opc = "new" =>
    /\ list = <<>>
    /\ \A w \in Workers : wjob[w] = {}
    /\ \A j \in Jobs : job[j] \in {"new", "dropped"}

Places == ListPlaces /\ WorkerPlaces /\ Started

LEMMA PlacesInvariant == Spec => []Places
<1>1. Init => Places
  BY DEF Init, Places, ListPlaces, WorkerPlaces, Started
<1>2. Typed /\ Places /\ [Next]_vars => Places'
  <2> SUFFICES ASSUME Typed, Places, [Next]_vars PROVE Places'
    OBVIOUS
  <2> USE DEF Places
  <2>1. CASE UNCHANGED vars
    BY <2>1 DEF vars, ListPlaces, WorkerPlaces, Started
  <2>2. CASE Owner
    <3>1. UNCHANGED <<list, job, wjob>> /\ (dpc' = dpc \/ list = <<>>)
      BY <2>2 DEF Owner, RunQueue, TerminateStore, TerminateWait, StopWorkers, ClosePool, Started
    <3>2. ListPlaces' BY <3>1 DEF ListPlaces
    <3>3. wpc' = wpc \/ (wpc' = [w \in Workers |-> "idle"] /\ \A w \in Workers : wjob[w] = {})
      BY <2>2 DEF Owner, RunQueue, TerminateStore, TerminateWait, StopWorkers, ClosePool, Started
    <3>4. WorkerPlaces' BY <3>1, <3>3 DEF WorkerPlaces
    <3>5. Started'
      BY <2>2, <3>1 DEF Owner, RunQueue, TerminateStore, TerminateWait, StopWorkers, ClosePool, Started
    <3>6. QED BY <3>2, <3>4, <3>5
  (* Until it is appended a job is in none of the places. *)
  <2>3. ASSUME NEW j \in Jobs, NEW s \in JobStates,
               job[j] \in {"new", "test", "add"}, job' = [job EXCEPT ![j] = s],
               opc = "new" => s = "dropped",
               UNCHANGED <<list, dpc, wpc, wjob, opc>>
        PROVE Places'
    <3>1. ListPlaces' BY <2>3 DEF ListPlaces, Typed
    <3>2. WorkerPlaces' BY <2>3 DEF WorkerPlaces, Typed
    <3>3. Started' BY <2>3 DEF Started, Typed
    <3>4. QED BY <3>1, <3>2, <3>3
  <2>4. ASSUME NEW j \in Jobs, PushCheck(j) \/ PushTest(j) \/ PushAdd(j) PROVE Places'
    BY <2>3, <2>4 DEF PushCheck, PushTest, PushAdd, JobStates, Running, Started
  <2>5. ASSUME NEW j \in Jobs, PushAppend(j) PROVE Places'
    <3>1. /\ list' = Append(list, j) /\ job[j] = "append"
          /\ job' = [job EXCEPT ![j] = "listed"]
          /\ UNCHANGED <<dpc, wpc, wjob, opc>>
      BY <2>5 DEF PushAppend
    <3>2. /\ Len(list') = Len(list) + 1
          /\ \A i \in 1..Len(list) : list'[i] = list[i] /\ list[i] \in Jobs
          /\ list'[Len(list) + 1] = j
      BY <3>1 DEF Typed
    <3>3. \A i \in 1..Len(list) : list[i] # j
      BY <3>1 DEF ListPlaces
    <3>4. dpc = "remove" => Len(list) > 0
      BY DEF Typed
    <3>5. ListPlaces'
      BY <3>1, <3>2, <3>3, <3>4 DEF ListPlaces, Typed
    <3>6. WorkerPlaces' BY <3>1 DEF WorkerPlaces, Typed
    <3>7. QED BY <3>1, <3>5, <3>6 DEF Started
  <2>6. CASE DispatchLook \/ DispatchTake
    <3>1. UNCHANGED <<list, job, wpc, wjob, opc>> /\ dpc # "remove" /\ dpc' # "remove"
      BY <2>6 DEF DispatchLook, DispatchTake
    <3>2. QED BY <3>1 DEF ListPlaces, WorkerPlaces, Started
  <2>7. CASE DispatchSend
    <3> DEFINE j == Head(list)
    <3>1. PICK w \in dworker :
            /\ wpc[w] = "idle"
            /\ wpc' = [wpc EXCEPT ![w] = "running"]
            /\ wjob' = [wjob EXCEPT ![w] = {j}]
      BY <2>7 DEF DispatchSend
    <3>2. /\ dpc = "send" /\ dpc' = "remove" /\ list' = list /\ opc' = opc
          /\ job' = [job EXCEPT ![j] = "running"]
      BY <2>7 DEF DispatchSend
    <3>3. /\ j \in Jobs /\ j = list[1] /\ 1 \in 1..Len(list) /\ w \in Workers
      BY <3>2 DEF Typed
    <3>4. job[j] = "listed" BY <3>2, <3>3 DEF ListPlaces
    <3>5. ListPlaces' BY <3>2, <3>3 DEF ListPlaces, Typed
    <3>6. \A v \in Workers : j \notin wjob[v]
      BY <3>4 DEF WorkerPlaces, Typed, WorkerStates
    <3>7. WorkerPlaces' BY <3>1, <3>2, <3>3, <3>4, <3>6 DEF WorkerPlaces, Typed
    <3>8. Started' BY <3>2, <3>3, <3>4 DEF Started
    <3>9. QED BY <3>5, <3>7, <3>8
  <2>8. CASE DispatchRemove
    <3>1. /\ dpc = "remove" /\ dpc' = "look" /\ list' = Tail(list)
          /\ UNCHANGED <<job, wpc, wjob, opc>>
      BY <2>8 DEF DispatchRemove
    <3>2. /\ list # <<>> /\ Len(list') = Len(list) - 1
          /\ \A i \in 1..Len(list') : list'[i] = list[i + 1] /\ i + 1 \in 1..Len(list)
      BY <3>1 DEF Typed
    <3>3. ListPlaces' BY <3>1, <3>2 DEF ListPlaces, Typed
    <3>4. QED BY <3>1, <3>2, <3>3 DEF WorkerPlaces, Started
  <2>9. ASSUME NEW w \in Workers, WorkerRan(w) PROVE Places'
    <3>1. PICK j \in Jobs : wjob[w] = {j} /\ job[j] = "running"
      BY <2>9 DEF WorkerRan, WorkerPlaces
    <3>2. /\ job' = [job EXCEPT ![j] = "ran"]
          /\ wpc[w] = "running" /\ wpc' = [wpc EXCEPT ![w] = "return"]
          /\ UNCHANGED <<wjob, list, dpc, opc>>
      BY <2>9, <3>1 DEF WorkerRan, Typed
    <3>3. ListPlaces' BY <3>1, <3>2 DEF ListPlaces, Typed
    <3>4. WorkerPlaces' BY <3>1, <3>2 DEF WorkerPlaces, Typed
    <3>5. QED BY <3>1, <3>2, <3>3, <3>4 DEF Started
  <2>10. ASSUME NEW w \in Workers, WorkerDone(w) PROVE Places'
    <3>1. PICK j \in Jobs : wjob[w] = {j} /\ job[j] = "ran"
      BY <2>10 DEF WorkerDone, WorkerPlaces
    <3>2. /\ job' = [job EXCEPT ![j] = "done"]
          /\ wpc[w] = "done" /\ wpc' = [wpc EXCEPT ![w] = "idle"]
          /\ wjob' = [wjob EXCEPT ![w] = {}]
          /\ UNCHANGED <<list, dpc, opc>>
      BY <2>10, <3>1 DEF WorkerDone, Typed
    <3>3. ListPlaces' BY <3>1, <3>2 DEF ListPlaces, Typed
    <3>4. WorkerPlaces'
      <4>1. /\ wpc'[w] = "idle" /\ wjob'[w] = {}
            /\ \A v \in Workers \ {w} : wpc'[v] = wpc[v] /\ wjob'[v] = wjob[v] /\ j \notin wjob[v]
        BY <3>1, <3>2 DEF WorkerPlaces, Typed
      <4>2. \A i \in Jobs \ {j} : job'[i] = job[i]
        BY <3>2 DEF Typed
      <4>3. QED BY <4>1, <4>2 DEF WorkerPlaces
    <3>5. QED BY <3>1, <3>2, <3>3, <3>4 DEF Started
  <2>11. ASSUME NEW w \in Workers, WorkerReturn(w) \/ WorkerQuit(w) \/ WorkerExit(w)
         PROVE Places'
    <3>1. /\ UNCHANGED <<list, job, dpc, wjob, opc>>
          /\ \/ wpc[w] = "return" /\ wpc' = [wpc EXCEPT ![w] = "done"]
             \/ wpc[w] = "idle" /\ wpc' = [wpc EXCEPT ![w] = "quitting"]
             \/ wpc[w] = "quitting" /\ wpc' = [wpc EXCEPT ![w] = "exited"]
      BY <2>11 DEF WorkerReturn, WorkerQuit, WorkerExit
    <3>2. CASE wpc[w] = "return" /\ wpc' = [wpc EXCEPT ![w] = "done"]
      BY <3>1, <3>2 DEF ListPlaces, WorkerPlaces, Started, Typed
    <3>3. CASE wpc[w] = "idle" /\ wpc' = [wpc EXCEPT ![w] = "quitting"]
      BY <3>1, <3>3 DEF ListPlaces, WorkerPlaces, Started, Typed
    <3>4. CASE wpc[w] = "quitting" /\ wpc' = [wpc EXCEPT ![w] = "exited"]
      BY <3>1, <3>4 DEF ListPlaces, WorkerPlaces, Started, Typed
    <3>5. QED BY <3>1, <3>2, <3>3, <3>4
  <2>12. QED
    BY <2>1, <2>2, <2>4, <2>5, <2>6, <2>7, <2>8, <2>9, <2>10, <2>11
    DEF Next, Push, Dispatcher, Worker, Stopped
<1>3. QED BY <1>1, <1>2, TypedInvariant, PTL DEF Spec

-----------------------------------------------------------------------------
(* The WaitGroup counts the jobs between wg.Add and wg.Done, though the    *)
(* list still shows one that is done.                                      *)
THEOREM CountingCorrect == Spec => []WgCountsOutstanding
<1>1. Init => WgCountsOutstanding
  <2> SUFFICES ASSUME Init PROVE wg = Cardinality(Outstanding)
    BY DEF WgCountsOutstanding
  <2>1. Outstanding = {} BY DEF Init, Outstanding, In
  <2>2. QED BY <2>1, FS_EmptySet DEF Init
<1>2. Typed /\ Places /\ WgCountsOutstanding /\ [Next]_vars => WgCountsOutstanding'
  <2> SUFFICES ASSUME Typed, Places, WgCountsOutstanding, [Next]_vars
               PROVE  wg' = Cardinality(Outstanding')
    BY DEF WgCountsOutstanding
  <2>0. IsFiniteSet(Outstanding) /\ wg = Cardinality(Outstanding)
    BY ListQueueAssumption, FS_Subset DEF Outstanding, In, WgCountsOutstanding
  <2>1. CASE wg' = wg /\ Outstanding' = Outstanding
    BY <2>0, <2>1
  <2>2. CASE UNCHANGED <<wg, job>>
    BY <2>1, <2>2 DEF Outstanding, In
  <2>3. ASSUME NEW j \in Jobs, PushCheck(j) \/ PushTest(j) \/ PushAppend(j)
        PROVE wg' = Cardinality(Outstanding')
    BY <2>1, <2>3 DEF PushCheck, PushTest, PushAppend, Outstanding, In, Typed
  <2>4. ASSUME NEW j \in Jobs, PushAdd(j) PROVE wg' = Cardinality(Outstanding')
    <3>1. j \notin Outstanding /\ Outstanding' = Outstanding \cup {j} /\ wg' = wg + 1
      BY <2>4 DEF PushAdd, Outstanding, In, Typed
    <3>2. QED BY <2>0, <3>1, FS_AddElement
  <2>5. CASE DispatchSend
    <3>1. Head(list) \in Jobs /\ job[Head(list)] = "listed"
      BY <2>5 DEF DispatchSend, Typed, Places, ListPlaces
    <3>2. QED BY <2>1, <2>5, <3>1 DEF DispatchSend, Outstanding, In, Typed
  <2>6. ASSUME NEW w \in Workers, WorkerRan(w) PROVE wg' = Cardinality(Outstanding')
    BY <2>1, <2>6 DEF WorkerRan, Outstanding, In, Typed, Places, WorkerPlaces
  <2>7. ASSUME NEW w \in Workers, WorkerDone(w) PROVE wg' = Cardinality(Outstanding')
    <3>1. PICK j \in Jobs : wjob[w] = {j} /\ job[j] = "ran"
      BY <2>7 DEF WorkerDone, Places, WorkerPlaces
    <3>2. j \in Outstanding /\ Outstanding' = Outstanding \ {j} /\ wg' = wg - 1
      BY <2>7, <3>1 DEF WorkerDone, Outstanding, In, Typed
    <3>3. QED BY <2>0, <3>2, FS_RemoveElement
  <2>8. QED
    BY <2>2, <2>3, <2>4, <2>5, <2>6, <2>7
    DEF Next, Owner, Push, Dispatcher, Worker, Stopped, vars, RunQueue, TerminateStore,
        TerminateWait, StopWorkers, ClosePool, DispatchLook, DispatchTake, DispatchRemove,
        WorkerReturn, WorkerQuit, WorkerExit
<1>3. QED BY <1>1, <1>2, TypedInvariant, PlacesInvariant, PTL DEF Spec

(* Every variable keeps its type; the counter of the WaitGroup is never    *)
(* negative, so Done never panics.                                         *)
THEOREM TypeCorrect == Spec => []TypeOK
<1>1. Typed /\ WgCountsOutstanding => TypeOK
  <2> SUFFICES ASSUME Typed, WgCountsOutstanding PROVE TypeOK
    OBVIOUS
  <2>1. IsFiniteSet(Outstanding)
    BY ListQueueAssumption, FS_Subset DEF Outstanding, In
  <2>2. wg \in Nat
    BY <2>1, FS_CardinalityType DEF WgCountsOutstanding
  <2>3. QED BY <2>2 DEF Typed, TypeOK
<1>2. QED BY <1>1, TypedInvariant, CountingCorrect, PTL

-----------------------------------------------------------------------------
(* A caller that has passed the test may still append: it counts as if its *)
(* element were there already.                                             *)
Room ==
  /\ Cardinality(Pushing) <= MaxPushers
  /\ MaxLen > 0 => Len(list) + Cardinality(Passed) <= MaxLen + MaxPushers

LEMMA PushersFinite ==
  /\ IsFiniteSet(Pushing) /\ Cardinality(Pushing) \in Nat
  /\ IsFiniteSet(Passed) /\ Cardinality(Passed) \in Nat
  /\ Cardinality(Passed) <= Cardinality(Pushing)
<1>1. Passed \subseteq Pushing /\ Pushing \subseteq Jobs
  BY DEF Passed, Pushing, In
<1>2. QED BY <1>1, ListQueueAssumption, FS_Subset, FS_CardinalityType

LEMMA RoomInvariant == Spec => []Room
<1>1. Init => Room
  <2> SUFFICES ASSUME Init PROVE Room
    OBVIOUS
  <2>1. Pushing = {} /\ Passed = {} /\ Len(list) = 0
    BY DEF Init, Pushing, Passed, In
  <2>2. QED BY <2>1, FS_EmptySet, ListQueueAssumption DEF Room
<1>2. Typed /\ Places /\ Room /\ [Next]_vars => Room'
  <2> SUFFICES ASSUME Typed, Places, Room, [Next]_vars PROVE Room'
    OBVIOUS
  <2>0. Len(list) \in Nat BY DEF Typed
  <2>1. CASE Pushing' = Pushing /\ Passed' = Passed /\ list' = list
    BY <2>1 DEF Room
  <2>2. CASE UNCHANGED <<list, job>>
    BY <2>1, <2>2 DEF Pushing, Passed, In
  <2>3. ASSUME NEW j \in Jobs, PushCheck(j) PROVE Room'
    <3>1. CASE Running
      <4>1. /\ j \notin Pushing /\ Pushing' = Pushing \cup {j}
            /\ Passed' = Passed /\ list' = list
        BY <2>3, <3>1 DEF PushCheck, Pushing, Passed, In, Typed
      <4>2. Cardinality(Pushing') = Cardinality(Pushing) + 1
        BY <4>1, PushersFinite, FS_AddElement
      <4>3. Cardinality(Pushing) < MaxPushers
        BY <2>3 DEF PushCheck
      <4>4. QED BY <4>1, <4>2, <4>3, PushersFinite, ListQueueAssumption DEF Room
    <3>2. CASE ~Running
      BY <2>1, <2>3, <3>2 DEF PushCheck, Pushing, Passed, In, Typed
    <3>3. QED BY <3>1, <3>2
  <2>4. ASSUME NEW j \in Jobs, PushTest(j) PROVE Room'
    <3>1. CASE MaxLen > 0 /\ Len(list) > MaxLen
      <4>1. j \in Pushing /\ Pushing' = Pushing \ {j} /\ Passed' = Passed /\ list' = list
        BY <2>4, <3>1 DEF PushTest, Pushing, Passed, In, Typed
      <4>2. Cardinality(Pushing') = Cardinality(Pushing) - 1
        BY <4>1, PushersFinite, FS_RemoveElement
      <4>3. QED BY <4>1, <4>2, PushersFinite, ListQueueAssumption DEF Room
    <3>2. CASE ~(MaxLen > 0 /\ Len(list) > MaxLen)
      <4>1. Pushing' = Pushing /\ list' = list
        BY <2>4, <3>2 DEF PushTest, Pushing, In, Typed
      <4>2. j \in Pushing \ Passed /\ Passed' = Passed \cup {j} /\ Passed \subseteq Pushing
        BY <2>4, <3>2 DEF PushTest, Pushing, Passed, In, Typed
      <4>3. Cardinality(Passed') = Cardinality(Passed) + 1
        BY <4>2, PushersFinite, FS_AddElement
      <4>4. Cardinality(Passed') <= Cardinality(Pushing)
        BY <4>2, PushersFinite, FS_Subset
      <4>5. QED
        BY <2>0, <3>2, <4>1, <4>3, <4>4, PushersFinite, ListQueueAssumption DEF Room
    <3>3. QED BY <3>1, <3>2
  <2>5. ASSUME NEW j \in Jobs, PushAdd(j) PROVE Room'
    BY <2>1, <2>5 DEF PushAdd, Pushing, Passed, In, Typed
  <2>6. ASSUME NEW j \in Jobs, PushAppend(j) PROVE Room'
    <3>1. /\ j \in Pushing /\ Pushing' = Pushing \ {j}
          /\ j \in Passed /\ Passed' = Passed \ {j}
      BY <2>6 DEF PushAppend, Pushing, Passed, In, Typed
    <3>2. Len(list') = Len(list) + 1
      BY <2>6 DEF PushAppend, Typed
    <3>3. /\ Cardinality(Pushing') = Cardinality(Pushing) - 1
          /\ Cardinality(Passed') = Cardinality(Passed) - 1
      BY <3>1, PushersFinite, FS_RemoveElement
    <3>4. QED BY <2>0, <3>2, <3>3, PushersFinite, ListQueueAssumption DEF Room
  <2>7. CASE DispatchSend
    <3>1. Head(list) \in Jobs /\ job[Head(list)] = "listed"
      BY <2>7 DEF DispatchSend, Typed, Places, ListPlaces
    <3>2. QED BY <2>1, <2>7, <3>1 DEF DispatchSend, Pushing, Passed, In, Typed
  <2>8. CASE DispatchRemove
    <3>1. Pushing' = Pushing /\ Passed' = Passed
      BY <2>8 DEF DispatchRemove, Pushing, Passed, In
    <3>2. Len(list') = Len(list) - 1
      BY <2>8 DEF DispatchRemove, Typed
    <3>3. QED BY <2>0, <3>1, <3>2, PushersFinite, ListQueueAssumption DEF Room
  <2>9. ASSUME NEW w \in Workers, WorkerRan(w) PROVE Room'
    BY <2>1, <2>9 DEF WorkerRan, Pushing, Passed, In, Typed, Places, WorkerPlaces
  <2>10. ASSUME NEW w \in Workers, WorkerDone(w) PROVE Room'
    BY <2>1, <2>10 DEF WorkerDone, Pushing, Passed, In, Typed, Places, WorkerPlaces
  <2>11. QED
    BY <2>2, <2>3, <2>4, <2>5, <2>6, <2>7, <2>8, <2>9, <2>10
    DEF Next, Owner, Push, Dispatcher, Worker, Stopped, vars, RunQueue, TerminateStore,
        TerminateWait, StopWorkers, ClosePool, DispatchLook, DispatchTake,
        WorkerReturn, WorkerQuit, WorkerExit
<1>3. QED BY <1>1, <1>2, TypedInvariant, PlacesInvariant, PTL DEF Spec

(* How far the list exceeds what list_queue.go:16 calls the maximum number *)
(* of elements: Push tests it with > instead of >=, and appends under      *)
(* another lock than it tests under.                                       *)
LengthBounded == MaxLen > 0 => Len(list) <= MaxLen + MaxPushers

(* The list exceeds its limit by at most one element for each goroutine    *)
(* that pushes (list_queue.go:87-100), however they interleave.            *)
THEOREM LengthStaysBounded == Spec => []LengthBounded
<1>1. Typed /\ Room => LengthBounded
  <2> SUFFICES ASSUME Typed, Room, MaxLen > 0 PROVE Len(list) <= MaxLen + MaxPushers
    BY DEF LengthBounded
  <2>1. Len(list) \in Nat BY DEF Typed
  <2>2. QED BY <2>1, PushersFinite, ListQueueAssumption DEF Room
<1>2. QED BY <1>1, TypedInvariant, RoomInvariant, PTL

-----------------------------------------------------------------------------
(* No push is under way once Terminate has stored 0, by the callers'       *)
(* contract, and wg.Wait lets it go on only when nothing is outstanding.   *)
Drained ==
  /\ opc \notin {"new", "up"} => Pushing = {}
  /\ TerminateDrains

LEMMA DrainedInvariant == Spec => []Drained
<1>1. Init => Drained
  BY DEF Init, Drained, TerminateDrains
<1>2. Typed /\ Places /\ WgCountsOutstanding /\ Drained /\ [Next]_vars => Drained'
  <2> SUFFICES ASSUME Typed, Places, WgCountsOutstanding, Drained, [Next]_vars
               PROVE  Drained'
    OBVIOUS
  <2> USE DEF Drained, TerminateDrains, Pushing, In
  <2>1. CASE UNCHANGED <<opc, job>> BY <2>1
  <2>2. CASE Owner
    <3>1. CASE TerminateWait
      <4>1. IsFiniteSet(Outstanding)
        BY ListQueueAssumption, FS_Subset DEF Outstanding
      <4>2. Outstanding = {}
        BY <3>1, <4>1, FS_EmptySet DEF TerminateWait, WgCountsOutstanding
      <4>3. QED BY <3>1, <4>2 DEF TerminateWait, Outstanding, Typed, JobStates
    <3>2. QED
      BY <2>2, <3>1 DEF Owner, RunQueue, TerminateStore, StopWorkers, ClosePool
  <2>3. ASSUME NEW j \in Jobs, Push(j) PROVE Drained'
    BY <2>3 DEF Push, PushCheck, PushTest, PushAdd, PushAppend, Running, Typed,
                Places, Started
  <2>4. CASE DispatchSend
    <3>1. Head(list) \in Jobs /\ job[Head(list)] = "listed"
      BY <2>4 DEF DispatchSend, Typed, Places, ListPlaces
    <3>2. QED BY <2>4, <3>1 DEF DispatchSend, Typed
  <2>5. ASSUME NEW w \in Workers, WorkerRan(w) PROVE Drained'
    BY <2>5 DEF WorkerRan, Typed, Places, WorkerPlaces
  <2>6. ASSUME NEW w \in Workers, WorkerDone(w) PROVE Drained'
    BY <2>6 DEF WorkerDone, Typed, Places, WorkerPlaces
  <2>7. QED
    BY <2>1, <2>2, <2>3, <2>4, <2>5, <2>6
    DEF Next, Dispatcher, Worker, Stopped, vars, DispatchLook, DispatchTake, DispatchRemove,
        WorkerReturn, WorkerQuit, WorkerExit
<1>3. QED BY <1>1, <1>2, TypedInvariant, PlacesInvariant, CountingCorrect, PTL DEF Spec

(* Terminate goes past wg.Wait only when every pushed job has run.         *)
THEOREM TerminateLosesNoJob == Spec => []TerminateDrains
BY DrainedInvariant, PTL DEF Drained

(* No goroutine sends to, takes from or returns to the pool once the       *)
(* workers are told to stop (list_queue.go:111-114), although the list may *)
(* still show the last element: it has been handed over.                   *)
THEOREM PoolNeverUsedClosed == Spec => []PoolOpenWhileUsed
<1>1. Typed /\ Places /\ Drained => PoolOpenWhileUsed
  <2> SUFFICES ASSUME Typed, Places, Drained, opc \in {"stopping", "closing", "down"}
               PROVE  /\ dpc \notin {"take", "send"}
                      /\ \A w \in Workers : wpc[w] \notin {"running", "return", "done"}
    BY DEF PoolOpenWhileUsed
  <2>1. ASSUME dpc \in {"take", "send"} PROVE FALSE
    <3>1. list[1] \in Jobs /\ job[list[1]] = "listed"
      BY <2>1 DEF Typed, Places, ListPlaces
    <3>2. QED BY <3>1 DEF Drained, TerminateDrains
  <2>2. ASSUME NEW w \in Workers, wpc[w] \in {"running", "return", "done"} PROVE FALSE
    BY <2>2 DEF Places, WorkerPlaces, Drained, TerminateDrains
  <2>3. QED BY <2>1, <2>2
<1>2. QED BY <1>1, TypedInvariant, PlacesInvariant, DrainedInvariant, PTL

-----------------------------------------------------------------------------
(* Every step of the list queue is a step of the abstract task queue or    *)
(* leaves it as it was.  The hand-over is the step that starts a job; the  *)
(* removal of the element is invisible.                                    *)
Waiting == IF dpc = "remove" THEN Tail(list) ELSE list

LEMMA WaitingJobsListed ==
  ASSUME Typed, Places
  PROVE  /\ Waiting \in Seq(Jobs)
         /\ \A i \in 1..Len(Waiting) : job[Waiting[i]] = "listed"
<1>1. CASE dpc = "remove"
  <2>1. /\ list # <<>> /\ Waiting = Tail(list) /\ Waiting \in Seq(Jobs)
        /\ Len(Waiting) = Len(list) - 1
        /\ \A i \in 1..Len(Waiting) : Waiting[i] = list[i + 1] /\ i + 1 \in 1..Len(list)
    BY <1>1 DEF Typed, Waiting
  <2>2. QED BY <2>1 DEF Places, ListPlaces
<1>2. CASE dpc # "remove"
  BY <1>2 DEF Typed, Waiting, Places, ListPlaces
<1>3. QED BY <1>1, <1>2

THEOREM ImplementsQueue == Spec => TQ!Spec
<1> DEFINE executing == In({"running"})
           finished == In({"ran", "done"})
<1>1. Init => TQ!Init
  BY DEF Init, TQ!Init, Phase, In
<1>2. Typed /\ Places /\ WgCountsOutstanding /\ Drained /\ [Next]_vars => [TQ!Next]_(TQ!vars)
  <2> SUFFICES ASSUME Typed, Places, WgCountsOutstanding, Drained, [Next]_vars
               PROVE  TQ!Next \/ UNCHANGED TQ!vars
    OBVIOUS
  <2>1. UNCHANGED <<opc, Waiting, job>> => UNCHANGED TQ!vars
    BY DEF TQ!vars, Phase, In, Waiting
  <2>2. CASE RunQueue
    <3>1. TQ!Open
      BY <2>2 DEF RunQueue, TQ!Open, Phase, In, Places, Started
    <3>2. QED BY <3>1 DEF TQ!Next
  <2>3. CASE TerminateStore
    <3>1. TQ!Drain BY <2>3 DEF TerminateStore, TQ!Drain, Phase, In
    <3>2. QED BY <3>1 DEF TQ!Next
  <2>4. CASE TerminateWait
    <3>1. IsFiniteSet(Outstanding)
      BY ListQueueAssumption, FS_Subset DEF Outstanding, In
    <3>2. Outstanding = {}
      BY <2>4, <3>1, FS_EmptySet DEF TerminateWait, WgCountsOutstanding
    <3>3. Waiting = <<>>
      <4>1. ASSUME Len(Waiting) > 0 PROVE FALSE
        <5>1. Waiting[1] \in Jobs /\ job[Waiting[1]] = "listed"
          BY <4>1, WaitingJobsListed
        <5>2. QED BY <3>2, <5>1 DEF Outstanding, In
      <4>2. QED BY <4>1, WaitingJobsListed
    <3>4. executing = {} BY <3>2 DEF Outstanding, In
    <3>5. TQ!Close
      BY <2>4, <3>3, <3>4 DEF TerminateWait, TQ!Close, Phase, In, Waiting
    <3>6. QED BY <3>5 DEF TQ!Next
  <2>5. CASE StopWorkers \/ ClosePool
    BY <2>5 DEF StopWorkers, ClosePool, TQ!vars, Phase, In
  <2>6. ASSUME NEW j \in Jobs, PushCheck(j) \/ PushTest(j) \/ PushAdd(j)
        PROVE UNCHANGED TQ!vars
    <3>1. /\ UNCHANGED <<opc, list, dpc>>
          /\ \E s \in JobStates : s \notin {"running", "ran", "done"} /\ job' = [job EXCEPT ![j] = s]
          /\ job[j] \notin {"running", "ran", "done"}
      BY <2>6 DEF PushCheck, PushTest, PushAdd, JobStates
    <3>2. executing' = executing /\ finished' = finished
      BY <3>1 DEF In, Typed
    <3>3. QED BY <3>1, <3>2 DEF TQ!vars, Phase
  <2>7. ASSUME NEW j \in Jobs, PushAppend(j) PROVE TQ!Accept(j)
    <3>1. opc = "up"
      BY <2>7 DEF PushAppend, Places, Started, Drained, Pushing, In
    <3>2. Waiting' = Append(Waiting, j)
      BY <2>7 DEF PushAppend, Waiting, Typed
    <3>3. executing' = executing /\ finished' = finished
      BY <2>7 DEF PushAppend, In, Typed
    <3>4. ~TQ!Known(j)
      BY <2>7, WaitingJobsListed DEF PushAppend, TQ!Known, In, Waiting
    <3>5. QED BY <2>7, <3>1, <3>2, <3>3, <3>4 DEF PushAppend, TQ!Accept, Phase, Waiting
  <2>8. CASE DispatchLook \/ DispatchTake
    BY <2>1, <2>8 DEF DispatchLook, DispatchTake, Waiting
  <2>9. CASE DispatchSend
    <3>1. /\ dpc = "send" /\ dpc' = "remove" /\ list' = list /\ list # <<>> /\ opc' = opc
          /\ Head(list) \in Jobs /\ job[Head(list)] = "listed"
          /\ job' = [job EXCEPT ![Head(list)] = "running"]
      BY <2>9 DEF DispatchSend, Typed, Places, ListPlaces
    <3>2. executing' = executing \cup {Head(list)} /\ finished' = finished
      BY <3>1 DEF In, Typed
    <3>3. opc \in {"up", "waiting"}
      BY <3>1 DEF Drained, TerminateDrains, Places, Started, Typed, OwnerStates
    <3>4. TQ!Begin BY <3>1, <3>2, <3>3 DEF TQ!Begin, Phase
    <3>5. QED BY <3>4 DEF TQ!Next
  <2>10. CASE DispatchRemove
    BY <2>1, <2>10 DEF DispatchRemove, Waiting
  <2>11. ASSUME NEW w \in Workers, WorkerRan(w) PROVE TQ!Next
    <3>1. PICK j \in Jobs : wjob[w] = {j} /\ job[j] = "running"
      BY <2>11 DEF WorkerRan, Places, WorkerPlaces
    <3>2. executing' = executing \ {j} /\ finished' = finished \cup {j}
      BY <2>11, <3>1 DEF WorkerRan, In, Typed
    <3>3. TQ!Finish(j)
      BY <2>11, <3>1, <3>2 DEF WorkerRan, TQ!Finish, Phase, In
    <3>4. QED BY <3>3 DEF TQ!Next
  <2>12. ASSUME NEW w \in Workers, WorkerDone(w) PROVE UNCHANGED TQ!vars
    <3>1. PICK j \in Jobs : wjob[w] = {j} /\ job[j] = "ran"
      BY <2>12 DEF WorkerDone, Places, WorkerPlaces
    <3>2. executing' = executing /\ finished' = finished
      BY <2>12, <3>1 DEF WorkerDone, In, Typed
    <3>3. QED BY <2>12, <3>2 DEF WorkerDone, TQ!vars, Phase
  <2>13. ASSUME NEW w \in Workers, WorkerReturn(w) \/ WorkerQuit(w) \/ WorkerExit(w)
         PROVE UNCHANGED TQ!vars
    BY <2>1, <2>13 DEF WorkerReturn, WorkerQuit, WorkerExit, Waiting
  <2>14. CASE UNCHANGED vars
    BY <2>1, <2>14 DEF vars, Waiting
  <2>15. ASSUME NEW j \in Jobs, Push(j) PROVE TQ!Next \/ UNCHANGED TQ!vars
    BY <2>6, <2>7, <2>15 DEF Push, TQ!Next
  <2>16. ASSUME NEW w \in Workers, Worker(w) PROVE TQ!Next \/ UNCHANGED TQ!vars
    BY <2>11, <2>12, <2>13, <2>16 DEF Worker
  <2>17. QED
    BY <2>2, <2>3, <2>4, <2>5, <2>8, <2>9, <2>10, <2>14, <2>15, <2>16
    DEF Next, Owner, Dispatcher, Stopped
<1>3. QED
  BY <1>1, <1>2, TypedInvariant, PlacesInvariant, CountingCorrect, DrainedInvariant, PTL
  DEF Spec, TQ!Spec

(* TaskQueueProofs, of the state the list queue shows its callers.         *)
Promises == INSTANCE TaskQueueProofs WITH
        phase <- Phase,
        waiting <- IF dpc = "remove" THEN Tail(list) ELSE list,
        executing <- In({"running"}),
        finished <- In({"ran", "done"})

(* What the abstract queue promises, the list queue keeps, because it      *)
(* implements it: jobs start in the order PushBack put them in the list,   *)
(* none is lost or runs twice, and none is left once Terminate has waited  *)
(* (list_queue.go:57-115).                                                 *)
THEOREM KeepsQueuePromises ==
  Spec => []Promises!QueueInv /\ [][Promises!KeepsItsOrder]_(Promises!vars)
<1>1. TQ!Init => Promises!Init
  BY DEF TQ!Init, Promises!Init
<1>2. [TQ!Next]_(TQ!vars) => [Promises!Next]_(Promises!vars)
  <2>1. UNCHANGED TQ!vars => UNCHANGED Promises!vars BY DEF TQ!vars, Promises!vars
  <2>2. TQ!Next => Promises!Next
    BY DEF TQ!Next, TQ!Open, TQ!Begin, TQ!Drain, TQ!Close, TQ!Accept, TQ!Known, TQ!Finish,
           Promises!Next, Promises!Open, Promises!Begin, Promises!Drain, Promises!Close,
           Promises!Accept, Promises!Known, Promises!Finish
  <2>3. QED BY <2>1, <2>2
<1>3. TQ!Spec => Promises!Spec
  BY <1>1, <1>2, PTL DEF TQ!Spec, Promises!Spec
<1>4. Promises!Spec => []Promises!QueueInv
  BY Promises!QueueSafe
<1>5. Promises!Spec => [][Promises!KeepsItsOrder]_(Promises!vars)
  BY Promises!JobsStartInAcceptedOrder
<1>6. QED BY ImplementsQueue, <1>3, <1>4, <1>5, PTL

-----------------------------------------------------------------------------
(* No job is lost on its way: each is where its state says it is.          *)
Located ==
  /\ \A j \in Jobs : job[j] = "listed" => \E i \in 1..Len(list) : list[i] = j
  /\ \A j \in Jobs : job[j] \in {"running", "ran"} => \E w \in Workers : wjob[w] = {j}

LEMMA LocatedInvariant == Spec => []Located
<1>1. Init => Located
  BY DEF Init, Located
<1>2. Typed /\ Places /\ Located /\ [Next]_vars => Located'
  <2> SUFFICES ASSUME Typed, Places, Located, [Next]_vars PROVE Located'
    OBVIOUS
  <2> USE DEF Located, Typed
  <2>1. CASE UNCHANGED <<list, job, wjob>> BY <2>1
  <2>2. ASSUME NEW j \in Jobs, PushCheck(j) \/ PushTest(j) \/ PushAdd(j) PROVE Located'
    BY <2>2 DEF PushCheck, PushTest, PushAdd
  <2>3. ASSUME NEW j \in Jobs, PushAppend(j) PROVE Located'
    <3>1. list' = Append(list, j) /\ job' = [job EXCEPT ![j] = "listed"] /\ wjob' = wjob
      BY <2>3 DEF PushAppend
    <3>2. /\ Len(list') = Len(list) + 1 /\ list'[Len(list) + 1] = j
          /\ \A i \in 1..Len(list) : list'[i] = list[i] /\ i \in 1..Len(list')
          /\ Len(list) + 1 \in 1..Len(list')
      BY <3>1
    <3>3. QED BY <3>1, <3>2
  <2>4. CASE DispatchSend
    <3> DEFINE h == Head(list)
    <3>1. PICK w \in dworker : wpc[w] = "idle" /\ wjob' = [wjob EXCEPT ![w] = {h}]
      BY <2>4 DEF DispatchSend
    <3>2. job' = [job EXCEPT ![h] = "running"] /\ list' = list /\ h \in Jobs /\ w \in Workers
      BY <2>4 DEF DispatchSend
    <3>3. wjob[w] = {}
      BY <3>1, <3>2 DEF Places, WorkerPlaces
    <3>4. ASSUME NEW i \in Jobs, job'[i] \in {"running", "ran"} PROVE \E v \in Workers : wjob'[v] = {i}
      <4>1. CASE i = h BY <3>1, <3>2, <4>1
      <4>2. CASE i # h
        <5>1. PICK v \in Workers : wjob[v] = {i}
          BY <3>2, <3>4, <4>2
        <5>2. QED BY <3>1, <3>3, <5>1
      <4>3. QED BY <4>1, <4>2
    <3>5. QED BY <3>2, <3>4
  <2>5. CASE DispatchRemove
    <3>1. dpc = "remove" /\ list' = Tail(list) /\ UNCHANGED <<job, wjob>> /\ list # <<>>
      BY <2>5 DEF DispatchRemove
    <3>2. job[list[1]] # "listed"
      BY <3>1 DEF Places, ListPlaces
    <3>3. ASSUME NEW j \in Jobs, job[j] = "listed" PROVE \E i \in 1..Len(list') : list'[i] = j
      <4>1. PICK i \in 1..Len(list) : list[i] = j
        BY <3>3
      <4>2. i - 1 \in 1..Len(list') /\ list'[i - 1] = list[i]
        BY <3>1, <3>2, <3>3, <4>1
      <4>3. QED BY <4>1, <4>2
    <3>4. QED BY <3>1, <3>3
  <2>6. ASSUME NEW w \in Workers, WorkerRan(w) PROVE Located'
    <3>1. PICK j \in Jobs : wjob[w] = {j} /\ job[j] = "running"
      BY <2>6 DEF WorkerRan, Places, WorkerPlaces
    <3>2. job' = [job EXCEPT ![j] = "ran"] /\ UNCHANGED <<list, wjob>>
      BY <2>6, <3>1 DEF WorkerRan
    <3>3. QED BY <3>1, <3>2
  <2>7. ASSUME NEW w \in Workers, WorkerDone(w) PROVE Located'
    <3>1. PICK j \in Jobs : wjob[w] = {j} /\ job[j] = "ran"
      BY <2>7 DEF WorkerDone, Places, WorkerPlaces
    <3>2. job' = [job EXCEPT ![j] = "done"] /\ wjob' = [wjob EXCEPT ![w] = {}] /\ list' = list
      BY <2>7, <3>1 DEF WorkerDone
    <3>3. QED BY <3>1, <3>2
  <2>8. QED
    BY <2>1, <2>2, <2>3, <2>4, <2>5, <2>6, <2>7
    DEF Next, Owner, Push, Dispatcher, Worker, Stopped, vars, RunQueue, TerminateStore,
        TerminateWait, StopWorkers, ClosePool, DispatchLook, DispatchTake,
        WorkerReturn, WorkerQuit, WorkerExit
<1>3. QED BY <1>1, <1>2, TypedInvariant, PlacesInvariant, PTL DEF Spec

-----------------------------------------------------------------------------
(* No worker is lost either: until they are told to stop, each one that    *)
(* has nothing to do is in the pool or in the dispatcher's hand, where no  *)
(* other is; and the dispatcher ends only when nothing is listed.          *)
Staffed ==
  /\ opc = "new" => dpc = "off" /\ \A w \in Workers : wpc[w] = "off"
  /\ opc # "new" => dpc # "off" /\ \A w \in Workers : wpc[w] # "off"
  /\ dpc = "exited" => opc \notin {"new", "up"} /\ list = <<>>
  /\ dpc = "send" => \E w \in Workers : dworker = {w} /\ w \notin pool
  /\ dpc # "send" => dworker = {}
  /\ \A w \in pool \cup dworker : wpc[w] \in {"idle", "done", "quitting", "exited"}
  /\ opc \in {"up", "waiting", "stopping"} =>
       \A w \in Workers : /\ wpc[w] \notin {"quitting", "exited"}
                          /\ wpc[w] \in {"idle", "done"} => w \in pool \cup dworker

LEMMA StaffedInvariant == Spec => []Staffed
<1>1. Init => Staffed
  BY DEF Init, Staffed
<1>2. Typed /\ Drained /\ Staffed /\ [Next]_vars => Staffed'
  <2> SUFFICES ASSUME Typed, Drained, Staffed, [Next]_vars PROVE Staffed'
    OBVIOUS
  <2> USE DEF Typed, Staffed, OwnerStates, DispatcherStates, WorkerStates
  <2>1. CASE UNCHANGED <<opc, list, pool, dpc, dworker, wpc>> BY <2>1
  <2>2. CASE Owner
    BY <2>2 DEF Owner, RunQueue, TerminateStore, TerminateWait, StopWorkers, ClosePool
  <2>3. ASSUME NEW j \in Jobs, PushAppend(j) PROVE Staffed'
    <3>1. job[j] = "append" /\ UNCHANGED <<opc, pool, dpc, dworker, wpc>>
      BY <2>3 DEF PushAppend
    <3>2. opc \in {"new", "up"}
      BY <3>1 DEF Drained, Pushing, In
    <3>3. QED BY <3>1, <3>2
  <2>4. CASE DispatchLook BY <2>4 DEF DispatchLook, Running
  <2>5. CASE DispatchTake BY <2>5 DEF DispatchTake
  <2>6. CASE DispatchSend
    <3>1. PICK w \in Workers : dworker = {w} /\ w \notin pool
      BY <2>6 DEF DispatchSend
    <3>2. /\ wpc' = [wpc EXCEPT ![w] = "running"] /\ dworker' = {} /\ dpc' = "remove"
          /\ dpc = "send" /\ UNCHANGED <<list, pool, opc>>
      BY <2>6, <3>1 DEF DispatchSend
    <3>3. QED BY <3>1, <3>2
  <2>7. CASE DispatchRemove BY <2>7 DEF DispatchRemove
  <2>8. ASSUME NEW w \in Workers, Worker(w) PROVE Staffed'
    <3>1. UNCHANGED <<opc, list, dpc, dworker>>
      BY <2>8 DEF Worker, WorkerRan, WorkerReturn, WorkerDone, WorkerQuit, WorkerExit
    <3>2. CASE WorkerRan(w) BY <3>1, <3>2 DEF WorkerRan
    <3>3. CASE WorkerReturn(w) BY <3>1, <3>3 DEF WorkerReturn
    <3>4. CASE WorkerDone(w) BY <3>1, <3>4 DEF WorkerDone
    <3>5. CASE WorkerQuit(w) BY <3>1, <3>5 DEF WorkerQuit
    <3>6. CASE WorkerExit(w) BY <3>1, <3>6 DEF WorkerExit
    <3>7. QED BY <2>8, <3>2, <3>3, <3>4, <3>5, <3>6 DEF Worker
  <2>9. QED
    BY <2>1, <2>2, <2>3, <2>4, <2>5, <2>6, <2>7, <2>8
    DEF Next, Push, Dispatcher, Stopped, vars, PushCheck, PushTest, PushAdd
<1>3. QED BY <1>1, <1>2, TypedInvariant, DrainedInvariant, PTL DEF Spec

-----------------------------------------------------------------------------
(* Who can take a step: the guards of the dispatcher's, a worker's and the *)
(* owner's steps, that is of Dispatcher, Worker(w) and OwnerGoesOn.  A     *)
(* caller that has passed the test of running can always go on.            *)
DispatcherCanMove ==
  \/ dpc = "look" /\ (list # <<>> \/ ~Running)
  \/ dpc = "take" /\ pool # {}
  \/ dpc = "send" /\ \E w \in dworker : wpc[w] = "idle"
  \/ dpc = "remove"

WorkerHasJob(w) == wpc[w] \in {"running", "return", "done"}

WorkerCanMove(w) ==
  \/ WorkerHasJob(w)
  \/ wpc[w] = "idle" /\ opc \in {"closing", "down"}
  \/ wpc[w] = "quitting" /\ (pool # {} \/ PoolClosed)

OwnerCanMove ==
  \/ opc = "waiting" /\ wg = 0
  \/ opc \in {"stopping", "closing"}

(* While a job is between wg.Add and wg.Done somebody can take a step for  *)
(* it: its caller, the dispatcher, or a worker that has a job.             *)
JobsGoOn ==
  Outstanding # {} =>
    DispatcherCanMove \/ (\E w \in Workers : WorkerHasJob(w)) \/ In({"append"}) # {}

(* Once Terminate is called, somebody can take a step until every          *)
(* goroutine has ended.                                                    *)
TerminateGoesOn ==
  opc \in {"waiting", "stopping", "closing", "down"} =>
    AllEnded \/ OwnerCanMove \/ DispatcherCanMove \/ \E w \in Workers : WorkerCanMove(w)

LEMMA SomebodyMoves ==
  ASSUME Workers # {}, Typed, Places, WgCountsOutstanding, Drained, PoolOpenWhileUsed, Located,
         Staffed
  PROVE  JobsGoOn /\ TerminateGoesOn
<1> USE DEF Typed, JobStates, OwnerStates, DispatcherStates, WorkerStates
<1>1. ASSUME Outstanding # {}, ~DispatcherCanMove,
             \A w \in Workers : ~WorkerHasJob(w), In({"append"}) = {}
      PROVE  FALSE
  <2>1. opc \in {"up", "waiting"}
    BY <1>1 DEF Outstanding, In, Drained, TerminateDrains, Places, Started
  <2>2. PICK j \in Jobs : job[j] = "listed"
    <3>1. \A w \in Workers : wjob[w] = {}
      BY <1>1 DEF WorkerHasJob, Places, WorkerPlaces
    <3>2. \A j \in Jobs : job[j] \notin {"running", "ran"}
      BY <3>1 DEF Located
    <3>3. QED BY <1>1, <3>2 DEF Outstanding, In
  <2>3. list # <<>>
    BY <2>2 DEF Located
  <2>4. dpc \in {"take", "send"}
    BY <1>1, <2>1, <2>3 DEF DispatcherCanMove, Staffed
  <2>5. CASE dpc = "take"
    <3>1. pool = {} /\ dworker = {}
      BY <1>1, <2>5 DEF DispatcherCanMove, Staffed
    <3>2. PICK w \in Workers : TRUE
      OBVIOUS
    <3>3. wpc[w] = "idle"
      BY <1>1, <2>1 DEF WorkerHasJob, Staffed
    <3>4. QED BY <2>1, <3>1, <3>3 DEF Staffed
  <2>6. CASE dpc = "send"
    <3>1. PICK w \in Workers : dworker = {w}
      BY <2>6 DEF Staffed
    <3>2. wpc[w] = "idle"
      BY <1>1, <2>1, <3>1 DEF WorkerHasJob, Staffed
    <3>3. QED BY <1>1, <2>6, <3>1, <3>2 DEF DispatcherCanMove
  <2>7. QED BY <2>4, <2>5, <2>6
<1>2. JobsGoOn
  BY <1>1 DEF JobsGoOn
<1>3. CASE opc = "waiting"
  <2>1. In({"append"}) = {}
    BY <1>3 DEF Drained, Pushing, In
  <2>2. Outstanding = {} => wg = 0
    BY FS_EmptySet DEF WgCountsOutstanding
  <2>3. QED BY <1>2, <1>3, <2>1, <2>2 DEF JobsGoOn, TerminateGoesOn, OwnerCanMove, WorkerCanMove
<1>4. CASE opc \in {"stopping", "closing"}
  BY <1>2, <1>4 DEF TerminateGoesOn, OwnerCanMove
<1>5. CASE opc = "down"
  <2>1. dpc \in {"look", "remove", "exited"}
    BY <1>5 DEF Staffed, PoolOpenWhileUsed
  <2>2. dpc # "exited" => DispatcherCanMove
    BY <1>5, <2>1 DEF DispatcherCanMove, Running
  <2>3. ASSUME NEW w \in Workers, wpc[w] # "exited" PROVE WorkerCanMove(w)
    BY <1>5, <2>3 DEF WorkerCanMove, WorkerHasJob, Staffed, PoolClosed
  <2>4. QED BY <1>2, <1>5, <2>1, <2>2, <2>3 DEF TerminateGoesOn, AllEnded
<1>6. QED BY <1>2, <1>3, <1>4, <1>5 DEF TerminateGoesOn

(* The list queue never stands still with a job in its hands, given one    *)
(* worker, whatever its limit (list_queue.go:57-115, worker.go).           *)
THEOREM JobsAlwaysGoOn ==
  ASSUME Workers # {}
  PROVE  Spec => []JobsGoOn
BY SomebodyMoves, TypedInvariant, PlacesInvariant, CountingCorrect, DrainedInvariant,
   PoolNeverUsedClosed, LocatedInvariant, StaffedInvariant, PTL

(* Terminate never blocks for good, and leaves no goroutine blocked        *)
(* (list_queue.go:103-115, worker.go).                                     *)
THEOREM TerminateAlwaysGoesOn ==
  ASSUME Workers # {}
  PROVE  Spec => []TerminateGoesOn
BY SomebodyMoves, TypedInvariant, PlacesInvariant, CountingCorrect, DrainedInvariant,
   PoolNeverUsedClosed, LocatedInvariant, StaffedInvariant, PTL
=============================================================================
