------------------------- MODULE EventRouterProofs -------------------------
(***************************************************************************)
(* Theorems about EventRouter, for any events, registrations, capacity and *)
(* number of workers: jobs start in the order of the versions, a job is    *)
(* posted once, and no request is begun for a version older than the one   *)
(* its endpoint has, across relists, restarts and late requests.           *)
(***************************************************************************)
EXTENDS EventRouter, FiniteSetTheorems, TLAPS

(* The jobs of this process that the queue has been given. *)
InHands == {waiting[i] : i \in 1..Len(waiting)} \cup executing \cup finished

USE DEF Versions

-----------------------------------------------------------------------------
(* What the steps that touch the queue do. *)

LEMMA WaitingAreJobs ==
  ASSUME TypeOK
  PROVE  \A i \in 1..Len(waiting) : waiting[i] \in Jobs
  <1>1. waiting \in Seq(Jobs)
    BY DEF TypeOK
  <1> QED
    BY <1>1

LEMMA PushStep ==
  ASSUME TypeOK, Push
  PROVE  /\ hpc = "push"
         /\ \E r \in toPush :
              /\ toPush' = toPush \ {r}
              /\ Job(r) \in Jobs
              /\ Job(r) \notin InHands
              /\ waiting' = Append(waiting, Job(r))
              /\ waiting' \in Seq(Jobs)
              /\ Len(waiting') = Len(waiting) + 1
              /\ \A i \in 1..Len(waiting) : waiting'[i] = waiting[i]
              /\ waiting'[Len(waiting) + 1] = Job(r)
              /\ InHands' = InHands \cup {Job(r)}
         /\ Len(waiting') <= Capacity + 1
         /\ hpc' \in {"push", "idle"}
         /\ UNCHANGED <<version, run, router, seen, calls, tries, current, phase, executing, finished,
                        endpointVars>>
  <1>1. PICK r \in toPush : TQ!Accept(Job(r)) /\ toPush' = toPush \ {r}
    BY DEF Push
  <1>2. Job(r) \in Jobs
    <2>1. calls \in 1..MaxCalls
      BY EventRouterAssumption DEF Push, TypeOK
    <2> QED
      BY <2>1 DEF TypeOK, Jobs, Job
  <1>3. /\ waiting' = Append(waiting, Job(r)) /\ UNCHANGED <<phase, executing, finished>>
        /\ Job(r) \notin InHands
    BY <1>1 DEF TQ!Accept, TQ!Known, InHands
  <1>4. /\ waiting' \in Seq(Jobs)
        /\ Len(waiting') = Len(waiting) + 1
        /\ \A i \in 1..Len(waiting) : waiting'[i] = waiting[i]
        /\ waiting'[Len(waiting) + 1] = Job(r)
    BY <1>2, <1>3 DEF TypeOK
  <1>5. {waiting'[i] : i \in 1..Len(waiting')} = {waiting[i] : i \in 1..Len(waiting)} \cup {Job(r)}
    <2>1. Len(waiting) \in Nat
      BY DEF TypeOK
    <2>2. \A i \in 1..Len(waiting') : i \in 1..Len(waiting) \/ i = Len(waiting) + 1
      BY <1>4, <2>1
    <2>3. 1..Len(waiting) \subseteq 1..Len(waiting') /\ Len(waiting) + 1 \in 1..Len(waiting')
      BY <1>4, <2>1
    <2> QED
      BY <1>4, <2>2, <2>3
  <1>6. InHands' = InHands \cup {Job(r)}
    BY <1>3, <1>5 DEF InHands
  <1>7. Len(waiting') <= Capacity + 1
    BY <1>4, EventRouterAssumption DEF Push, TypeOK
  <1> QED
    BY <1>1, <1>2, <1>3, <1>4, <1>6, <1>7 DEF Push

LEMMA BeginStep ==
  ASSUME TypeOK, Begin
  PROVE  /\ Len(waiting) \in Nat \ {0}
         /\ waiting[1] \in Jobs
         /\ waiting' \in Seq(Jobs)
         /\ Len(waiting') = Len(waiting) - 1
         /\ \A i \in 1..Len(waiting') : i + 1 \in 1..Len(waiting) /\ waiting'[i] = waiting[i + 1]
         /\ executing' = executing \cup {waiting[1]}
         /\ posts' = posts \cup {waiting[1]}
         /\ waiting[1] \in InHands
         /\ InHands' \subseteq InHands
         /\ UNCHANGED <<version, run, router, seen, handlerVars, phase, finished, received>>
  <1>1. /\ waiting # <<>>
        /\ waiting' = Tail(waiting)
        /\ executing' = executing \cup {Head(waiting)}
        /\ posts' = posts \cup {Head(waiting)}
        /\ UNCHANGED <<version, run, router, seen, handlerVars, phase, finished, received>>
    BY DEF Begin, TQ!Begin
  <1>2. /\ Len(waiting) \in Nat \ {0}
        /\ waiting[1] \in Jobs
        /\ Head(waiting) = waiting[1]
    BY <1>1 DEF TypeOK
  <1>3. /\ waiting' \in Seq(Jobs)
        /\ Len(waiting') = Len(waiting) - 1
        /\ \A i \in 1..Len(waiting') : i + 1 \in 1..Len(waiting) /\ waiting'[i] = waiting[i + 1]
    BY <1>1, <1>2 DEF TypeOK
  <1>4. waiting[1] \in InHands
    BY <1>2 DEF InHands
  <1>5. InHands' \subseteq InHands
    BY <1>1, <1>2, <1>3, <1>4 DEF InHands
  <1> QED
    BY <1>1, <1>2, <1>3, <1>4, <1>5

LEMMA FinishStep ==
  ASSUME NEW j \in executing, Finish(j)
  PROVE  /\ executing' = executing \ {j}
         /\ finished' = finished \cup {j}
         /\ InHands' = InHands
         /\ UNCHANGED <<version, run, router, seen, handlerVars, phase, waiting, endpointVars>>
  BY DEF Finish, TQ!Finish, InHands

LEMMA ApplyStep ==
  ASSUME TypeOK, NEW j \in posts, Apply(j)
  PROVE  /\ posts' = posts \ {j}
         /\ received' \in [Registrations -> [Events -> 0..MaxVersion]]
         /\ \A r \in Registrations, e \in Events :
              \/ received'[r][e] = received[r][e]
              \/ r = j.reg /\ e = j.event /\ received'[r][e] = j.version
         /\ UNCHANGED <<version, run, router, seen, handlerVars, queueVars>>
  <1>1. j.reg \in Registrations /\ j.event \in Events /\ j.version \in 0..MaxVersion
    BY EventRouterAssumption DEF TypeOK, Jobs
  <1> DEFINE row == [received[j.reg] EXCEPT ![j.event] = j.version]
  <1>2. received' = [received EXCEPT ![j.reg] = row]
    BY DEF Apply
  <1>3. /\ row \in [Events -> 0..MaxVersion]
        /\ row[j.event] = j.version
        /\ \A e \in Events \ {j.event} : row[e] = received[j.reg][e]
    BY <1>1 DEF TypeOK
  <1> HIDE DEF row
  <1>4. received' \in [Registrations -> [Events -> 0..MaxVersion]]
    BY <1>1, <1>2, <1>3 DEF TypeOK
  <1>5. ASSUME NEW r \in Registrations, NEW e \in Events
        PROVE  \/ received'[r][e] = received[r][e]
               \/ r = j.reg /\ e = j.event /\ received'[r][e] = j.version
    <2>1. CASE r = j.reg
      BY <1>1, <1>2, <1>3, <2>1 DEF TypeOK
    <2>2. CASE r # j.reg
      BY <1>2, <2>2 DEF TypeOK
    <2> QED
      BY <2>1, <2>2
  <1> QED
    BY <1>4, <1>5 DEF Apply

LEMMA RestartStep ==
  ASSUME TypeOK, Restart
  PROVE  /\ seen' = version
         /\ waiting' = <<>> /\ executing' = {} /\ finished' = {}
         /\ InHands' = {}
         /\ hpc' = "idle" /\ tries' = 0
         /\ run' \in 1..MaxRuns
         /\ UNCHANGED <<version, calls, phase, current, endpointVars>>
  <1>1. InHands' = {}
    BY DEF Restart, InHands
  <1> QED
    BY <1>1, EventRouterAssumption DEF Restart, TypeOK

-----------------------------------------------------------------------------
(* Type correctness of the router for any events, registrations, capacity  *)
(* and number of workers; the queue of the router (Push, main.go:85) never *)
(* holds more than its buffer and the job of the dispatcher.               *)
THEOREM TypeCorrect == Spec => []TypeOK
  <1>1. Init => TypeOK
    <2> SUFFICES ASSUME Init PROVE TypeOK
      OBVIOUS
    <2>1. 0 \in 0..MaxVersion
      BY EventRouterAssumption
    <2>2. run \in 1..MaxRuns /\ current \in [event : Events, version : Versions]
      BY EventRouterAssumption DEF Init
    <2> QED
      BY <2>1, <2>2, EventRouterAssumption DEF Init, TypeOK, RouterStates, HandlerStates
  <1>2. TypeOK /\ [Next]_vars => TypeOK'
    <2> SUFFICES ASSUME TypeOK, [Next]_vars PROVE TypeOK'
      OBVIOUS
    <2>1. ASSUME NEW e \in Events, Deliver(e) PROVE TypeOK'
      <3>1. PICK v \in 1..version[e] :
              /\ seen' = [seen EXCEPT ![e] = v]
              /\ current' = [event |-> e, version |-> v]
        BY <2>1 DEF Deliver
      <3>2. v \in Versions /\ v \in 0..MaxVersion
        BY EventRouterAssumption DEF TypeOK
      <3>3. seen' \in [Events -> 0..MaxVersion] /\ current' \in [event : Events, version : Versions]
        BY <3>1, <3>2 DEF TypeOK
      <3>4. calls' \in 0..MaxCalls /\ calls' > 0
        BY <2>1, EventRouterAssumption DEF Deliver, TypeOK
      <3> QED
        BY <2>1, <3>3, <3>4 DEF Deliver, TypeOK, HandlerStates, queueVars, endpointVars
    <2>2. CASE Resolve
      <3>1. tries' \in 0..(MaxTries - 1)
        BY <2>2, EventRouterAssumption DEF Resolve, TypeOK
      <3>2. hpc' \in HandlerStates
        BY <2>2 DEF Resolve, HandlerStates
      <3> QED
        BY <2>2, <3>1, <3>2 DEF Resolve, TypeOK, queueVars, endpointVars
    <2>3. CASE ListRegistrations
      <3>1. toPush' \subseteq Registrations
        BY <2>3 DEF ListRegistrations
      <3>2. hpc' \in HandlerStates
        BY <2>3 DEF ListRegistrations, HandlerStates
      <3> QED
        BY <2>3, <3>1, <3>2 DEF ListRegistrations, TypeOK, queueVars, endpointVars
    <2>4. CASE Push
      BY <2>4, PushStep DEF TypeOK, HandlerStates, endpointVars
    <2>5. CASE Begin
      <3>1. Len(waiting') <= Capacity + 1
        BY <2>5, BeginStep, EventRouterAssumption DEF TypeOK
      <3> QED
        BY <2>5, <3>1, BeginStep DEF TypeOK, handlerVars
    <2>6. ASSUME NEW j \in executing, Finish(j) PROVE TypeOK'
      BY <2>6, FinishStep DEF TypeOK, handlerVars, endpointVars
    <2>7. CASE Signal \/ InformerStops \/ Exit
      BY <2>7 DEF Signal, InformerStops, Exit, TypeOK, RouterStates, handlerVars, queueVars, endpointVars
    <2>8. CASE Restart
      <3>1. waiting' \in Seq(Jobs) /\ Len(waiting') <= Capacity + 1
        BY <2>8, RestartStep, EventRouterAssumption
      <3>2. tries' \in 0..(MaxTries - 1)
        BY <2>8, RestartStep, EventRouterAssumption
      <3> QED
        BY <2>8, <3>1, <3>2, RestartStep, EventRouterAssumption DEF Restart, TypeOK, RouterStates, HandlerStates, endpointVars
    <2>9. ASSUME NEW e \in Events, EventWritten(e) PROVE TypeOK'
      BY <2>9, EventRouterAssumption DEF EventWritten, TypeOK, handlerVars, queueVars, endpointVars
    <2>10. ASSUME NEW j \in posts, Apply(j) \/ Lose(j) PROVE TypeOK'
      <3>1. j.reg \in Registrations /\ j.event \in Events /\ j.version \in 0..MaxVersion
        BY EventRouterAssumption DEF TypeOK, Jobs
      <3>2. received' \in [Registrations -> [Events -> 0..MaxVersion]]
        <4>1. CASE Apply(j)
          BY <3>1, <4>1, ApplyStep DEF TypeOK
        <4> QED
          BY <2>10, <4>1 DEF Lose, TypeOK
      <3>3. posts' \subseteq Jobs
        BY <2>10 DEF Apply, Lose, TypeOK
      <3> QED
        BY <2>10, <3>2, <3>3 DEF Apply, Lose, TypeOK, handlerVars, queueVars
    <2>11. CASE UNCHANGED vars
      BY <2>11 DEF vars, TypeOK, handlerVars, queueVars, endpointVars
    <2>12. CASE Process
      BY <2>1, <2>2, <2>3, <2>4, <2>5, <2>6, <2>7, <2>12 DEF Process, Handler, Worker
    <2> QED
      BY <2>8, <2>9, <2>10, <2>11, <2>12 DEF Next
  <1> QED
    BY <1>1, <1>2, PTL DEF Spec

-----------------------------------------------------------------------------
(* The order of the jobs.  The handler pushes the version the informer has *)
(* just handed over, and no version of its event that was handed over      *)
(* before, and so none that the queue was given, is later.                 *)

Behind(r) ==
  \A j \in InHands : j.event = current.event /\ j.reg = r => j.version <= current.version

OrderInv ==
  /\ \A e \in Events : seen[e] <= version[e]
  /\ hpc # "idle" => seen[current.event] = current.version
  /\ \A j \in InHands : j.version <= seen[j.event]
  /\ hpc \in {"resolve", "list"} => \A r \in Registrations : Behind(r)
  /\ hpc = "push" => \A r \in toPush : Behind(r)
  /\ QueuedInOrder

(* What keeps the queue and the handler keeps the order. *)
LEMMA OrderUndisturbed ==
  ASSUME TypeOK, OrderInv, UNCHANGED <<seen, handlerVars, queueVars>>,
         \A e \in Events : version[e] <= version'[e],
         \A e \in Events : version'[e] \in Nat
  PROVE  OrderInv'
  <1>1. InHands' = InHands
    BY DEF InHands, queueVars
  <1>2. \A e \in Events : seen'[e] <= version'[e]
    <2> SUFFICES ASSUME NEW e \in Events PROVE seen'[e] <= version'[e]
      OBVIOUS
    <2>1. seen[e] \in Nat /\ version[e] \in Nat /\ version'[e] \in Nat
      BY EventRouterAssumption DEF TypeOK
    <2> QED
      BY <2>1 DEF OrderInv
  <1>3. QueuedInOrder'
    BY DEF OrderInv, QueuedInOrder, queueVars
  <1> QED
    BY <1>1, <1>2, <1>3 DEF OrderInv, Behind, handlerVars

LEMMA OrderInductive == TypeOK /\ TypeOK' /\ OrderInv /\ [Next]_vars => OrderInv'
  <1> SUFFICES ASSUME TypeOK, TypeOK', OrderInv, [Next]_vars PROVE OrderInv'
    OBVIOUS
  <1>0. /\ InHands \subseteq Jobs
        /\ \A e \in Events : version[e] \in Nat /\ version'[e] \in Nat /\ seen[e] \in Nat
        /\ current.event \in Events /\ current.version \in Nat
        /\ \A j \in Jobs : j.event \in Events /\ j.reg \in Registrations /\ j.version \in Nat
    <2>1. \A i \in 1..Len(waiting) : waiting[i] \in Jobs
      BY WaitingAreJobs
    <2>2. InHands \subseteq Jobs
      BY <2>1 DEF InHands, TypeOK
    <2>3. \A n \in 0..MaxVersion : n \in Nat
      BY EventRouterAssumption
    <2>4. \A e \in Events : version[e] \in Nat /\ version'[e] \in Nat /\ seen[e] \in Nat
      BY <2>3 DEF TypeOK
    <2>5. current.event \in Events /\ current.version \in Nat
      BY EventRouterAssumption DEF TypeOK
    <2>6. \A j \in Jobs : j.event \in Events /\ j.reg \in Registrations /\ j.version \in Nat
      BY EventRouterAssumption DEF Jobs
    <2> QED
      BY <2>2, <2>4, <2>5, <2>6
  <1>1. ASSUME NEW e \in Events, Deliver(e) PROVE OrderInv'
    <2>1. PICK v \in 1..version[e] :
            /\ v >= seen[e]
            /\ seen' = [seen EXCEPT ![e] = v]
            /\ current' = [event |-> e, version |-> v]
      BY <1>1 DEF Deliver
    <2>2. /\ v \in Nat /\ seen[e] <= v /\ v <= version[e]
          /\ seen'[e] = v
          /\ \A d \in Events : seen[d] <= seen'[d] /\ seen'[d] <= version[d] /\ seen'[d] \in Nat
      <3>1. /\ version \in [Events -> Nat] /\ seen \in [Events -> Nat]
            /\ \A d \in Events : seen[d] <= version[d]
        BY <1>0, EventRouterAssumption DEF TypeOK, OrderInv
      <3>2. v \in Nat /\ seen[e] <= v /\ v <= version[e]
        BY <2>1, <3>1
      <3>3. /\ seen'[e] = v
            /\ \A d \in Events \ {e} : seen'[d] = seen[d]
        BY <2>1, <3>1
      <3>4. QED BY <3>1, <3>2, <3>3
    <2>3. InHands' = InHands /\ version' = version /\ hpc' \in {"idle", "resolve"}
      BY <1>1 DEF Deliver, InHands, queueVars
    <2>4. \A j \in InHands : j.version <= seen'[j.event]
      BY <1>0, <2>2 DEF OrderInv
    <2>5. \A j \in InHands : j.event = e => j.version <= v
      BY <1>0, <2>2 DEF OrderInv
    <2>6. QueuedInOrder'
      BY <1>1 DEF Deliver, OrderInv, QueuedInOrder, queueVars
    <2>7. \A r \in Registrations : Behind(r)'
      BY <2>1, <2>3, <2>5 DEF Behind
    <2> QED
      BY <2>1, <2>2, <2>3, <2>4, <2>6, <2>7 DEF OrderInv
  <1>2. CASE Resolve \/ ListRegistrations
    <2>1. InHands' = InHands
      BY <1>2 DEF Resolve, ListRegistrations, InHands, queueVars
    <2>2. QueuedInOrder'
      BY <1>2 DEF Resolve, ListRegistrations, OrderInv, QueuedInOrder, queueVars
    <2>3. \A r \in Registrations : Behind(r) /\ current' = current => Behind(r)'
      BY <2>1 DEF Behind
    <2>4. toPush' \subseteq Registrations
      BY DEF TypeOK
    <2> QED
      BY <1>2, <2>1, <2>2, <2>3, <2>4 DEF Resolve, ListRegistrations, OrderInv
  <1>3. CASE Push
    <2>1. PICK r \in toPush :
              /\ toPush' = toPush \ {r}
              /\ Job(r) \in Jobs
              /\ Job(r) \notin InHands
              /\ waiting' = Append(waiting, Job(r))
              /\ waiting' \in Seq(Jobs)
              /\ Len(waiting') = Len(waiting) + 1
              /\ \A i \in 1..Len(waiting) : waiting'[i] = waiting[i]
              /\ waiting'[Len(waiting) + 1] = Job(r)
              /\ InHands' = InHands \cup {Job(r)}
      BY <1>3, PushStep
    <2>2. /\ hpc = "push" /\ hpc' \in {"push", "idle"}
          /\ UNCHANGED <<version, seen, current, executing, finished>>
      BY <1>3, PushStep DEF endpointVars
    <2>3. Job(r).event = current.event /\ Job(r).version = current.version /\ Job(r).reg = r
      BY DEF Job
    <2>4. \A j \in InHands' : j.version <= seen'[j.event]
      BY <1>0, <2>1, <2>2, <2>3 DEF OrderInv
    <2>5. \A s \in toPush' : Behind(s)'
      BY <2>1, <2>2, <2>3 DEF OrderInv, Behind
    <2>6. \A j \in InHands : j.event = Job(r).event /\ j.reg = r => j.version <= Job(r).version
      BY <2>2, <2>3 DEF OrderInv, Behind
    <2>7. QueuedInOrder'
      <3> SUFFICES ASSUME NEW i \in 1..Len(waiting')
                   PROVE  /\ \A k \in 1..(i - 1) :
                               waiting'[k].event = waiting'[i].event /\ waiting'[k].reg = waiting'[i].reg
                                 => waiting'[k].version <= waiting'[i].version
                          /\ \A j \in executing \cup finished :
                               j.event = waiting'[i].event /\ j.reg = waiting'[i].reg
                                 => j.version <= waiting'[i].version
        BY <2>2 DEF QueuedInOrder
      <3>1. Len(waiting) \in Nat
        BY DEF TypeOK
      <3>2. CASE i \in 1..Len(waiting)
        <4>1. \A k \in 1..(i - 1) : k \in 1..Len(waiting)
          BY <3>1, <3>2
        <4> QED
          BY <2>1, <3>2, <4>1 DEF OrderInv, QueuedInOrder
      <3>3. CASE i = Len(waiting) + 1
        <4>1. \A k \in 1..(i - 1) : waiting'[k] \in InHands
          BY <2>1, <3>1, <3>3 DEF InHands
        <4>2. waiting'[i] = Job(r)
          BY <2>1, <3>3
        <4>3. executing \cup finished \subseteq InHands
          BY DEF InHands
        <4> QED
          BY <2>3, <2>6, <4>1, <4>2, <4>3
      <3>4. i \in 1..Len(waiting) \/ i = Len(waiting) + 1
        BY <2>1, <3>1
      <3> QED
        BY <3>2, <3>3, <3>4
    <2> QED
      BY <1>0, <2>2, <2>4, <2>5, <2>7 DEF OrderInv
  <1>4. CASE Begin
    <2>1. /\ InHands' \subseteq InHands
          /\ UNCHANGED <<version, seen, hpc, current, toPush, finished>>
          /\ executing' = executing \cup {waiting[1]}
          /\ Len(waiting) \in Nat \ {0}
          /\ Len(waiting') = Len(waiting) - 1
          /\ \A i \in 1..Len(waiting') : i + 1 \in 1..Len(waiting) /\ waiting'[i] = waiting[i + 1]
      BY <1>4, BeginStep DEF handlerVars
    <2>2. QueuedInOrder'
      <3> SUFFICES ASSUME NEW i \in 1..Len(waiting')
                   PROVE  /\ \A k \in 1..(i - 1) :
                               waiting'[k].event = waiting'[i].event /\ waiting'[k].reg = waiting'[i].reg
                                 => waiting'[k].version <= waiting'[i].version
                          /\ \A j \in executing' \cup finished :
                               j.event = waiting'[i].event /\ j.reg = waiting'[i].reg
                                 => j.version <= waiting'[i].version
        BY <2>1 DEF QueuedInOrder
      <3>1. i + 1 \in 1..Len(waiting) /\ waiting'[i] = waiting[i + 1] /\ 1 \in 1..((i + 1) - 1)
        BY <2>1
      <3>2. \A k \in 1..(i - 1) : k + 1 \in 1..((i + 1) - 1) /\ waiting'[k] = waiting[k + 1]
        BY <2>1
      <3>3. \A k \in 1..((i + 1) - 1) :
              waiting[k].event = waiting'[i].event /\ waiting[k].reg = waiting'[i].reg
                => waiting[k].version <= waiting'[i].version
        BY <3>1 DEF OrderInv, QueuedInOrder
      <3>4. \A j \in executing \cup finished :
              j.event = waiting'[i].event /\ j.reg = waiting'[i].reg
                => j.version <= waiting'[i].version
        BY <3>1 DEF OrderInv, QueuedInOrder
      <3>5. \A j \in executing' \cup finished : j = waiting[1] \/ j \in executing \cup finished
        BY <2>1
      <3>6. \A j \in executing' \cup finished :
              j.event = waiting'[i].event /\ j.reg = waiting'[i].reg
                => j.version <= waiting'[i].version
        BY <3>1, <3>3, <3>4, <3>5
      <3> QED
        BY <3>2, <3>3, <3>6
    <2> QED
      BY <2>1, <2>2 DEF OrderInv, Behind
  <1>5. ASSUME NEW j \in executing, Finish(j) PROVE OrderInv'
    <2>1. /\ executing' \cup finished' = executing \cup finished
          /\ InHands' = InHands
          /\ UNCHANGED <<version, seen, hpc, current, toPush, waiting>>
      BY <1>5, FinishStep DEF handlerVars
    <2>2. QueuedInOrder'
      BY <2>1 DEF OrderInv, QueuedInOrder
    <2> QED
      BY <2>1, <2>2 DEF OrderInv, Behind
  <1>6. CASE Signal \/ InformerStops \/ Exit
    BY <1>0, <1>6, OrderUndisturbed DEF Signal, InformerStops, Exit
  <1>7. CASE Restart
    <2>1. QueuedInOrder'
      BY <1>7, RestartStep DEF QueuedInOrder
    <2>2. \A e \in Events : seen'[e] <= version'[e]
      BY <1>0, <1>7, RestartStep
    <2> QED
      BY <1>7, <2>1, <2>2, RestartStep DEF OrderInv
  <1>8. ASSUME NEW e \in Events, EventWritten(e) PROVE OrderInv'
    <2>1. \A d \in Events : version[d] <= version'[d]
      <3>1. version \in [Events -> 0..MaxVersion] /\ version' = [version EXCEPT ![e] = @ + 1]
        BY <1>8 DEF EventWritten, TypeOK
      <3> QED
        BY <1>0, <3>1
    <2> QED
      BY <1>0, <1>8, <2>1, OrderUndisturbed DEF EventWritten
  <1>9. ASSUME NEW j \in posts, Apply(j) \/ Lose(j) PROVE OrderInv'
    BY <1>0, <1>9, OrderUndisturbed DEF Apply, Lose
  <1>10. CASE UNCHANGED vars
    BY <1>0, <1>10, OrderUndisturbed DEF vars
  <1>11. CASE Process
    BY <1>1, <1>2, <1>3, <1>4, <1>5, <1>6, <1>11 DEF Process, Handler, Worker
  <1> QED
    BY <1>7, <1>8, <1>9, <1>10, <1>11 DEF Next

LEMMA OrderInvariant == Spec => []OrderInv
  <1>1. Init => OrderInv
    <2> SUFFICES ASSUME Init PROVE OrderInv
      OBVIOUS
    <2>1. InHands = {}
      BY DEF Init, InHands
    <2> QED
      BY <2>1 DEF Init, OrderInv, QueuedInOrder
  <1> QED
    BY <1>1, TypeCorrect, OrderInductive, PTL DEF Spec

(* The jobs of every registration wait and start in the order of the       *)
(* versions of each event (Handle, notifyAll, the queue's first-in         *)
(* first-out), those a relist repeats included (OnUpdate), whatever the    *)
(* number of registrations and workers.                                    *)
THEOREM JobsStartInOrder == Spec => []QueuedInOrder
  <1>1. OrderInv => QueuedInOrder
    BY DEF OrderInv
  <1> QED
    BY <1>1, OrderInvariant, PTL

(* A callback makes jobs that the queue has not been given before.         *)
Fresh ==
  /\ \A j \in InHands : j.call <= calls
  /\ hpc \in {"resolve", "list"} => \A j \in InHands : j.call < calls
  /\ hpc = "push" => \A r \in toPush : Job(r) \notin InHands

LEMMA FreshInvariant == Spec => []Fresh
  <1>1. Init => Fresh
    BY DEF Init, Fresh, InHands
  <1>2. TypeOK /\ Fresh /\ [Next]_vars => Fresh'
    <2> SUFFICES ASSUME TypeOK, Fresh, [Next]_vars PROVE Fresh'
      OBVIOUS
    <2>0. calls \in Nat /\ \A j \in InHands : j.call \in Nat
      <3>1. \A i \in 1..Len(waiting) : waiting[i] \in Jobs
        BY WaitingAreJobs
      <3>2. InHands \subseteq Jobs
        BY <3>1 DEF InHands, TypeOK
      <3> QED
        BY <3>2, EventRouterAssumption DEF TypeOK, Jobs
    <2>1. CASE InHands' \subseteq InHands /\ UNCHANGED <<run, calls, hpc, current, toPush>>
      BY <2>1 DEF Fresh, Job
    <2>2. ASSUME NEW e \in Events, Deliver(e) PROVE Fresh'
      <3>1. InHands' = InHands /\ calls' = calls + 1 /\ hpc' # "push"
        BY <2>2 DEF Deliver, InHands, queueVars
      <3> QED
        BY <2>0, <3>1 DEF Fresh
    <2>3. CASE Resolve \/ ListRegistrations
      <3>1. InHands' = InHands /\ UNCHANGED <<calls, run, current>>
        BY <2>3 DEF Resolve, ListRegistrations, InHands, queueVars
      <3>2. \A r : Job(r)' = Job(r) /\ Job(r).call = calls
        BY <3>1 DEF Job
      <3>3. hpc \in {"resolve", "list"}
        BY <2>3 DEF Resolve, ListRegistrations
      <3>4. \A r \in toPush' : Job(r)' \notin InHands'
        BY <2>0, <3>1, <3>2, <3>3 DEF Fresh
      <3> QED
        BY <3>1, <3>3, <3>4 DEF Fresh
    <2>4. CASE Push
      <3>1. PICK r \in toPush : toPush' = toPush \ {r} /\ InHands' = InHands \cup {Job(r)}
        BY <2>4, PushStep
      <3>2. /\ hpc = "push" /\ hpc' \in {"push", "idle"}
            /\ UNCHANGED <<run, calls, current>>
        BY <2>4, PushStep
      <3>3. \A q : Job(q)' = Job(q) /\ Job(q).call = calls /\ Job(q).reg = q
        BY <3>2 DEF Job
      <3>4. \A q \in toPush' : Job(q)' \notin InHands'
        BY <3>1, <3>2, <3>3 DEF Fresh
      <3> QED
        BY <2>0, <3>1, <3>2, <3>3, <3>4 DEF Fresh
    <2>5. CASE Begin
      BY <2>1, <2>5, BeginStep DEF handlerVars
    <2>6. ASSUME NEW j \in executing, Finish(j) PROVE Fresh'
      BY <2>1, <2>6, FinishStep DEF handlerVars
    <2>7. CASE UNCHANGED <<run, handlerVars, queueVars>>
      BY <2>1, <2>7 DEF handlerVars, queueVars, InHands
    <2>8. CASE Signal \/ InformerStops \/ Exit \/ UNCHANGED vars
      BY <2>7, <2>8 DEF Signal, InformerStops, Exit, vars
    <2>9. CASE Restart
      BY <2>9, RestartStep DEF Fresh
    <2>10. ASSUME NEW e \in Events, EventWritten(e) PROVE Fresh'
      BY <2>7, <2>10 DEF EventWritten
    <2>11. ASSUME NEW j \in posts, Apply(j) \/ Lose(j) PROVE Fresh'
      BY <2>7, <2>11 DEF Apply, Lose
    <2> QED
      BY <2>2, <2>3, <2>4, <2>5, <2>6, <2>8, <2>9, <2>10, <2>11 DEF Next, Process, Handler, Worker
  <1> QED
    BY <1>1, <1>2, TypeCorrect, PTL DEF Spec

(* So the queue accepts whatever the handler has left to push: it knows    *)
(* none of those jobs.                                                     *)
PushedOnce == hpc = "push" => \A r \in toPush : ~TQ!Known(Job(r))

LEMMA PushedJobsAreNew == Spec => []PushedOnce
  <1>1. Fresh => PushedOnce
    BY DEF Fresh, PushedOnce, TQ!Known, InHands
  <1> QED
    BY <1>1, FreshInvariant, PTL

-----------------------------------------------------------------------------
(* The router and its queue.  TaskQueueProofs speaks of the queue of one   *)
(* process: the steps of the router are operations of it, up to a restart. *)
Promises == INSTANCE TaskQueueProofs

(* Whatever the informer, the workers, the endpoints and signals do, the   *)
(* queue is used by its operations only; a new process has a new queue.    *)
LEMMA QueueSteps ==
  ASSUME TypeOK, [Next]_vars
  PROVE  Restart \/ [Promises!Next]_(Promises!vars)
  <1>1. UNCHANGED queueVars => UNCHANGED Promises!vars
    BY DEF queueVars, Promises!vars
  <1>2. CASE Push
    <2>1. PICK r \in toPush : TQ!Accept(Job(r)) /\ Job(r) \in Jobs
      BY <1>2 DEF Push, TypeOK, Jobs, Job
    <2>2. Promises!Accept(Job(r))
      BY <2>1 DEF TQ!Accept, TQ!Known, Promises!Accept, Promises!Known
    <2> QED
      BY <2>1, <2>2 DEF Promises!Next
  <1>3. CASE Begin
    BY <1>3 DEF Begin, TQ!Begin, Promises!Begin, Promises!Next
  <1>4. ASSUME NEW j \in executing, Finish(j) PROVE Promises!Next
    <2>1. j \in Jobs
      BY DEF TypeOK
    <2> QED
      BY <1>4, <2>1 DEF Finish, TQ!Finish, Promises!Finish, Promises!Next
  <1>5. CASE Resolve \/ ListRegistrations \/ Signal \/ InformerStops \/ Exit \/ UNCHANGED vars
    BY <1>1, <1>5 DEF Resolve, ListRegistrations, Signal, InformerStops, Exit, vars
  <1>6. ASSUME NEW e \in Events, Deliver(e) \/ EventWritten(e) PROVE UNCHANGED Promises!vars
    BY <1>1, <1>6 DEF Deliver, EventWritten
  <1>7. ASSUME NEW j \in posts, Apply(j) \/ Lose(j) PROVE UNCHANGED Promises!vars
    BY <1>1, <1>7 DEF Apply, Lose
  <1> QED
    BY <1>2, <1>3, <1>4, <1>5, <1>6, <1>7 DEF Next, Process, Handler, Worker

(* The queue only has jobs of this process.                                *)
OwnJobs == \A j \in InHands : j.run = run

QueueOfThisRun == Promises!QueueInv /\ OwnJobs

LEMMA QueueOfThisRunInvariant == Spec => []QueueOfThisRun
  <1>1. Init => QueueOfThisRun
    BY DEF Init, QueueOfThisRun, OwnJobs, InHands, Promises!QueueInv, Promises!QueueTypes,
           Promises!OnePlace, Promises!IdleOutside, Promises!Positions, Promises!Started
  <1>2. TypeOK /\ QueueOfThisRun /\ [Next]_vars => Promises!QueueInv'
    <2> SUFFICES ASSUME TypeOK, QueueOfThisRun, [Next]_vars PROVE Promises!QueueInv'
      OBVIOUS
    <2>1. CASE Restart
      <3>1. phase' = "open" /\ waiting' = <<>> /\ executing' = {} /\ finished' = {}
        BY <2>1, RestartStep DEF TypeOK
      <3> QED
        BY <3>1
        DEF Promises!QueueInv, Promises!QueueTypes,
            Promises!OnePlace, Promises!IdleOutside, Promises!Positions, Promises!Started
    <2>2. CASE ~Restart
      BY <2>2, QueueSteps, Promises!QueueInvInductive DEF QueueOfThisRun
    <2> QED
      BY <2>1, <2>2
  <1>3. TypeOK /\ QueueOfThisRun /\ [Next]_vars => OwnJobs'
    <2> SUFFICES ASSUME TypeOK, QueueOfThisRun, [Next]_vars PROVE OwnJobs'
      OBVIOUS
    <2>1. CASE run' = run /\ InHands' \subseteq InHands
      BY <2>1 DEF QueueOfThisRun, OwnJobs
    <2>2. CASE Push
      <3>1. PICK r \in toPush : InHands' = InHands \cup {Job(r)}
        BY <2>2, PushStep
      <3> QED
        BY <2>2, <3>1, PushStep DEF QueueOfThisRun, OwnJobs, Job
    <2>3. CASE Begin
      BY <2>1, <2>3, BeginStep
    <2>4. ASSUME NEW j \in executing, Finish(j) PROVE OwnJobs'
      BY <2>1, <2>4, FinishStep
    <2>5. CASE Restart
      BY <2>5, RestartStep DEF OwnJobs
    <2>6. CASE run' = run /\ UNCHANGED queueVars
      BY <2>1, <2>6 DEF queueVars, InHands
    <2>7. CASE Resolve \/ ListRegistrations \/ Signal \/ InformerStops \/ Exit \/ UNCHANGED vars
      BY <2>6, <2>7 DEF Resolve, ListRegistrations, Signal, InformerStops, Exit, vars
    <2>8. ASSUME NEW e \in Events, Deliver(e) \/ EventWritten(e) PROVE OwnJobs'
      BY <2>6, <2>8 DEF Deliver, EventWritten
    <2>9. ASSUME NEW j \in posts, Apply(j) \/ Lose(j) PROVE OwnJobs'
      BY <2>6, <2>9 DEF Apply, Lose
    <2> QED
      BY <2>2, <2>3, <2>4, <2>5, <2>7, <2>8, <2>9 DEF Next, Process, Handler, Worker
  <1> QED
    BY <1>1, <1>2, <1>3, TypeCorrect, PTL DEF Spec, QueueOfThisRun

(* Between restarts the router gets from its queue what the abstract queue *)
(* promises, with any number of workers and any endpoints: the jobs it     *)
(* pushes start in the order of the pushes (main.go:85, notifyAll), none   *)
(* is lost, and none runs twice.                                           *)
THEOREM QueueKeepsItsPromises ==
  Spec => []Promises!QueueInv /\ [][Restart \/ [Promises!KeepsItsOrder]_(Promises!vars)]_vars
  <1>1. TypeOK /\ QueueOfThisRun /\ [Next]_vars
          => [Restart \/ [Promises!KeepsItsOrder]_(Promises!vars)]_vars
    BY QueueSteps, Promises!StepsKeepOrder DEF QueueOfThisRun
  <1>2. QueueOfThisRun => Promises!QueueInv
    BY DEF QueueOfThisRun
  <1> QED
    BY <1>1, <1>2, TypeCorrect, QueueOfThisRunInvariant, PTL DEF Spec

(* A request is sent for a job of this process that had not started, and   *)
(* what has started stays so as long as the process lives.                 *)
OnePostPerJob ==
  /\ \A j \in (posts' \ posts) \cup (executing' \ executing) :
       j.run = run /\ j \notin executing \cup finished /\ j \in executing'
  /\ \/ executing \cup finished \subseteq executing' \cup finished' /\ run' = run
     \/ run' = run + 1

(* A callback of the informer asks a registration for one request at most, *)
(* whatever is lost, late or refused: a job is posted when it starts, and  *)
(* starts once (advisor.go:43-79).  A version that a relist hands over     *)
(* once more is another callback's, and another job's.                     *)
THEOREM JobsArePostedOnce == Spec => [][OnePostPerJob]_vars
  <1>1. TypeOK /\ QueueOfThisRun /\ [Next]_vars => [OnePostPerJob]_vars
    <2> SUFFICES ASSUME TypeOK, QueueOfThisRun, Next PROVE OnePostPerJob
      OBVIOUS
    <2>1. CASE Begin
      <3>1. waiting[1] \notin executing \cup finished
        BY <2>1, BeginStep
        DEF QueueOfThisRun, Promises!QueueInv, Promises!OnePlace, Promises!Positions, Promises!Started
      <3>2. waiting[1].run = run
        BY <2>1, BeginStep DEF QueueOfThisRun, OwnJobs
      <3> QED
        BY <2>1, <3>1, <3>2, BeginStep DEF OnePostPerJob
    <2>2. CASE posts' \subseteq posts /\ executing' \subseteq executing /\ run' = run
               /\ executing \cup finished \subseteq executing' \cup finished'
      BY <2>2 DEF OnePostPerJob
    <2>3. ASSUME NEW j \in executing, Finish(j) PROVE OnePostPerJob
      BY <2>2, <2>3, FinishStep DEF endpointVars
    <2>4. CASE Restart
      BY <2>4, RestartStep DEF OnePostPerJob, Restart, endpointVars
    <2>5. CASE Push
      BY <2>2, <2>5, PushStep DEF endpointVars
    <2>6. CASE Resolve \/ ListRegistrations \/ Signal \/ InformerStops \/ Exit
      BY <2>2, <2>6
      DEF Resolve, ListRegistrations, Signal, InformerStops, Exit, queueVars, endpointVars
    <2>7. ASSUME NEW e \in Events, Deliver(e) \/ EventWritten(e) PROVE OnePostPerJob
      BY <2>2, <2>7 DEF Deliver, EventWritten, queueVars, endpointVars
    <2>8. ASSUME NEW j \in posts, Apply(j) \/ Lose(j) PROVE OnePostPerJob
      BY <2>2, <2>8 DEF Apply, Lose, queueVars
    <2> QED
      BY <2>1, <2>3, <2>4, <2>5, <2>6, <2>7, <2>8 DEF Next, Process, Handler, Worker
  <1> QED
    BY <1>1, TypeCorrect, QueueOfThisRunInvariant, PTL DEF Spec

-----------------------------------------------------------------------------
(* The handler and the workers wait for each other, never both at once.    *)
PushCanMove == Len(waiting) <= Capacity /\ \E r \in toPush : ~TQ!Known(Job(r))
BeginCanMove == waiting # <<>> /\ Cardinality(executing) < Threads
FinishCanMove == executing # {}

(* While there is something to push or a job to run, the handler or a      *)
(* worker of a process that lives can take a step.                       *)
SomeoneMoves ==
  hpc = "push" \/ waiting # <<>> => PushCanMove \/ BeginCanMove \/ FinishCanMove

(* The handler pushes only while registrations are left.                   *)
PushesSomething == hpc = "push" => toPush # {}

LEMMA PushesSomethingInvariant == Spec => []PushesSomething
  <1>1. Init => PushesSomething
    BY DEF Init, PushesSomething
  <1>2. PushesSomething /\ [Next]_vars => PushesSomething'
    <2> SUFFICES ASSUME PushesSomething, [Next]_vars PROVE PushesSomething'
      OBVIOUS
    <2>1. CASE UNCHANGED <<hpc, toPush>>
      BY <2>1 DEF PushesSomething
    <2>2. CASE ListRegistrations \/ Push
      BY <2>2 DEF ListRegistrations, Push, PushesSomething
    <2>3. CASE Resolve \/ Restart
      BY <2>3 DEF Resolve, Restart, PushesSomething
    <2>4. CASE Begin \/ Signal \/ InformerStops \/ Exit \/ UNCHANGED vars
      BY <2>1, <2>4 DEF Begin, Signal, InformerStops, Exit, vars, handlerVars
    <2>5. ASSUME NEW j, Finish(j) \/ Apply(j) \/ Lose(j) PROVE PushesSomething'
      BY <2>1, <2>5 DEF Finish, Apply, Lose, handlerVars
    <2>6. ASSUME NEW e \in Events, EventWritten(e) PROVE PushesSomething'
      BY <2>1, <2>6 DEF EventWritten, handlerVars
    <2>7. ASSUME NEW e \in Events, Deliver(e) PROVE PushesSomething'
      BY <2>7 DEF Deliver, PushesSomething
    <2> QED
      BY <2>2, <2>3, <2>4, <2>5, <2>6, <2>7 DEF Next, Process, Handler, Worker
  <1> QED
    BY <1>1, <1>2, PTL DEF Spec

(* The informer's callback, which waits in Push while the queue is full,   *)
(* and the workers cannot wait for each other for ever (handler.go:99,     *)
(* chan_queue.go:75), with one worker and no buffer as well as with more:  *)
(* a full queue has a job to start, or one whose post will time out.       *)
THEOREM NeverStuck == Spec => []SomeoneMoves
  <1>1. TypeOK /\ PushedOnce /\ PushesSomething => SomeoneMoves
    <2> SUFFICES ASSUME TypeOK, PushedOnce, PushesSomething, hpc = "push" \/ waiting # <<>>,
                        executing = {}
                 PROVE  PushCanMove \/ BeginCanMove
      BY DEF SomeoneMoves, FinishCanMove
    <2>1. Cardinality(executing) < Threads
      BY FS_EmptySet, EventRouterAssumption
    <2>2. CASE waiting # <<>>
      BY <2>1, <2>2 DEF BeginCanMove
    <2>3. CASE waiting = <<>> /\ hpc = "push"
      BY <2>3, EventRouterAssumption DEF PushCanMove, PushedOnce, PushesSomething
    <2> QED
      BY <2>2, <2>3
  <1> QED
    BY <1>1, TypeCorrect, PushedJobsAreNew, PushesSomethingInvariant, PTL

-----------------------------------------------------------------------------
(* What endpoints were asked.  A version that was sent was handed over by  *)
(* the informer of this process, or of an earlier one: then it is at most  *)
(* the current version, from which a new process starts.                   *)

(* No version of e the endpoint has, or may still apply, is later than n. *)
AtMost(r, e, n) ==
  /\ received[r][e] <= n
  /\ \A j \in posts : j.reg = r /\ j.event = e => j.version <= n

EndpointInv ==
  /\ \A r \in Registrations, e \in Events : AtMost(r, e, seen[e])
  /\ hpc # "idle" => \A r \in Registrations : AtMost(r, current.event, current.version)
  /\ \A i \in 1..Len(waiting) : AtMost(waiting[i].reg, waiting[i].event, waiting[i].version)

LEMMA AtMostMonotonic ==
  ASSUME TypeOK, NEW r \in Registrations, NEW e \in Events, NEW m \in Nat, NEW n \in Nat, m <= n, AtMost(r, e, m)
  PROVE  AtMost(r, e, n)
  <1>1. received[r][e] \in Nat /\ \A j \in posts : j.version \in Nat
    BY EventRouterAssumption DEF TypeOK, Jobs
  <1> QED
    BY <1>1 DEF AtMost

(* An endpoint that applies or loses a request is asked nothing new. *)
LEMMA AnswerStep ==
  ASSUME TypeOK, NEW j \in posts, Apply(j) \/ Lose(j)
  PROVE  /\ \A r \in Registrations, e \in Events, n \in Nat : AtMost(r, e, n) => AtMost(r, e, n)'
         /\ UNCHANGED <<version, run, router, seen, handlerVars, queueVars>>
  <1>1. CASE Apply(j)
    BY <1>1, ApplyStep DEF AtMost
  <1>2. CASE Lose(j)
    BY <1>2 DEF Lose, AtMost
  <1> QED
    BY <1>1, <1>2

(* A worker asks an endpoint for the version of the job it takes. *)
LEMMA AskStep ==
  ASSUME TypeOK, Begin, NEW r \in Registrations, NEW e \in Events, NEW n \in Nat, AtMost(r, e, n),
         waiting[1].reg = r /\ waiting[1].event = e => waiting[1].version <= n
  PROVE  AtMost(r, e, n)'
  BY BeginStep DEF AtMost

LEMMA EndpointInductive == TypeOK /\ TypeOK' /\ OrderInv /\ EndpointInv /\ [Next]_vars => EndpointInv'
  <1> SUFFICES ASSUME TypeOK, TypeOK', OrderInv, EndpointInv, [Next]_vars PROVE EndpointInv'
    OBVIOUS
  <1>0. /\ \A e \in Events : version[e] \in Nat /\ version'[e] \in Nat /\ seen[e] \in Nat /\ seen'[e] \in Nat
        /\ current.event \in Events /\ current.version \in Nat
        /\ \A i \in 1..Len(waiting) : /\ waiting[i].event \in Events /\ waiting[i].reg \in Registrations
                                      /\ waiting[i].version \in Nat /\ waiting[i] \in InHands
    <2>1. \A n \in 0..MaxVersion : n \in Nat
      BY EventRouterAssumption
    <2>2. \A i \in 1..Len(waiting) : waiting[i] \in Jobs /\ waiting[i] \in InHands
      BY WaitingAreJobs DEF InHands
    <2>3. \A j \in Jobs : j.event \in Events /\ j.reg \in Registrations /\ j.version \in Nat
      BY EventRouterAssumption DEF Jobs
    <2>4. current.event \in Events /\ current.version \in Nat
      BY EventRouterAssumption DEF TypeOK
    <2>5. \A e \in Events : version[e] \in Nat /\ version'[e] \in Nat /\ seen[e] \in Nat /\ seen'[e] \in Nat
      BY <2>1 DEF TypeOK
    <2> QED
      BY <2>2, <2>3, <2>4, <2>5
  <1>1. ASSUME NEW e \in Events, Deliver(e) PROVE EndpointInv'
    <2>1. PICK v \in 1..version[e] :
            /\ v >= seen[e]
            /\ seen' = [seen EXCEPT ![e] = v]
            /\ current' = [event |-> e, version |-> v]
      BY <1>1 DEF Deliver
    <2>0. seen \in [Events -> 0..MaxVersion] /\ version \in [Events -> 0..MaxVersion]
      BY <1>0 DEF TypeOK
    <2>2. /\ v \in Nat /\ seen[e] <= v
          /\ \A d \in Events : seen[d] <= seen'[d]
      BY <2>0, <2>1, EventRouterAssumption
    <2>3. UNCHANGED <<version, posts, received, waiting>>
      BY <1>1 DEF Deliver, queueVars, endpointVars
    <2>4. \A r \in Registrations, d \in Events : AtMost(r, d, seen'[d])
      BY <1>0, <2>2, AtMostMonotonic DEF EndpointInv
    <2>5. \A r \in Registrations : AtMost(r, e, v)
      BY <1>0, <2>2, AtMostMonotonic DEF EndpointInv
    <2> QED
      BY <2>1, <2>3, <2>4, <2>5 DEF EndpointInv, AtMost
  <1>2. CASE Resolve \/ ListRegistrations
    BY <1>2 DEF Resolve, ListRegistrations, EndpointInv, AtMost, queueVars, endpointVars
  <1>3. CASE Push
    <2>1. PICK r \in Registrations :
            /\ Len(waiting') = Len(waiting) + 1
            /\ \A i \in 1..Len(waiting) : waiting'[i] = waiting[i]
            /\ waiting'[Len(waiting) + 1] = Job(r)
      BY <1>3, PushStep DEF TypeOK
    <2>2. hpc = "push" /\ UNCHANGED <<version, seen, current, posts, received>>
      BY <1>3, PushStep DEF endpointVars
    <2>3. AtMost(Job(r).reg, Job(r).event, Job(r).version)
      BY <2>2 DEF EndpointInv, Job
    <2>0. Len(waiting) \in Nat
      BY DEF TypeOK
    <2>4. \A i \in 1..Len(waiting') : i \in 1..Len(waiting) \/ i = Len(waiting) + 1
      BY <2>0, <2>1
    <2>5. \A i \in 1..Len(waiting') : AtMost(waiting'[i].reg, waiting'[i].event, waiting'[i].version)
      BY <2>1, <2>3, <2>4 DEF EndpointInv
    <2> QED
      BY <2>2, <2>5 DEF EndpointInv, AtMost
  <1>4. CASE Begin
    <2>1. /\ UNCHANGED <<version, seen, hpc, current>>
          /\ 1 \in 1..Len(waiting)
          /\ \A i \in 1..Len(waiting') : /\ i + 1 \in 1..Len(waiting) /\ waiting'[i] = waiting[i + 1]
                                         /\ 1 \in 1..((i + 1) - 1)
      BY <1>4, BeginStep DEF handlerVars
    <2>2. waiting[1].version <= seen[waiting[1].event] /\ waiting[1].version <= version[waiting[1].event]
      BY <1>0, <2>1 DEF OrderInv
    <2>3. ASSUME NEW r \in Registrations, NEW e \in Events
          PROVE  AtMost(r, e, seen[e])'
      BY <1>0, <1>4, <2>1, <2>2, AskStep DEF EndpointInv
    <2>4. ASSUME hpc # "idle", NEW r \in Registrations
          PROVE  AtMost(r, current.event, current.version)'
      BY <1>0, <1>4, <2>1, <2>2, <2>4, AskStep DEF EndpointInv, OrderInv
    <2>5. ASSUME NEW i \in 1..Len(waiting')
          PROVE  AtMost(waiting[i].reg, waiting[i].event, waiting[i].version)'
      <3>1. waiting[1].reg = waiting[i + 1].reg /\ waiting[1].event = waiting[i + 1].event
              => waiting[1].version <= waiting[i + 1].version
        <4>1. \A n \in 1..Len(waiting) : \A k \in 1..(n - 1) :
                waiting[k].event = waiting[n].event /\ waiting[k].reg = waiting[n].reg
                  => waiting[k].version <= waiting[n].version
          BY DEF OrderInv, QueuedInOrder
        <4> QED
          BY <2>1, <4>1
      <3>2. AtMost(waiting[i + 1].reg, waiting[i + 1].event, waiting[i + 1].version)
        BY <2>1 DEF EndpointInv
      <3> DEFINE job == waiting[i + 1]
      <3>3. job = waiting'[i] /\ job.reg \in Registrations /\ job.event \in Events /\ job.version \in Nat
        BY <1>0, <2>1
      <3> QED
        BY <1>4, <3>1, <3>2, <3>3, BeginStep DEF AtMost
    <2> QED
      BY <2>1, <2>3, <2>4, <2>5 DEF EndpointInv
  <1>5. ASSUME NEW j \in executing, Finish(j) PROVE EndpointInv'
    BY <1>5, FinishStep DEF EndpointInv, AtMost, handlerVars, endpointVars
  <1>6. CASE Signal \/ InformerStops \/ Exit
    BY <1>6 DEF Signal, InformerStops, Exit, EndpointInv, AtMost, handlerVars, queueVars, endpointVars
  <1>7. CASE Restart
    <2>1. \A e \in Events : seen[e] <= seen'[e]
      BY <1>7, RestartStep DEF OrderInv
    <2>2. hpc' = "idle" /\ waiting' = <<>> /\ UNCHANGED <<version, posts, received>>
      BY <1>7, RestartStep DEF endpointVars
    <2>3. \A r \in Registrations, e \in Events : AtMost(r, e, seen'[e])
      BY <1>0, <2>1, AtMostMonotonic DEF EndpointInv
    <2> QED
      BY <2>2, <2>3 DEF EndpointInv, AtMost
  <1>8. ASSUME NEW e \in Events, EventWritten(e) PROVE EndpointInv'
    BY <1>8 DEF EventWritten, EndpointInv, AtMost, handlerVars, queueVars, endpointVars
  <1>9. ASSUME NEW j \in posts, Apply(j) \/ Lose(j) PROVE EndpointInv'
    <2>1. \A r \in Registrations, d \in Events, n \in Nat : AtMost(r, d, n) => AtMost(r, d, n)'
      BY <1>9, AnswerStep
    <2>2. UNCHANGED <<version, seen, hpc, current, waiting>>
      BY <1>9, AnswerStep DEF handlerVars, queueVars
    <2>3. \A r \in Registrations, e \in Events : AtMost(r, e, seen[e])'
      BY <1>0, <2>1, <2>2 DEF EndpointInv
    <2>4. hpc # "idle" => \A r \in Registrations : AtMost(r, current.event, current.version)'
      BY <1>0, <2>1, <2>2 DEF EndpointInv
    <2>5. \A i \in 1..Len(waiting) : AtMost(waiting[i].reg, waiting[i].event, waiting[i].version)'
      BY <1>0, <2>1, <2>2 DEF EndpointInv
    <2> QED
      BY <2>2, <2>3, <2>4, <2>5 DEF EndpointInv
  <1>10. CASE UNCHANGED vars
    BY <1>10 DEF vars, EndpointInv, AtMost, handlerVars, queueVars, endpointVars
  <1>11. CASE Process
    BY <1>1, <1>2, <1>3, <1>4, <1>5, <1>6, <1>11 DEF Process, Handler, Worker
  <1> QED
    BY <1>7, <1>8, <1>9, <1>10, <1>11 DEF Next

(* No request is begun for a version of an event older than the one its    *)
(* endpoint has applied, across restarts (Run's first list) and requests   *)
(* that are answered late or lost (advisor.notify).                        *)
THEOREM NoStaleRequest == Spec => []QueuedAreNewer
  <1>1. Init => EndpointInv
    <2> SUFFICES ASSUME Init PROVE EndpointInv
      OBVIOUS
    <2>1. \A r \in Registrations, e \in Events : received[r][e] = 0 /\ version[e] = 0 /\ seen[e] = 0
      BY DEF Init
    <2> QED
      BY <2>1 DEF Init, EndpointInv, AtMost
  <1>2. EndpointInv => QueuedAreNewer
    BY DEF EndpointInv, AtMost, QueuedAreNewer
  <1> QED
    BY <1>1, <1>2, TypeCorrect, OrderInvariant, EndpointInductive, PTL DEF Spec

=============================================================================
