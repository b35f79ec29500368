-------------------------- MODULE TaskQueueProofs --------------------------
(***************************************************************************)
(* Proofs about the abstract task queue: the promises its callers, among   *)
(* them the event router, rely on.                                         *)
(***************************************************************************)
EXTENDS TaskQueue, TLAPS

Positions == 1..Len(waiting)
Waits(j) == \E i \in Positions : waiting[i] = j
Started == executing \cup finished

QueueTypes ==
  /\ phase \in {"new", "open", "draining", "closed"}
  /\ waiting \in Seq(Jobs)
  /\ executing \subseteq Jobs
  /\ finished \subseteq Jobs

(* A job is in one place: once in the line, or executing, or finished.     *)
OnePlace ==
  /\ \A i, j \in Positions : waiting[i] = waiting[j] => i = j
  /\ \A i \in Positions : waiting[i] \notin Started
  /\ executing \cap finished = {}

(* A queue that has not been opened has no job; a closed one has no job    *)
(* left to do.                                                             *)
IdleOutside ==
  /\ phase = "new" => waiting = <<>> /\ Started = {}
  /\ phase = "closed" => waiting = <<>> /\ executing = {}

QueueInv == QueueTypes /\ OnePlace /\ IdleOutside

(* What Begin does to the line.                                            *)
LEMMA HeadLeaves ==
  ASSUME QueueInv, Begin
  PROVE  /\ Len(waiting) \in Nat \ {0}
         /\ Head(waiting) = waiting[1] /\ waiting[1] \in Jobs
         /\ waiting' \in Seq(Jobs) /\ Len(waiting') = Len(waiting) - 1
         /\ \A i \in Positions' : i + 1 \in Positions /\ waiting'[i] = waiting[i + 1]
         /\ \A i \in Positions \ {1} : i - 1 \in Positions' /\ waiting'[i - 1] = waiting[i]
BY DEF QueueInv, QueueTypes, Begin, Positions

(* What Accept does to it.                                                 *)
LEMMA LastJoins ==
  ASSUME QueueInv, NEW j \in Jobs, Accept(j)
  PROVE  /\ Len(waiting) \in Nat
         /\ waiting' \in Seq(Jobs) /\ Positions' = Positions \cup {Len(waiting) + 1}
         /\ waiting'[Len(waiting) + 1] = j
         /\ \A i \in Positions : waiting'[i] = waiting[i] /\ waiting[i] # j /\ i < Len(waiting) + 1
         /\ j \notin Started
BY DEF QueueInv, QueueTypes, Accept, Known, Positions, Started

(* A step of the queue moves a job from one place to one other.            *)
LEMMA QueueInvInductive == QueueInv /\ [Next]_vars => QueueInv'
<1> SUFFICES ASSUME QueueInv, [Next]_vars PROVE QueueInv'
  OBVIOUS
<1>1. CASE Open
  BY <1>1 DEF Open, QueueInv, QueueTypes, OnePlace, IdleOutside, Positions, Started
<1>2. CASE Begin
  <2>1. QueueTypes'
    BY <1>2, HeadLeaves DEF Begin, QueueInv, QueueTypes
  <2>2. OnePlace'
    <3>1. waiting[1] \notin Started /\ \A i \in Positions' : waiting'[i] # waiting[1]
      BY <1>2, HeadLeaves DEF QueueInv, OnePlace, Positions
    <3>2. \A i, j \in Positions' : waiting'[i] = waiting'[j] => i = j
      <4> SUFFICES ASSUME NEW i \in Positions', NEW j \in Positions', waiting'[i] = waiting'[j]
                   PROVE  i = j
        OBVIOUS
      <4>1. i + 1 = j + 1 BY <1>2, HeadLeaves DEF QueueInv, OnePlace
      <4>2. i \in Nat /\ j \in Nat BY <1>2, HeadLeaves DEF Positions
      <4>3. QED BY <4>1, <4>2
    <3>3. executing' = executing \cup {waiting[1]} /\ finished' = finished
      BY <1>2, HeadLeaves DEF Begin
    <3>4. \A i \in Positions' : waiting'[i] \notin Started'
      BY <1>2, <3>1, <3>3, HeadLeaves DEF QueueInv, OnePlace, Started
    <3>5. executing' \cap finished' = {}
      BY <3>1, <3>3 DEF QueueInv, OnePlace, Started
    <3>6. QED BY <3>2, <3>4, <3>5 DEF OnePlace
  <2>3. IdleOutside' BY <1>2 DEF Begin, IdleOutside
  <2>4. QED BY <2>1, <2>2, <2>3 DEF QueueInv
<1>3. CASE Drain \/ Close
  BY <1>3 DEF Drain, Close, QueueInv, QueueTypes, OnePlace, IdleOutside, Positions, Started
<1>4. ASSUME NEW j \in Jobs, Accept(j) PROVE QueueInv'
  <2>1. QueueTypes' BY <1>4, LastJoins DEF Accept, QueueInv, QueueTypes
  <2>2. OnePlace'
    <3>1. executing' = executing /\ finished' = finished BY <1>4 DEF Accept
    <3>2. \A i, k \in Positions' : waiting'[i] = waiting'[k] => i = k
      BY <1>4, LastJoins DEF QueueInv, OnePlace
    <3>3. \A i \in Positions' : waiting'[i] \notin Started'
      BY <1>4, <3>1, LastJoins DEF QueueInv, OnePlace, Started
    <3>4. QED BY <3>1, <3>2, <3>3 DEF QueueInv, OnePlace
  <2>3. IdleOutside' BY <1>4 DEF Accept, IdleOutside
  <2>4. QED BY <2>1, <2>2, <2>3 DEF QueueInv
<1>5. ASSUME NEW j \in Jobs, Finish(j) PROVE QueueInv'
  BY <1>5 DEF Finish, QueueInv, QueueTypes, OnePlace, IdleOutside, Positions, Started
<1>6. CASE UNCHANGED vars
  BY <1>6 DEF vars, QueueInv, QueueTypes, OnePlace, IdleOutside, Positions, Started
<1>7. QED BY <1>1, <1>2, <1>3, <1>4, <1>5, <1>6 DEF Next

(* Every accepted job is in one place, and none is left when the queue is  *)
(* closed: what Terminate is for (chan_queue.go:52-76, list_queue.go:      *)
(* 102-115).                                                               *)
THEOREM QueueSafe == Spec => []QueueInv
<1>1. Init => QueueInv
  BY DEF Init, QueueInv, QueueTypes, OnePlace, IdleOutside, Positions, Started
<1>2. QED BY <1>1, QueueInvInductive, PTL DEF Spec

(* i is in the line ahead of j.                                            *)
Ahead(i, j) == \E a, b \in Positions : a < b /\ waiting[a] = i /\ waiting[b] = j

(* Who comes joins at the end; of two jobs that wait the one ahead starts  *)
(* first; a job that has started does not come back.                       *)
KeepsItsOrder ==
  /\ \A i, j \in Jobs : Waits(i) /\ ~Known(j) /\ Waits(j)' => Ahead(i, j)'
  /\ \A i, j \in Jobs : Ahead(i, j) => Ahead(i, j)' \/ (i \in Started' /\ Waits(j)')
  /\ \A j \in Jobs : Known(j) => Known(j)'
  /\ Started \subseteq Started' /\ finished \subseteq finished'

(* Accept appends, Begin takes the first of the line, and no other step    *)
(* changes the line.                                                       *)
LEMMA StepsKeepOrder == QueueInv /\ [Next]_vars => [KeepsItsOrder]_vars
<1> SUFFICES ASSUME QueueInv, Next PROVE KeepsItsOrder
  OBVIOUS
<1> USE DEF Started
<1>1. \A j : Known(j) <=> Waits(j) \/ j \in Started
  BY DEF Known, Waits, Positions
<1>2. CASE UNCHANGED waiting /\ Started \subseteq Started' /\ finished \subseteq finished'
  BY <1>1, <1>2 DEF KeepsItsOrder, Ahead, Waits, Positions, Known
<1>3. CASE Open \/ Drain \/ Close
  BY <1>2, <1>3 DEF Open, Drain, Close
<1>4. ASSUME NEW j \in Jobs, Finish(j) PROVE KeepsItsOrder
  BY <1>2, <1>4 DEF Finish
<1>5. ASSUME NEW j \in Jobs, Accept(j) PROVE KeepsItsOrder
  <2> DEFINE n == Len(waiting) + 1
  <2>1. /\ Len(waiting) \in Nat /\ Positions' = Positions \cup {n}
        /\ waiting'[n] = j
        /\ \A i \in Positions : waiting'[i] = waiting[i] /\ waiting[i] # j /\ i < n
        /\ UNCHANGED <<executing, finished>>
    BY <1>5, LastJoins DEF Accept
  <2>2. \A i : Waits(i)' <=> Waits(i) \/ i = j BY <2>1 DEF Waits
  <2>3. \A i : Waits(i) => Ahead(i, j)' BY <2>1 DEF Waits, Ahead
  <2>4. \A i, k : Ahead(i, k) => Ahead(i, k)' BY <2>1 DEF Ahead
  <2>5. \A i : Known(i)' <=> Known(i) \/ i = j
    BY <2>1, <2>2 DEF Known, Waits, Positions
  <2>6. QED BY <1>1, <2>1, <2>2, <2>3, <2>4, <2>5 DEF KeepsItsOrder
<1>6. CASE Begin
  <2>1. /\ Head(waiting) = waiting[1]
        /\ \A i \in Positions' : i + 1 \in Positions /\ waiting'[i] = waiting[i + 1]
        /\ \A i \in Positions \ {1} : i - 1 \in Positions' /\ waiting'[i - 1] = waiting[i]
    BY <1>6, HeadLeaves
  <2>2. executing' = executing \cup {waiting[1]} /\ finished' = finished
    BY <1>6, <2>1 DEF Begin
  <2>3. \A i : Waits(i)' => Waits(i) BY <2>1 DEF Waits
  <2>4. \A i : Waits(i) => Waits(i)' \/ i \in Started' BY <2>1, <2>2 DEF Waits
  <2>5. ASSUME NEW i, NEW j, Ahead(i, j)
        PROVE  Ahead(i, j)' \/ (i \in Started' /\ Waits(j)')
    <3>1. PICK a \in Positions, b \in Positions : a < b /\ waiting[a] = i /\ waiting[b] = j
      BY <2>5 DEF Ahead
    <3>2. a \in Nat \ {0} /\ b \in Nat /\ b # 1 BY <3>1 DEF Positions
    <3>3. Waits(j)' BY <2>1, <3>1, <3>2 DEF Waits
    <3>4. CASE a = 1 BY <2>2, <3>1, <3>3, <3>4
    <3>5. CASE a # 1
      <4>1. /\ a - 1 \in Positions' /\ b - 1 \in Positions' /\ a - 1 < b - 1
            /\ waiting'[a - 1] = i /\ waiting'[b - 1] = j
        BY <2>1, <3>1, <3>2, <3>5
      <4>2. QED BY <4>1 DEF Ahead
    <3>6. QED BY <3>4, <3>5
  <2>6. \A j : Known(j)' <=> Waits(j)' \/ j \in Started'
    BY DEF Known, Waits, Positions
  <2>7. QED BY <1>1, <2>2, <2>3, <2>4, <2>5, <2>6 DEF KeepsItsOrder
<1>7. QED BY <1>3, <1>4, <1>5, <1>6 DEF Next

(* Jobs start in the order in which they were accepted, and none is lost   *)
(* or runs twice.                                                          *)
THEOREM JobsStartInAcceptedOrder == Spec => [][KeepsItsOrder]_vars
BY QueueSafe, StepsKeepOrder, PTL DEF Spec
=============================================================================
