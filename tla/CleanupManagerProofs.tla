----------------------- MODULE CleanupManagerProofs -----------------------
(***************************************************************************)
(* Theorems about CleanupManager, for any keys, sizes, targets and batch   *)
(* sizes: a cleanup deletes in the promised order, frees its target or     *)
(* tries every key, exceeds the target by one batch at most, and its       *)
(* compaction covers its deletes, whatever is stored, expires or fails     *)
(* meanwhile.                                                              *)
(***************************************************************************)
EXTENDS CleanupManager, SumProofs

Environment == \E k \in Keys : Write(k) \/ LeaseExpires(k)

LEMMA EnvironmentStep ==
  ASSUME TypeOK, Environment
  PROVE  /\ revision' = revision + 1
         /\ created' \in [Keys -> Nat]
         /\ modified' \in [Keys -> Nat]
         /\ UNCHANGED <<compacted, pc, compactAt, deleteVars>>
  BY DEF TypeOK, Environment, Write, LeaseExpires, Remove

(* A delete, whatever it returns, leaves etcd as it was or removes the key *)
(* at a revision of its own.                                               *)
LEMMA DeleteStep ==
  ASSUME TypeOK, DeleteKey
  PROVE  /\ \/ UNCHANGED <<etcdVars, lastDelete>>
            \/ /\ revision' = revision + 1
               /\ lastDelete' = revision + 1
               /\ created' \in [Keys -> Nat]
               /\ modified' \in [Keys -> Nat]
               /\ UNCHANGED compacted
         /\ freed' \in Nat
         /\ \E k \in Oldest(pc) : tried' = tried \cup {k} /\ freed' \in {freed, freed + Bytes[k]}
         /\ pc \in {"nonComp", "comp"} /\ GoesOn(pc)
         /\ UNCHANGED <<pc, batchSize, needFree, listed, compactAt, cut>>
  <1>1. PICK k \in Oldest(pc) : tried' = tried \cup {k} /\ (Deleted(k) \/ DeleteFailed(k))
    BY DEF DeleteKey
  <1>2. k \in Keys
    BY <1>1 DEF Oldest, Left, Of, Class, TypeOK
  <1>3. Bytes[k] \in Nat
    BY <1>2, CleanupManagerAssumption
  <1>4. freed' \in Nat
    BY <1>1, <1>3 DEF Deleted, DeleteFailed, TypeOK
  <1>5. \/ UNCHANGED <<etcdVars, lastDelete>>
        \/ Remove(k) /\ lastDelete' = revision + 1
    BY <1>1 DEF Deleted, DeleteFailed
  <1>6. freed' \in {freed, freed + Bytes[k]}
    BY <1>1 DEF Deleted, DeleteFailed
  <1>7. pc \in {"nonComp", "comp"} /\ GoesOn(pc) /\ UNCHANGED <<pc, batchSize, needFree, listed, compactAt, cut>>
    BY DEF DeleteKey
  <1>8. \E q \in Oldest(pc) : tried' = tried \cup {q} /\ freed' \in {freed, freed + Bytes[q]}
    BY <1>1, <1>6
  <1> QED
    BY <1>4, <1>5, <1>7, <1>8 DEF Remove, TypeOK

(* Nothing is tried before the listing. *)
NothingTried == pc \in {"start", "list"} => tried = {}
TypeInv == TypeOK /\ NothingTried

LEMMA TypeInitially == Init => TypeInv
  <1> SUFFICES ASSUME Init PROVE TypeInv
    OBVIOUS
  <1>1. revision \in Nat
    BY CleanupManagerAssumption, FS_CardinalityType DEF Init
  <1>2. listed \in [{} -> [created : Nat, modified : Nat]]
    BY DEF Init
  <1>3. \E S \in SUBSET Keys : listed \in [S -> [created : Nat, modified : Nat]]
    BY <1>2
  <1> QED
    <2>1. created \in [Keys -> Nat] /\ compacted \in 0..revision
      BY <1>1 DEF Init
    <2>2. 0 \in 0..revision
      BY <1>1
    <2>3. tried \subseteq DOMAIN listed
      BY DEF Init
    <2>4. /\ modified \in [Keys -> Nat] /\ pc \in CleanupStates /\ freed \in Nat
          /\ compactAt \in 0..revision /\ cut \in BOOLEAN /\ lastDelete \in 0..revision
          /\ batchSize \in BatchSizes /\ needFree \in Targets
      BY <2>1, <2>2 DEF Init, CleanupStates
    <2>5. NothingTried
      BY DEF Init, NothingTried
    <2> QED
      BY <1>1, <1>3, <2>1, <2>3, <2>4, <2>5 DEF TypeInv, TypeOK

LEMMA TypeInductive == TypeInv /\ [Next]_vars => TypeInv'
  <1> SUFFICES ASSUME TypeInv, [Next]_vars PROVE TypeInv'
    OBVIOUS
  <1> USE DEF TypeInv, TypeOK, NothingTried, CleanupStates
  <1>1. CASE Environment
    BY <1>1, EnvironmentStep DEF deleteVars
  <1>2. CASE DeleteKey
    <2>1. PICK k \in Oldest(pc) : tried' = tried \cup {k}
      BY <1>2, DeleteStep
    <2>2. tried' \subseteq DOMAIN listed
      BY <2>1 DEF Oldest, Left, Of
    <2> QED
      BY <1>2, <2>2, DeleteStep DEF etcdVars
  <1>3. CASE ListKeys
    <2>1. listed' \in [{q \in Keys : Present(q)} -> [created : Nat, modified : Nat]]
      BY <1>3 DEF ListKeys
    <2>2. \E S \in SUBSET Keys : listed' \in [S -> [created : Nat, modified : Nat]]
      BY <2>1
    <2> QED
      BY <1>3, <2>2 DEF ListKeys, etcdVars
  <1>4. CASE Start \/ ListFails \/ DeadlinePasses \/ ListDone
    BY <1>4 DEF Start, ListFails, DeadlinePasses, ListDone, etcdVars, deleteVars
  <1>5. CASE ReadRevision \/ Compact \/ CompactFails \/ ListMembers \/ Defragment
    BY <1>5 DEF ReadRevision, Compact, CompactFails, ListMembers, Defragment, etcdVars, deleteVars
  <1>6. CASE UNCHANGED vars
    BY <1>6 DEF vars
  <1> QED
    BY <1>1, <1>2, <1>3, <1>4, <1>5, <1>6 DEF Next, RunCleanup, Returned, Environment

(* Type correctness of manager.go's state and of etcd's. *)
THEOREM TypeCorrect == Spec => []TypeOK
  <1>1. TypeInv => TypeOK
    BY DEF TypeInv
  <1> QED
    BY <1>1, TypeInitially, TypeInductive, PTL DEF Spec

LEMMA TypeInvariant == Spec => []TypeInv
  BY TypeInitially, TypeInductive, PTL DEF Spec

-----------------------------------------------------------------------------
(* The order of the deletes: the composition keys wait for the other list, *)
(* which the cleanup leaves for them only when none of its keys is left.   *)

ListsInOrder ==
  /\ pc \in {"start", "list", "nonComp"} => tried \cap CompKeys = {}
  /\ pc = "comp" => Left("nonComp") = {}

OrderInv == ListsInOrder /\ SelectionOrder

LEMMA OrderInitially == Init => OrderInv
  BY DEF Init, OrderInv, ListsInOrder, SelectionOrder

LEMMA OrderInductive == TypeInv /\ OrderInv /\ [Next]_vars => OrderInv'
  <1> SUFFICES ASSUME TypeInv, OrderInv, [Next]_vars PROVE OrderInv'
    OBVIOUS
  <1> USE DEF OrderInv
  <1>1. CASE DeleteKey
    <2>1. PICK k \in Oldest(pc) : tried' = tried \cup {k}
      BY <1>1, DeleteStep DEF TypeInv
    <2>2. pc' = pc /\ listed' = listed /\ pc \in {"nonComp", "comp"}
      BY <1>1, DeleteStep DEF TypeInv
    <2>3. k \in Left(pc) /\ \A q \in Left(pc) : listed[k].created <= listed[q].created
      BY <2>1 DEF Oldest
    <2>4. ListsInOrder'
      BY <2>1, <2>2, <2>3 DEF ListsInOrder, Left, Of, Class
    <2>5. ASSUME NEW q \in DOMAIN listed \ tried, q # k
          PROVE  /\ k \in CompKeys => q \in CompKeys
                 /\ (k \in CompKeys <=> q \in CompKeys) => listed[k].created <= listed[q].created
      <3>1. q \in Keys
        BY DEF TypeInv, TypeOK
      <3>2. CASE pc = "nonComp"
        BY <3>1, <3>2, <2>3 DEF Left, Of, Class
      <3>3. CASE pc = "comp"
        BY <3>1, <3>3, <2>3 DEF ListsInOrder, Left, Of, Class
      <3> QED
        BY <2>2, <3>2, <3>3
    <2>6. SelectionOrder'
      BY <2>1, <2>2, <2>5 DEF SelectionOrder
    <2> QED
      BY <2>4, <2>6
  <1>2. CASE ListKeys
    <2>1. tried' = {} /\ pc' = "nonComp"
      BY <1>2 DEF ListKeys, TypeInv, NothingTried
    <2> QED
      BY <2>1 DEF ListsInOrder, SelectionOrder
  <1>3. CASE ListDone
    <2>1. UNCHANGED <<listed, tried>>
      BY <1>3 DEF ListDone, deleteVars
    <2>2. pc' = "comp" => Left("nonComp") = {}
      <3> SUFFICES ASSUME pc' = "comp" PROVE Left("nonComp") = {}
        OBVIOUS
      <3>1. pc = "nonComp" /\ freed < needFree /\ ~GoesOn("nonComp")
        BY <1>3 DEF ListDone
      <3> QED
        BY <3>1 DEF GoesOn
    <2>3. pc' \in {"comp", "status"}
      BY <1>3 DEF ListDone
    <2> QED
      BY <2>1, <2>2, <2>3 DEF ListsInOrder, SelectionOrder, Left, Of
  <1>4. CASE Start \/ ListFails \/ DeadlinePasses
    BY <1>4 DEF Start, ListFails, DeadlinePasses, deleteVars, ListsInOrder, SelectionOrder, Left, Of
  <1>5. CASE ReadRevision \/ Compact \/ CompactFails \/ ListMembers \/ Defragment
    BY <1>5 DEF ReadRevision, Compact, CompactFails, ListMembers, Defragment, deleteVars,
                ListsInOrder, SelectionOrder, Left, Of
  <1>6. CASE Environment
    <2>1. UNCHANGED <<pc, listed, tried>>
      BY <1>6, EnvironmentStep DEF TypeInv, deleteVars
    <2> QED
      BY <2>1 DEF ListsInOrder, SelectionOrder, Left, Of
  <1>7. CASE UNCHANGED vars
    BY <1>7 DEF vars, ListsInOrder, SelectionOrder, Left, Of
  <1> QED
    BY <1>1, <1>2, <1>3, <1>4, <1>5, <1>6, <1>7 DEF Next, RunCleanup, Returned, Environment

(* deleteKeys deletes the keys outside compositions first, and the oldest  *)
(* of a class first, as they were listed.                                  *)
THEOREM OrderOfDeletes == Spec => []SelectionOrder
  <1>1. OrderInv => SelectionOrder
    BY DEF OrderInv
  <1> QED
    BY <1>1, OrderInitially, OrderInductive, TypeInvariant, PTL DEF Spec

-----------------------------------------------------------------------------
(* The compaction: its revision is read after the last delete. *)

CompactionInv ==
  /\ pc = "compact" => lastDelete <= compactAt
  /\ DeletesAreCompacted

LEMMA CompactionInitially == Init => CompactionInv
  BY DEF Init, CompactionInv, DeletesAreCompacted

LEMMA CompactionInductive == TypeInv /\ CompactionInv /\ [Next]_vars => CompactionInv'
  <1> SUFFICES ASSUME TypeInv, CompactionInv, [Next]_vars PROVE CompactionInv'
    OBVIOUS
  <1> USE DEF CompactionInv, DeletesAreCompacted
  <1>1. CASE ReadRevision \/ Compact \/ CompactFails
    BY <1>1 DEF ReadRevision, Compact, CompactFails, TypeInv, TypeOK, deleteVars, etcdVars
  <1>2. CASE DeleteKey
    <2>1. pc' \in {"nonComp", "comp"}
      BY <1>2, DeleteStep DEF TypeInv
    <2> QED
      BY <2>1
  <1>3. CASE Start \/ ListKeys \/ ListFails \/ DeadlinePasses \/ ListDone
    <2>1. pc' \in {"list", "nonComp", "comp", "status", "returned"}
      BY <1>3 DEF Start, ListKeys, ListFails, DeadlinePasses, ListDone
    <2> QED
      BY <2>1
  <1>4. CASE ListMembers \/ Defragment
    BY <1>4 DEF ListMembers, Defragment, deleteVars, etcdVars
  <1>5. CASE Environment
    <2>1. UNCHANGED <<compacted, pc, compactAt, lastDelete>>
      BY <1>5, EnvironmentStep DEF TypeInv, deleteVars
    <2> QED
      BY <2>1
  <1>6. CASE UNCHANGED vars
    BY <1>6 DEF vars
  <1> QED
    BY <1>1, <1>2, <1>3, <1>4, <1>5, <1>6 DEF Next, RunCleanup, Returned, Environment

(* A compaction of runCompact that succeeds covers every delete the        *)
(* cleanup has made, also those that returned an error.                    *)
THEOREM CompactionCoversDeletes == Spec => []DeletesAreCompacted
  <1>1. CompactionInv => DeletesAreCompacted
    BY DEF CompactionInv
  <1> QED
    BY <1>1, CompactionInitially, CompactionInductive, TypeInvariant, PTL DEF Spec

-----------------------------------------------------------------------------
(* What a cleanup has freed: the composition keys are left unlisted or     *)
(* untried only when the target is reached or the deadline has passed.     *)

LEMMA EnoughInductive ==
  TypeInv /\ OrderInv /\ EnoughIsFreed /\ [Next]_vars => EnoughIsFreed'
  <1> SUFFICES ASSUME TypeInv, OrderInv, EnoughIsFreed, [Next]_vars PROVE EnoughIsFreed'
    OBVIOUS
  <1> USE DEF EnoughIsFreed
  <1>1. CASE ListDone
    <2>1. UNCHANGED <<freed, needFree, tried, listed, cut>>
      BY <1>1 DEF ListDone, deleteVars
    <2>2. freed \in Int /\ needFree \in Int
      BY CleanupManagerAssumption DEF TypeInv, TypeOK
    <2>3. CASE pc = "nonComp"
      BY <1>1, <2>1, <2>2, <2>3 DEF ListDone
    <2>4. CASE pc = "comp"
      <3>1. Left("comp") = {} \/ freed >= needFree
        BY <1>1, <2>2, <2>4 DEF ListDone, GoesOn
      <3>2. Left("nonComp") = {}
        BY <2>4 DEF OrderInv, ListsInOrder
      <3>3. DOMAIN listed \subseteq Keys /\ tried \subseteq DOMAIN listed
        BY DEF TypeInv, TypeOK
      <3>4. Left("comp") = {} => tried = DOMAIN listed
        BY <3>2, <3>3 DEF Left, Of, Class
      <3> QED
        BY <2>1, <3>1, <3>4
    <2> QED
      BY <1>1, <2>3, <2>4 DEF ListDone
  <1>2. CASE DeleteKey
    <2>1. pc' \in {"nonComp", "comp"}
      BY <1>2, DeleteStep DEF TypeInv
    <2> QED
      BY <2>1
  <1>3. CASE Start \/ ListKeys \/ ListFails
    <2>1. pc' \in {"list", "nonComp", "returned"}
      BY <1>3 DEF Start, ListKeys, ListFails
    <2> QED
      BY <2>1
  <1>4. CASE DeadlinePasses
    BY <1>4 DEF DeadlinePasses
  <1>5. CASE ReadRevision \/ Compact \/ CompactFails \/ ListMembers \/ Defragment
    BY <1>5 DEF ReadRevision, Compact, CompactFails, ListMembers, Defragment, deleteVars
  <1>6. CASE Environment
    BY <1>6, EnvironmentStep DEF TypeInv, deleteVars
  <1>7. CASE UNCHANGED vars
    BY <1>7 DEF vars
  <1> QED
    BY <1>1, <1>2, <1>3, <1>4, <1>5, <1>6, <1>7 DEF Next, RunCleanup, Returned, Environment

(* A cleanup that its deadline does not cut reaches its target or has      *)
(* called a delete for every key it listed (manager.go:134-165).           *)
THEOREM TargetOrEverything == Spec => []EnoughIsFreed
  <1>1. Init => EnoughIsFreed
    BY DEF Init, EnoughIsFreed
  <1> QED
    BY <1>1, OrderInitially, OrderInductive, EnoughInductive, TypeInvariant, PTL DEF Spec

-----------------------------------------------------------------------------
(* How much a cleanup frees: a batch begins below the target, and its      *)
(* deletes so far account for what has been freed since.                   *)

(* The deletes of the current list, and those of its current batch. *)
Tries == Cardinality(tried \cap Class(pc))
InBatch == Tries % batchSize

(* n keys account for what was freed since it was below the target. *)
Within(n) == \E S \in SUBSET tried : Cardinality(S) <= n /\ freed - Sum(S) < needFree

BatchInv ==
  /\ pc \in {"start", "list"} => freed = 0
  /\ pc \in {"list", "nonComp", "comp"} => needFree > 0
  /\ pc \in {"nonComp", "comp"} /\ InBatch # 0 => Within(InBatch)
  /\ OvershootBounded

(* A number is its quotient and its remainder, and no other pair is.       *)
LEMMA Remainder ==
  ASSUME NEW c \in Nat, NEW b \in Nat \ {0}
  PROVE  c = b * (c \div b) + (c % b) /\ c \div b \in Int /\ c % b \in 0..(b - 1)
  OBVIOUS

LEMMA OneRemainder ==
  ASSUME NEW b \in Nat \ {0}, NEW q \in Int, NEW p \in Int,
         NEW r \in 0..(b - 1), NEW s \in 0..(b - 1), b * q + r = b * p + s
  PROVE  r = s
  <1>1. b * (q - p) = s - r
    OBVIOUS
  <1>2. q - p >= 1 => b * (q - p) >= b
    OBVIOUS
  <1>3. q - p <= -1 => b * (q - p) <= -b
    OBVIOUS
  <1>4. q = p
    BY <1>1, <1>2, <1>3
  <1> QED
    BY <1>1, <1>4

(* The place in a batch, after one more delete. *)
LEMMA NextInBatch ==
  ASSUME NEW c \in Nat, NEW b \in Nat \ {0}
  PROVE  /\ c % b \in 0..(b - 1)
         /\ (c + 1) % b = IF c % b = b - 1 THEN 0 ELSE (c % b) + 1
  <1> DEFINE q == c \div b
             r == c % b
             p == (c + 1) \div b
             s == (c + 1) % b
  <1>1. c = b * q + r /\ q \in Int /\ r \in 0..(b - 1)
    BY Remainder
  <1>2. c + 1 = b * p + s /\ p \in Int /\ s \in 0..(b - 1)
    BY Remainder
  <1> HIDE DEF q, r, p, s
  <1>3. CASE r = b - 1
    <2>1. b * p + s = b * (q + 1) + 0 /\ q + 1 \in Int /\ 0 \in 0..(b - 1)
      BY <1>1, <1>2, <1>3
    <2>2. s = 0
      BY <1>2, <2>1, OneRemainder
    <2> QED
      BY <1>1, <1>3, <2>2 DEF r, s
  <1>4. CASE r # b - 1
    <2>1. b * p + s = b * q + (r + 1) /\ r + 1 \in 0..(b - 1)
      BY <1>1, <1>2, <1>4
    <2>2. s = r + 1
      BY <1>1, <1>2, <2>1, OneRemainder
    <2> QED
      BY <1>1, <1>4, <2>2 DEF r, s
  <1> QED
    BY <1>3, <1>4

(* The keys a cleanup may try are finitely many, and their sizes sum up. *)
LEMMA SumsOfTried ==
  ASSUME TypeInv
  PROVE  /\ IsFiniteSet(tried)
         /\ Sum({}) = 0
         /\ \A S \in SUBSET tried : IsFiniteSet(S) /\ Cardinality(S) \in Nat /\ Sum(S) \in Nat
         /\ \A S \in SUBSET tried : \A k \in Keys \ S : Sum(S \cup {k}) = Sum(S) + Bytes[k]
  <1>1. tried \subseteq Keys
    BY DEF TypeInv, TypeOK
  <1>2. IsFiniteSet(Keys) /\ Bytes \in [Keys -> Nat]
    BY CleanupManagerAssumption
  <1>3. \A S : Sum(S) = SumOf(Bytes, S)
    BY DEF Sum, SumOf
  <1>4. \A S \in SUBSET tried : IsFiniteSet(S)
    BY <1>1, <1>2, FS_Subset
  <1>5. \A S \in SUBSET tried : Cardinality(S) \in Nat
    BY <1>4, FS_CardinalityType
  <1>6. \A S \in SUBSET tried : SumOf(Bytes, S) \in Nat
    BY <1>1, <1>2, SumType
  <1>7. \A S \in SUBSET tried : \A k \in Keys \ S : SumOf(Bytes, S \cup {k}) = SumOf(Bytes, S) + Bytes[k]
    <2> SUFFICES ASSUME NEW S \in SUBSET tried, NEW k \in Keys \ S
                 PROVE  SumOf(Bytes, S \cup {k}) = SumOf(Bytes, S) + Bytes[k]
      OBVIOUS
    <2>1. S \in SUBSET Keys
      BY <1>1
    <2> QED
      BY <1>2, <2>1, SumAdd
  <1>8. SumOf(Bytes, {}) = 0
    BY <1>2, SumEmpty
  <1> QED
    BY <1>3, <1>4, <1>5, <1>6, <1>7, <1>8, <1>1, <1>2, FS_Subset

(* A batch goes on, or ends with the delete that fills it. *)
LEMMA BatchGrows ==
  ASSUME TypeInv, BatchInv, DeleteKey
  PROVE  /\ InBatch \in 0..(batchSize - 1)
         /\ InBatch' = IF InBatch = batchSize - 1 THEN 0 ELSE InBatch + 1
         /\ Within(InBatch)
         /\ \E S \in SUBSET tried' : Cardinality(S) <= InBatch + 1 /\ freed' - Sum(S) < needFree
  <1>1. PICK k \in Oldest(pc) : tried' = tried \cup {k} /\ freed' \in {freed, freed + Bytes[k]}
    BY DeleteStep DEF TypeInv
  <1>2. /\ pc' = pc /\ batchSize' = batchSize /\ needFree' = needFree
        /\ pc \in {"nonComp", "comp"} /\ GoesOn(pc)
    BY DeleteStep DEF TypeInv
  <1>3. k \in Class(pc) \ tried /\ k \in Keys
    BY <1>1 DEF Oldest, Left, Of, TypeInv, TypeOK
  <1>4. /\ batchSize \in Nat \ {0} /\ needFree \in Int /\ freed \in Nat /\ freed' \in Nat
        /\ Bytes[k] \in Nat
    BY <1>3, CleanupManagerAssumption, DeleteStep DEF TypeInv, TypeOK
  <1>5. IsFiniteSet(tried \cap Class(pc)) /\ Tries \in Nat
    BY SumsOfTried DEF Tries
  <1>6. Tries' = Tries + 1
    <2>1. tried' \cap Class(pc) = (tried \cap Class(pc)) \cup {k} /\ k \notin tried \cap Class(pc)
      BY <1>1, <1>3
    <2> QED
      BY <1>2, <1>5, <2>1, FS_AddElement DEF Tries, Class
  <1>7. /\ InBatch \in 0..(batchSize - 1)
        /\ InBatch' = IF InBatch = batchSize - 1 THEN 0 ELSE InBatch + 1
    BY <1>2, <1>4, <1>5, <1>6, NextInBatch DEF InBatch
  <1>8. PICK S \in SUBSET tried : Cardinality(S) <= InBatch /\ freed - Sum(S) < needFree
    <2>1. CASE InBatch = 0
      <3>1. freed < needFree
        BY <1>2, <2>1 DEF GoesOn, InBatch, Tries
      <3>2. Cardinality({}) = 0 /\ Sum({}) = 0 /\ {} \in SUBSET tried
        BY FS_EmptySet, SumsOfTried
      <3> QED
        BY <1>4, <2>1, <3>1, <3>2
    <2>2. CASE InBatch # 0
      BY <1>2, <2>2 DEF BatchInv, Within
    <2> QED
      BY <2>1, <2>2
  <1>9. /\ S \cup {k} \in SUBSET tried' /\ Cardinality(S \cup {k}) <= InBatch + 1
        /\ Sum(S \cup {k}) = Sum(S) + Bytes[k] /\ Sum(S) \in Nat
    <2>1. /\ IsFiniteSet(S) /\ Cardinality(S) \in Nat /\ k \notin S
          /\ Sum(S) \in Nat /\ Sum(S \cup {k}) = Sum(S) + Bytes[k]
      BY <1>3, SumsOfTried
    <2>2. Cardinality(S \cup {k}) = Cardinality(S) + 1
      BY <2>1, FS_AddElement
    <2> QED
      BY <1>1, <1>7, <1>8, <2>1, <2>2
  <1>10. freed' - Sum(S \cup {k}) < needFree
    BY <1>1, <1>4, <1>8, <1>9
  <1> QED
    BY <1>7, <1>8, <1>9, <1>10 DEF Within

LEMMA BatchInitially == Init => BatchInv
  BY DEF Init, BatchInv, OvershootBounded

LEMMA BatchInductive == TypeInv /\ OrderInv /\ BatchInv /\ [Next]_vars => BatchInv'
  <1> SUFFICES ASSUME TypeInv, OrderInv, BatchInv, [Next]_vars PROVE BatchInv'
    OBVIOUS
  <1>1. CASE DeleteKey
    <2>1. pc' = pc /\ batchSize' = batchSize /\ needFree' = needFree /\ pc \in {"nonComp", "comp"}
      BY <1>1, DeleteStep DEF TypeInv
    <2>2. batchSize \in Nat \ {0}
      BY CleanupManagerAssumption DEF TypeInv, TypeOK
    <2>3. InBatch' # 0 => Within(InBatch)'
      BY <1>1, <2>1, BatchGrows DEF Within
    <2>4. \E S \in SUBSET tried' : Cardinality(S) <= batchSize' /\ freed' - Sum(S) < needFree'
      <3>1. PICK S \in SUBSET tried' : Cardinality(S) <= InBatch + 1 /\ freed' - Sum(S) < needFree
        BY <1>1, BatchGrows
      <3>2. IsFiniteSet(tried')
        <4>1. PICK k \in Oldest(pc) : tried' = tried \cup {k}
          BY <1>1, DeleteStep DEF TypeInv
        <4> QED
          BY <4>1, SumsOfTried, FS_AddElement
      <3>3. Cardinality(S) \in Nat
        BY <3>2, FS_Subset, FS_CardinalityType
      <3> QED
        BY <1>1, <2>1, <2>2, <3>1, <3>3, BatchGrows
    <2> QED
      BY <2>1, <2>3, <2>4 DEF BatchInv, OvershootBounded
  <1>2. CASE ListDone
    <2>1. UNCHANGED deleteVars /\ pc \in {"nonComp", "comp"} /\ pc' \in {"comp", "status"}
      BY <1>2 DEF ListDone
    <2>2. pc' = "comp" => InBatch' = 0
      <3> SUFFICES ASSUME pc' = "comp" PROVE InBatch' = 0
        OBVIOUS
      <3>1. pc = "nonComp"
        BY <1>2 DEF ListDone
      <3>2. tried' \cap Class(pc') = {}
        BY <2>1, <3>1 DEF OrderInv, ListsInOrder, Class, deleteVars
      <3>3. Tries' = 0
        BY <3>2, FS_EmptySet DEF Tries, Class
      <3>4. batchSize \in Nat \ {0} /\ batchSize' = batchSize
        BY <2>1, CleanupManagerAssumption DEF TypeInv, TypeOK, deleteVars
      <3>5. 0 % batchSize = 0
        BY <3>4
      <3> QED
        BY <3>3, <3>4, <3>5 DEF InBatch
    <2> QED
      BY <2>1, <2>2 DEF BatchInv, OvershootBounded, deleteVars
  <1>3. CASE ListKeys
    <2>1. tried' = {} /\ freed' = 0 /\ pc' = "nonComp" /\ needFree' = needFree /\ needFree > 0
          /\ batchSize' = batchSize /\ batchSize \in Nat \ {0}
      BY <1>3, CleanupManagerAssumption DEF ListKeys, TypeInv, TypeOK, NothingTried, BatchInv
    <2>2. Tries' = 0
      BY <2>1, FS_EmptySet DEF Tries
    <2>3. InBatch' = 0
      BY <2>1, <2>2 DEF InBatch
    <2> QED
      BY <2>1, <2>3 DEF BatchInv, OvershootBounded
  <1>4. CASE Start
    <2>1. needFree \in Int
      BY CleanupManagerAssumption DEF TypeInv, TypeOK
    <2> QED
      BY <1>4, <2>1 DEF Start, deleteVars, BatchInv, OvershootBounded
  <1>5. CASE ListFails \/ DeadlinePasses
    BY <1>5 DEF ListFails, DeadlinePasses, deleteVars, BatchInv, OvershootBounded
  <1>6. CASE ReadRevision \/ Compact \/ CompactFails \/ ListMembers \/ Defragment
    BY <1>6 DEF ReadRevision, Compact, CompactFails, ListMembers, Defragment, deleteVars,
                BatchInv, OvershootBounded
  <1>7. CASE UNCHANGED <<pc, deleteVars>>
    BY <1>7 DEF deleteVars, BatchInv, OvershootBounded, InBatch, Tries, Within, Class
  <1> QED
    BY <1>1, <1>2, <1>3, <1>4, <1>5, <1>6, <1>7, EnvironmentStep
    DEF Next, RunCleanup, Returned, Environment, TypeInv, vars, deleteVars

(* Deletes stop with the batch that reaches the target: a cleanup counts   *)
(* less than its target as freed, one batch of keys left aside, whatever   *)
(* deletes fail and in whichever list the target is reached                *)
(* (manager.go:134-165).                                                   *)
THEOREM OvershootIsBounded == Spec => []OvershootBounded
  <1>1. BatchInv => OvershootBounded
    BY DEF BatchInv
  <1> QED
    BY <1>1, BatchInitially, BatchInductive, OrderInitially, OrderInductive, TypeInvariant, PTL DEF Spec
=============================================================================
