-------------------------- MODULE CleanupManager --------------------------
(***************************************************************************)
(* The sweeper's cleanup (manager.go): it lists the keys, deletes them one *)
(* by one in batches until the estimated bytes freed reach a target,       *)
(* compacts etcd and defragments it, while eventsse goes on writing and    *)
(* leases go on expiring.  One call of RunCleanup: calls share nothing but *)
(* etcd.  main.go sets AutoCompact and AutoDefrag.                         *)
(* The two sorted slices are two sets: each delete takes the listed key    *)
(* left that was created first.  A key has one size, its length and its    *)
(* value's; the sizes of etcd and of its quota appear only through the     *)
(* bytes to free, which RunCleanup computes from them.                     *)
(***************************************************************************)
EXTENDS Integers, FiniteSets, FiniteSetsExt

CONSTANTS
  Keys,              \* etcd keys
  CompKeys,          \* the keys that contain "/comp-"
  Bytes,             \* bytes a delete of each key is estimated to free
  Targets,           \* values of needFree
  BatchSizes,        \* values of batchSize
  MaxRevision        \* bound on the revisions at which eventsse writes

ASSUME CleanupManagerAssumption ==
  /\ IsFiniteSet(Keys)
  /\ CompKeys \subseteq Keys
  /\ Bytes \in [Keys -> Nat \ {0}]
  /\ Targets \subseteq Int
  /\ BatchSizes \subseteq Nat \ {0}
  /\ MaxRevision \in Nat

VARIABLES
  revision,          \* revision of etcd
  created,           \* create revision of each key, 0 when it is absent
  modified,          \* revision of the last write of each key, 0 likewise
  compacted,         \* revision etcd is compacted at
  pc,                \* progress of the cleanup: see CleanupStates
  batchSize,
  needFree,          \* bytes to free
  listed,            \* the listed keys, with the revisions they were listed with
  tried,             \* listed keys whose delete was called
  freed,             \* estimated bytes freed
  compactAt,         \* revision read for the compaction
  cut,               \* did the cleanup's deadline end the deletes?
  lastDelete         \* revision of the cleanup's last delete, 0 before

vars == <<revision, created, modified, compacted, pc, batchSize, needFree, listed, tried,
          freed, compactAt, cut, lastDelete>>
etcdVars == <<revision, created, modified, compacted>>
deleteVars == <<batchSize, needFree, listed, tried, freed, cut, lastDelete>>

CleanupStates == {"start", "list", "nonComp", "comp", "status", "compact", "members",
                  "defrag", "returned"}

TypeOK ==
  /\ revision \in Nat
  /\ created \in [Keys -> Nat]
  /\ modified \in [Keys -> Nat]
  /\ compacted \in 0..revision
  /\ pc \in CleanupStates
  /\ batchSize \in BatchSizes
  /\ needFree \in Targets
  /\ \E S \in SUBSET Keys : listed \in [S -> [created : Nat, modified : Nat]]
  /\ tried \subseteq DOMAIN listed
  /\ freed \in Nat
  /\ compactAt \in 0..revision
  /\ cut \in BOOLEAN
  /\ lastDelete \in 0..revision

(* The sweeper finds the keys stored in any order; an earlier cleanup has  *)
(* compacted etcd since.                                                   *)
Init ==
  /\ revision = Cardinality(Keys)
  /\ created \in [Keys -> 1..revision]
  /\ \A k, q \in Keys : created[k] = created[q] => k = q
  /\ modified = created
  /\ compacted = revision
  /\ pc = "start"
  /\ batchSize \in BatchSizes
  /\ needFree \in Targets
  /\ listed = [k \in {} |-> [created |-> 0, modified |-> 0]]
  /\ tried = {}
  /\ freed = 0
  /\ compactAt = 0
  /\ cut = FALSE
  /\ lastDelete = 0

-----------------------------------------------------------------------------
(* etcd, and those who write to it beside the cleanup. *)

Present(k) == created[k] # 0

(* The initial states are those of etcd when RunCleanup is called, and the *)
(* model ends when it returns.                                             *)
UnderWay == pc \notin {"start", "returned"}

(* eventsse stores an event: a key that exists keeps its create revision.  *)
Write(k) ==
  /\ UnderWay
  /\ revision < MaxRevision
  /\ revision' = revision + 1
  /\ created' = [created EXCEPT ![k] = IF @ = 0 THEN revision + 1 ELSE @]
  /\ modified' = [modified EXCEPT ![k] = revision + 1]
  /\ UNCHANGED <<compacted, pc, compactAt, deleteVars>>

Remove(k) ==
  /\ revision' = revision + 1
  /\ created' = [created EXCEPT ![k] = 0]
  /\ modified' = [modified EXCEPT ![k] = 0]
  /\ UNCHANGED compacted

LeaseExpires(k) ==
  /\ UnderWay
  /\ Present(k)
  /\ Remove(k)
  /\ UNCHANGED <<pc, compactAt, deleteVars>>

-----------------------------------------------------------------------------
(* RunCleanup up to the listing: nothing to free, or on. *)

Start ==
  /\ pc = "start"
  /\ pc' = IF needFree <= 0 THEN "returned" ELSE "list"
  /\ UNCHANGED <<etcdVars, compactAt, deleteVars>>

ListKeys ==
  /\ pc = "list"
  /\ listed' = [k \in {q \in Keys : Present(q)} |-> [created |-> created[k], modified |-> modified[k]]]
  /\ pc' = "nonComp"
  /\ UNCHANGED <<etcdVars, batchSize, needFree, tried, freed, compactAt, cut, lastDelete>>

ListFails ==
  /\ pc = "list"
  /\ pc' = "returned"
  /\ UNCHANGED <<etcdVars, compactAt, deleteVars>>

-----------------------------------------------------------------------------
(* deleteKeys: deleteFromList on either list. *)

Class(list) == IF list = "comp" THEN CompKeys ELSE Keys \ CompKeys
Of(list) == DOMAIN listed \cap Class(list)
Left(list) == Of(list) \ tried

(* Mutant of Oldest: the list is not sorted. *)
Oldest_Unsorted(list) == Left(list)
Oldest(list) == {k \in Left(list) : \A q \in Left(list) : listed[k].created <= listed[q].created}

(* Mutant of GoesOn: the target is not tested. *)
GoesOn_ToTheEnd(list) == Left(list) # {}
(* The target is tested between batches, not within one. *)
GoesOn(list) ==
  /\ Left(list) # {}
  /\ Cardinality(tried \cap Class(list)) % batchSize # 0 \/ freed < needFree

Deleted(k) ==
  /\ freed' = freed + Bytes[k]
  /\ IF Present(k)
     THEN Remove(k) /\ lastDelete' = revision + 1
     ELSE UNCHANGED <<etcdVars, lastDelete>>

(* The call returns an error, and etcd may have deleted the key.           *)
DeleteFailed(k) ==
  /\ UNCHANGED freed
  /\ \/ UNCHANGED <<etcdVars, lastDelete>>
     \/ Present(k) /\ Remove(k) /\ lastDelete' = revision + 1

(* A key that is gone is deleted without an error, and counted.            *)
DeleteKey ==
  /\ pc \in {"nonComp", "comp"}
  /\ GoesOn(pc)
  /\ \E k \in Oldest(pc) :
       /\ tried' = tried \cup {k}
       /\ Deleted(k) \/ DeleteFailed(k)
  /\ UNCHANGED <<pc, batchSize, needFree, listed, compactAt, cut>>

(* Three minutes have passed: both lists are left.                         *)
DeadlinePasses ==
  /\ pc \in {"nonComp", "comp"}
  /\ GoesOn(pc)
  /\ pc' = "status"
  /\ cut' = TRUE
  /\ UNCHANGED <<etcdVars, batchSize, needFree, listed, tried, freed, compactAt, lastDelete>>

(* Mutant of ListDone: the composition keys are left whatever was freed. *)
ListDone_SkipsComp ==
  /\ pc \in {"nonComp", "comp"}
  /\ ~GoesOn(pc)
  /\ pc' = "status"
  /\ UNCHANGED <<etcdVars, compactAt, deleteVars>>

(* Mutant of ListDone: the composition keys are gone through until the     *)
(* target is reached. *)
ListDone_Loops ==
  /\ pc \in {"nonComp", "comp"}
  /\ ~GoesOn(pc)
  /\ pc' = IF freed < needFree THEN "comp" ELSE "status"
  /\ UNCHANGED <<etcdVars, compactAt, deleteVars>>

ListDone ==
  /\ pc \in {"nonComp", "comp"}
  /\ ~GoesOn(pc)
  /\ pc' = IF pc = "nonComp" /\ freed < needFree THEN "comp" ELSE "status"
  /\ UNCHANGED <<etcdVars, compactAt, deleteVars>>

-----------------------------------------------------------------------------
(* runCompact and runDefrag; either goes on to what follows when it fails. *)
(* compactAt is 0 again when it is not known whether etcd has compacted.   *)

(* Mutant of ReadRevision: the revision of the listing is used. *)
ReadRevision_Stale ==
  /\ pc = "status"
  /\ pc' = "compact"
  /\ compactAt' = Max({listed[k].modified : k \in DOMAIN listed} \cup {1})
  /\ UNCHANGED <<etcdVars, deleteVars>>

(* Mutant of ReadRevision: one revision too far, which etcd has not reached. *)
ReadRevision_TooFar ==
  /\ pc = "status"
  /\ pc' = "compact"
  /\ compactAt' = revision + 1
  /\ UNCHANGED <<etcdVars, deleteVars>>

ReadRevision ==
  /\ pc = "status"
  /\ pc' = "compact"
  /\ compactAt' = revision
  /\ UNCHANGED <<etcdVars, deleteVars>>

(* etcd refuses a revision it has compacted already.                       *)
Compact ==
  /\ pc = "compact"
  /\ compacted' = IF compactAt > compacted THEN compactAt ELSE compacted
  /\ pc' = "members"
  /\ UNCHANGED <<revision, created, modified, compactAt, deleteVars>>

CompactFails ==
  /\ pc \in {"status", "compact"}
  /\ pc' = "members"
  /\ compactAt' = 0
  /\ UNCHANGED <<etcdVars, deleteVars>>

(* MemberList: an error or more than one member ends the cleanup.          *)
ListMembers ==
  /\ pc = "members"
  /\ \E next \in {"defrag", "returned"} : pc' = next
  /\ UNCHANGED <<etcdVars, compactAt, deleteVars>>

Defragment ==
  /\ pc = "defrag"
  /\ pc' = "returned"
  /\ UNCHANGED <<etcdVars, compactAt, deleteVars>>

RunCleanup ==
  \/ Start \/ ListKeys \/ ListFails \/ DeleteKey \/ DeadlinePasses \/ ListDone
  \/ ReadRevision \/ Compact \/ CompactFails \/ ListMembers \/ Defragment

Returned ==
  /\ pc = "returned"
  /\ UNCHANGED vars

Next ==
  \/ RunCleanup
  \/ Returned
  \/ \E k \in Keys : Write(k) \/ LeaseExpires(k)

Spec == Init /\ [][Next]_vars

(* The goroutine is scheduled, and each call ends by its context.          *)
FairSpec == Spec /\ WF_vars(RunCleanup)

-----------------------------------------------------------------------------
(* Properties of manager.go. *)

(* "removes old event keys, prioritizing non-comp- prefixed ones first"    *)
(* (sweeper/README.md:22): a listed key is deleted only after every listed *)
(* key of its class that was created before it, and a composition's only   *)
(* after every other key.                                                  *)
SelectionOrder ==
  \A k \in tried : \A q \in DOMAIN listed \ tried :
    /\ k \in CompKeys => q \in CompKeys
    /\ (k \in CompKeys <=> q \in CompKeys) => listed[k].created <= listed[q].created

Sum(S) == MapThenSumSet(LAMBDA k : Bytes[k], S)

(* Deletes stop with the batch that reaches the target: without one        *)
(* batch of keys, what was counted as freed stays below it.                *)
OvershootBounded ==
  freed > 0 =>
    \E S \in SUBSET tried : Cardinality(S) <= batchSize /\ freed - Sum(S) < needFree

(* Unless the deadline cuts it, a cleanup reaches its target or has called *)
(* a delete for every key it listed, whatever deletes failed.              *)
EnoughIsFreed ==
  pc \in {"status", "compact", "members", "defrag"} /\ ~cut =>
    freed >= needFree \/ tried = DOMAIN listed

(* A compaction that succeeds covers every delete of its cleanup: without  *)
(* it the bytes of the deleted keys stay in use.                           *)
DeletesAreCompacted ==
  pc \in {"members", "defrag"} /\ compactAt # 0 => compacted >= lastDelete

(* RunCleanup returns, so that main resumes the watcher.                   *)
CleanupEnds == <>(pc = "returned")

(* "This strategy helps preserve more recent or relevant event data"       *)
(* (sweeper/README.md:67): of two listed keys of a class, the one whose    *)
(* event is older is deleted first.                                        *)
RecentEventsSurvive ==
  \A k \in tried : \A q \in DOMAIN listed \ tried :
    (k \in CompKeys <=> q \in CompKeys) => listed[k].modified <= listed[q].modified
=============================================================================
