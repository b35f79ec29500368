------------------------- MODULE MCCleanupManager -------------------------
(* Bounds for TLC: two keys outside compositions and one inside; batches   *)
(* of one and of two keys; targets that need no key, one key, both lists.  *)
EXTENDS CleanupManager

CONSTANTS n1, n2, c1

MCKeys == {n1, n2, c1}
MCCompKeys == {c1}
MCBytes == [k \in MCKeys |-> IF k = n2 THEN 2 ELSE 1]
MCBatchSizes == {1, 2}
MCTargets == {0, 1, 3}
=============================================================================
