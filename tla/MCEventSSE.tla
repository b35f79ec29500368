----------------------------- MODULE MCEventSSE -----------------------------
(* Bounds for TLC: two requests, whose events have one key, so that the    *)
(* second refreshes what the first stored, or two, one of them a           *)
(* composition's, so that a limit or a prefix can cut a list; and one      *)
(* client: clients share only etcd, which none of them changes.            *)
EXTENDS EventSSE

CONSTANTS r1, r2, k1, k2, c1, s1

MCRequests == {r1, r2}
MCKeys == {k1, k2}
MCKeyRank == [k \in MCKeys |-> IF k = k1 THEN 1 ELSE 2]
MCCompositions == {c1}
MCCompositionOf == [k \in MCKeys |-> IF k = k1 THEN c1 ELSE None]
MCStreams == {s1}
MCLimits == {-1, 0, 1}
=============================================================================
