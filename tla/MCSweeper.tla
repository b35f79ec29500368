----------------------------- MODULE MCSweeper -----------------------------
(* Bounds for TLC: clients of one endpoint (the default of ETCD_SERVERS),  *)
(* or of one or two.                                                       *)
EXTENDS Sweeper

CONSTANTS e1, e2

OneEndpoint == {e1}
TwoEndpoints == {e1, e2}
=============================================================================
