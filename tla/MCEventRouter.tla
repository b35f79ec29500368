--------------------------- MODULE MCEventRouter ---------------------------
(* Bounds for TLC: one event with two versions, two registrations, two     *)
(* starts of the process, one worker and a buffer of one, so that the last *)
(* of the four jobs of two callbacks waits in Push behind one that is      *)
(* posted, one in the channel and one that the dispatcher holds.  Requests *)
(* outlive their jobs, so several are under way with one worker too.       *)
EXTENDS EventRouter

CONSTANTS e1, g1, g2

MCEvents == {e1}
MCRegistrations == {g1, g2}
=============================================================================
