---------------------------- MODULE MCLiveIndex -----------------------------
(* LiveIndex with two timer slots, so that a second task could start. *)
EXTENDS LiveIndex

CONSTANTS t1, t2

MCTimers == {t1, t2}
=============================================================================
