--------------------------- MODULE MCAdvisoryLocks ---------------------------
(* An instance of AdvisoryLocks for TLC. *)
EXTENDS AdvisoryLocks

CONSTANTS p1, p2, t1, t2, w1, w2
=============================================================================
