---------------------------- MODULE MCEnrollRelay ----------------------------
(***************************************************************************)
(* EnrollRelay for TLC: three enrolments, so that the second can meet what *)
(* is left of the first and the third what is left of both, and two        *)
(* captures on their way, so that one is late for its session.             *)
(***************************************************************************)
EXTENDS EnrollRelay
=============================================================================
