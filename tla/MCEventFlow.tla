---------------------------- MODULE MCEventFlow -----------------------------
(***************************************************************************)
(* EventFlow for TLC: a queue of two, which four denials overflow, one     *)
(* reason besides the unknown face and one post on a thread of its own;    *)
(* intervals in the order of those in config.py.                           *)
(***************************************************************************)
EXTENDS EventFlow

MCThreshold == [ir \in BOOLEAN |-> IF ir THEN 2 ELSE 3]
MCReasons == {"spoof_detected"}
=============================================================================
