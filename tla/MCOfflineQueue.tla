--------------------------- MODULE MCOfflineQueue ---------------------------
(* OfflineQueue for TLC: three events and a deque capped at two.           *)
EXTENDS OfflineQueue

MCEvents == 1 .. 3
=============================================================================
