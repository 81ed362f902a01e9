----------------------------- MODULE MCCardSync -----------------------------
(* CardSync for TLC: one reconnect thread at a time.                       *)
EXTENDS CardSync

MCAgain == {"again"}
=============================================================================
