---------------------------- MODULE MCEspAlerts -----------------------------
(* EspAlerts for TLC: three chains at a time.                              *)
EXTENDS EspAlerts

MCChains == 1 .. 3
MCNoChain == 0
=============================================================================
