---------------------------- MODULE MCCameraGate ----------------------------
(* CameraGate for TLC: thresholds of two and three frames.                 *)
EXTENDS CameraGate

MCConfirm == [mode \in BOOLEAN |-> IF mode THEN 2 ELSE 3]
MCHand == [mode \in BOOLEAN |-> IF mode THEN 2 ELSE 3]
MCFake == [mode \in BOOLEAN |-> 2]
=============================================================================
