----------------------------- MODULE MCFaceSync -----------------------------
(* FaceSync for TLC: the persons are the model values of the cfg.          *)
EXTENDS FaceSync
=============================================================================
