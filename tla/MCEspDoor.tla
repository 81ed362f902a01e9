----------------------------- MODULE MCEspDoor -----------------------------
(***************************************************************************)
(* EspDoor for TLC: two cards, an opening of two ticks, two ticks at most  *)
(* between two calls of tickDoorTimer and a counter of ten values, so that *)
(* it wraps in many openings and a pass may step over a deadline.          *)
(***************************************************************************)
EXTENDS EspDoor

MCCards == {"card_a", "card_b"}
=============================================================================
