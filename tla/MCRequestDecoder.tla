-------------------------- MODULE MCRequestDecoder --------------------------
(* All bodies with up to five members: one more than a complete one. *)
EXTENDS RequestDecoder, TLC

MCKeys == {"event_id", "customer_id", "meter", "units"}
MCStrangers == {"Units"}
=============================================================================
