----------------------------- MODULE MCFlexBus -----------------------------
(* Two reader threads and two bus threads: an old and a new one of each. *)
EXTENDS FlexBus

CONSTANTS t1, t2, c1, c2
=============================================================================
