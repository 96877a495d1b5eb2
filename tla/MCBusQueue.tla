----------------------------- MODULE MCBusQueue -----------------------------
(* Two channels; one is read by a single thread, the other by two. *)
EXTENDS BusQueue, TLC

CONSTANTS a, b, r1, r2, r3

MCHome == (r1 :> {a}) @@ (r2 :> {b}) @@ (r3 :> {b})
=============================================================================
