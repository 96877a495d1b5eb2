------------------------------ MODULE MCRxRing ------------------------------
(* The ring on a small instance: 5 slots, packets and reads of 1 to 3 bytes. *)
EXTENDS RxRing
=============================================================================
