------------------------------- MODULE Stream -------------------------------
(***************************************************************************)
(* The stream of items a FLEX device sends.  An item is the number of its  *)
(* place in the stream, taken cyclically in 1..Cycle, so that a queue can  *)
(* be checked for items lost, repeated or reordered.                       *)
(***************************************************************************)
EXTENDS Integers

CONSTANT Cycle   \* the period; longer than any queue

Item == 1 .. Cycle

(* The item i places after b. *)
After(b, i) == ((b - 1 + i) % Cycle) + 1
=============================================================================
