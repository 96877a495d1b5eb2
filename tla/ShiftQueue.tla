----------------------------- MODULE ShiftQueue -----------------------------
(***************************************************************************)
(* What the receive queues of the FLEX PC libraries promise: items come    *)
(* out in the order they went in, and a full queue gives up its oldest     *)
(* items to make room ("Shift queue front, override oldest data, on RX     *)
(* queue full.", flex_usb.h).  RxRing (bytes) and BusQueue (messages of    *)
(* one channel) are shown to implement it.                                 *)
(***************************************************************************)
EXTENDS Integers, Sequences

CONSTANTS Item,      \* what the queue carries
          Capacity,  \* how many items it can hold
          MaxBatch   \* the most items one Put brings

VARIABLES queue,     \* the items put and not yet taken, oldest first
          out        \* the items the last Get returned

vars == <<queue, out>>

(* The newest Capacity items of s. *)
Newest(s) ==
  IF Len(s) <= Capacity THEN s
  ELSE SubSeq(s, Len(s) - Capacity + 1, Len(s))

Init == queue = <<>> /\ out = <<>>

Put(s) ==
  /\ queue' = Newest(queue \o s)
  /\ UNCHANGED out

Get(n) ==
  /\ n <= Len(queue)
  /\ out' = SubSeq(queue, 1, n)
  /\ queue' = SubSeq(queue, n + 1, Len(queue))

Next ==
  \/ \E n \in 1 .. MaxBatch : \E s \in [1 .. n -> Item] : Put(s)
  \/ \E n \in 1 .. Capacity : Get(n)

Spec == Init /\ [][Next]_vars
=============================================================================
