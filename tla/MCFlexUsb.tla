----------------------------- MODULE MCFlexUsb -----------------------------
(* Two reader threads and two threads in flex_usb_read. *)
EXTENDS FlexUsb

CONSTANTS t1, t2, c1, c2
=============================================================================
