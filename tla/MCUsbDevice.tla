----------------------------- MODULE MCUsbDevice -----------------------------
(* Packets of two bytes; a descriptor of two full packets and one that     *)
(* ends with a short packet, reads that ask for exactly as much as there   *)
(* is and for more.                                                        *)
EXTENDS UsbDevice

MCDescriptors == [device |-> <<1, 2, 3, 4>>, report |-> <<5, 6, 7>>]
MCLengths == {4, 6}
MCRegisters == {"cfg", "wakeup"}
=============================================================================
