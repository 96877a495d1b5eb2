------------------------------ MODULE UdpGateway ------------------------------
(***************************************************************************)
(* app_flex_scicos.c: the gateway between the board on USB and Scicos on   *)
(* two UDP ports.  The program counts Channels blocks of each direction,   *)
(* then goes round for ever: read every channel, send the values, take a   *)
(* datagram if there is one, write every channel.  SIGINT runs             *)
(* close_handler in place of the main thread, wherever that is.            *)
(***************************************************************************)
EXTENDS UsbScicos

CONSTANTS
  Packets,     \* bound on the packets of the board, and on the datagrams
  Room         \* what the ring (4 packets: 256 bytes), and the socket, hold

ASSUME GatewayAssumption == Packets \in Nat /\ Room \in Nat \ {0}

VARIABLES
  pc,          \* where the main thread is: "rx blocks", "tx blocks" (calling
               \* flex_usbscicos_init), "read", "send", "receive", "write",
               \* "usb write" (waiting for, or holding, the mutex),
               \* "close" (in the handler), "closing" (with the mutex), "ended"
  i,           \* the loop counter
  data_sender, data_receiver,   \* the values of the two UDP buffers
  up,          \* the values last sent to Scicos
  scicosSent,  \* datagrams that Scicos has sent, whose values are their number
  socket       \* datagrams the receiving socket holds

usb  == <<counters, reading, sending, usb_link_mutex>>
data == <<data_sender, data_receiver, up>>
peer == <<scicosSent, socket>>
vars == <<usb, pc, i, data, peer>>

Init ==
  /\ ScicosInit
  /\ pc = "rx blocks" /\ i = 0
  /\ data_sender = Filled(0) /\ data_receiver = Filled(0) /\ up = Filled(0)
  /\ scicosSent = 0 /\ socket = <<>>

(* The end of a loop over the channels.                                    *)
Loop(at, next) ==
  IF i = Channels - 1 THEN pc' = next /\ i' = 0 ELSE pc' = at /\ i' = i + 1

-----------------------------------------------------------------------------
(* The main thread.                                                        *)
InitReadBlock ==
  /\ pc = "rx blocks"
  /\ flex_usbscicos_init(1)
  /\ Loop("rx blocks", "tx blocks")
  /\ UNCHANGED <<reading, sending, usb_link_mutex, data, peer>>

(* The program ends if the last call failed.                               *)
InitWriteBlock ==
  /\ pc = "tx blocks"
  /\ flex_usbscicos_init(0)
  /\ Loop("tx blocks", IF is_initialized' THEN "read" ELSE "ended")
  /\ UNCHANGED <<reading, sending, usb_link_mutex, data, peer>>

Read ==
  /\ pc = "read"
  /\ flex_usbscicos_read
  /\ data_sender' = [data_sender EXCEPT ![i] = ValueRead(i)]
  /\ Loop("read", "send")
  /\ UNCHANGED <<counters, sending, usb_link_mutex, data_receiver, up, peer>>

(* An integer division by zero ends the process.                           *)
Trap ==
  /\ pc = "read" /\ ReadTraps
  /\ pc' = "ended"
  /\ UNCHANGED <<usb, i, data, peer>>

send_udp_data ==
  /\ pc = "send"
  /\ up' = data_sender /\ pc' = "receive"
  /\ UNCHANGED <<usb, i, data_sender, data_receiver, peer>>

(* The socket does not block; without a datagram the values stay.          *)
receive_udp_data ==
  /\ pc = "receive"
  /\ IF socket = <<>> THEN UNCHANGED <<data_receiver, socket>>
     ELSE data_receiver' = Filled(Head(socket)) /\ socket' = Tail(socket)
  /\ pc' = "write"
  /\ UNCHANGED <<usb, i, data_sender, up, scicosSent>>

Write ==
  /\ pc = "write"
  /\ flex_usbscicos_write(i, data_receiver[i])
  /\ IF CallsUsbWrite THEN pc' = "usb write" /\ UNCHANGED i ELSE Loop("write", "read")
  /\ UNCHANGED <<counters, reading, usb_link_mutex, data, peer>>

(* flex_usb_write: the transfer, which may fail, holds the mutex.          *)
UsbWriteLock ==
  /\ pc = "usb write" /\ usb_link_mutex = "none"
  /\ usb_link_mutex' = "main"
  /\ UNCHANGED <<counters, reading, sending, pc, i, data, peer>>

UsbWriteDone ==
  /\ pc = "usb write" /\ usb_link_mutex = "main"
  /\ usb_link_mutex' = "none" /\ Loop("write", "read")
  /\ UNCHANGED <<counters, reading, sending, data, peer>>

-----------------------------------------------------------------------------
(* SIGINT; close_handler closes the session, if there is one, and exits.   *)
Interrupt ==
  /\ pc \notin {"close", "closing", "ended"}
  /\ pc' = IF is_initialized THEN "close" ELSE "ended"
  /\ UNCHANGED <<usb, i, data, peer>>

(* The mutex is not recursive: the handler waits for ever for a mutex that *)
(* the thread it interrupts holds.                                         *)
CloseLock ==
  /\ pc = "close" /\ usb_link_mutex = "none"
  /\ usb_link_mutex' = "main" /\ pc' = "closing"
  /\ UNCHANGED <<counters, reading, sending, i, data, peer>>

(* The DISCONNECT, then usb_close, which may fail.                         *)
CloseDone ==
  /\ pc = "closing"
  /\ usb_link_mutex' = "none" /\ pc' = "ended"
  /\ flex_usbscicos_close \/ UNCHANGED counters
  /\ UNCHANGED <<reading, sending, i, data, peer>>

-----------------------------------------------------------------------------
(* The reader thread of flex_usb: a poll under the mutex, for which the    *)
(* board has a packet or not.  It stores a packet for which the ring has   *)
(* no room, too.                                                           *)
PollStart ==
  /\ is_initialized /\ pc # "ended" /\ usb_link_mutex = "none"
  /\ usb_link_mutex' = "reader"
  /\ UNCHANGED <<counters, reading, sending, pc, i, data, peer>>

PollEnd ==
  /\ usb_link_mutex = "reader" /\ pc # "ended"
  /\ usb_link_mutex' = "none"
  /\ \/ /\ boardSent < Packets
        /\ boardSent' = boardSent + 1 /\ held' = Append(held, boardSent')
        /\ overrun' = (overrun \/ Len(held) >= Room)
     \/ UNCHANGED <<boardSent, held, overrun>>
  /\ UNCHANGED <<counters, expected_read, rx_buffer_scicos, sending, pc, i, data, peer>>

(* Scicos sends a datagram, which the socket takes or drops.               *)
Datagram ==
  /\ scicosSent < Packets /\ pc # "ended"
  /\ scicosSent' = scicosSent + 1
  /\ \/ Len(socket) < Room /\ socket' = Append(socket, scicosSent')
     \/ UNCHANGED socket
  /\ UNCHANGED <<usb, pc, i, data>>

Main == \/ InitReadBlock \/ InitWriteBlock \/ Read \/ Trap \/ send_udp_data
        \/ receive_udp_data \/ Write \/ UsbWriteLock \/ UsbWriteDone
        \/ CloseLock \/ CloseDone

Next == Main \/ Interrupt \/ PollStart \/ PollEnd \/ Datagram

Spec == Init /\ [][Next]_vars

-----------------------------------------------------------------------------
InRounds == pc \in {"read", "send", "receive", "write", "usb write"}

TypeOK ==
  /\ ScicosTypeOK
  /\ pc \in {"rx blocks", "tx blocks", "read", "send", "receive", "write",
             "usb write", "close", "closing", "ended"}
  /\ i \in Channel
  /\ data_sender \in Values /\ data_receiver \in Values /\ up \in Values
  /\ scicosSent \in Nat /\ socket \in Seq(Nat)
  /\ InRounds => is_initialized

(* Every flex_usbscicos_init succeeded, the first one too.                 *)
AllCounted == read_block_number = Channels /\ write_block_number = Channels

Whole(values) == \A c \in Channel : values[c] = values[0]

(* What goes to Scicos is what one read of flex_usb returned, though the   *)
(* values are collected by Channels calls while the reader thread stores   *)
(* more; and that is one packet of the board, every one in its turn, until *)
(* one comes for which the ring has no room.  A block that was not         *)
(* counted, because an early flex_usb_init failed, would end this for good. *)
PacketsUp ==
  [][AllCounted /\ up' # up =>
       /\ up' = rx_buffer_scicos
       /\ ~overrun => Whole(up') /\ up'[0] = up[0] + 1]_vars

(* What goes to the board is one datagram of Scicos, and every datagram    *)
(* that the gateway takes goes before the next is taken.                   *)
DatagramsDown ==
  [][/\ AllCounted /\ written' # written => Whole(written') /\ written' = data_receiver
     /\ AllCounted /\ data_receiver' # data_receiver => written = data_receiver]_vars
=============================================================================
