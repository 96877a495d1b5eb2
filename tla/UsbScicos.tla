------------------------------- MODULE UsbScicos -------------------------------
(***************************************************************************)
(* flex_usbscicos.c as it is built into the gateway (NO_READ_THREAD and    *)
(* NO_WRITE_THREAD): Channels values go each way in one packet; the first  *)
(* block of a round reads the packet, the last block writes it.  Blocks    *)
(* are counted by flex_usbscicos_init, and a counter of each direction     *)
(* says where in the round a call is.                                      *)
(*                                                                         *)
(* Of flex_usb the module keeps what these calls see: the packets held for *)
(* the reader, and usb_link_mutex.  A value is the number of the packet it *)
(* came in.  The ring keeps packets whole and in order up to the first one *)
(* that finds it full (RxRing): from then on it counts packets right, but  *)
(* a read may return bytes of any packets that came.                       *)
(***************************************************************************)
EXTENDS Integers, Sequences

CONSTANT Channels   \* SCICOS_USB_CHANNELS (15)

ASSUME ChannelsAssumption == Channels \in Nat \ {0}

VARIABLES
  is_initialized, read_block_number, write_block_number,
  expected_read, expected_write,    \* the two static expected_channel
  rx_buffer_scicos, tx_buffer_scicos,
  held,                             \* the packets flex_usb holds
  overrun,                          \* history: one found the ring full
  boardSent,                        \* packets the board has sent
  usb_link_mutex,                   \* its owner: "none", "reader", "main"
  written                           \* what was last given to flex_usb_write

counters == <<is_initialized, read_block_number, write_block_number>>
sending  == <<expected_write, tx_buffer_scicos, written>>
reading  == <<expected_read, rx_buffer_scicos, held, overrun, boardSent>>

Channel == 0 .. Channels - 1
Filled(v) == [c \in Channel |-> v]

ScicosInit ==
  /\ is_initialized = FALSE /\ read_block_number = 0 /\ write_block_number = 0
  /\ expected_read = 0 /\ expected_write = 0
  /\ rx_buffer_scicos = Filled(0) /\ tx_buffer_scicos = Filled(0)
  /\ held = <<>> /\ overrun = FALSE /\ boardSent = 0
  /\ usb_link_mutex = "none" /\ written = Filled(0)

-----------------------------------------------------------------------------
(* A call fails as long as flex_usb_init does; the one that opens the      *)
(* session and the ones after it count their block.                        *)
flex_usbscicos_init(block_type) ==
  \/ ~is_initialized /\ UNCHANGED counters
  \/ /\ is_initialized' = TRUE
     /\ read_block_number'  = read_block_number + block_type
     /\ write_block_number' = write_block_number + 1 - block_type

(* The packet that a call of flex_usbscicos_read takes, if it takes one.   *)
TakesPacket_always == TRUE                                            \* mutant
TakesPacket == expected_read = 0

(* What flex_usb_read returns.                                             *)
NextPacket ==
  IF overrun THEN [Channel -> 0 .. boardSent] ELSE {Filled(Head(held))}

(* Undefined for no blocks: the modulus is zero.                           *)
flex_usbscicos_read ==
  IF ~is_initialized THEN UNCHANGED reading
  ELSE /\ read_block_number > 0
       /\ expected_read' = (expected_read + 1) % read_block_number
       /\ IF TakesPacket /\ held # <<>>
          THEN held' = Tail(held) /\ rx_buffer_scicos' \in NextPacket
          ELSE UNCHANGED <<rx_buffer_scicos, held>>
       /\ UNCHANGED <<overrun, boardSent>>

ReadTraps == is_initialized /\ read_block_number = 0

(* The value a call returns.                                               *)
ValueRead(ch) == IF is_initialized THEN rx_buffer_scicos'[ch] ELSE 0

(* The last block of a round.                                              *)
Completes_late(n) == n > write_block_number                           \* mutant
Completes(n) == n = write_block_number

(* flex_usbscicos_write, up to flex_usb_write, which waits for the mutex.  *)
flex_usbscicos_write(ch, val) ==
  IF ~is_initialized THEN UNCHANGED sending
  ELSE /\ tx_buffer_scicos' = [tx_buffer_scicos EXCEPT ![ch] = val]
       /\ expected_write' = IF Completes(expected_write + 1) THEN 0 ELSE expected_write + 1
       /\ written' = IF Completes(expected_write + 1) THEN tx_buffer_scicos' ELSE written

CallsUsbWrite == is_initialized /\ Completes(expected_write + 1)

(* flex_usbscicos_close after a close of flex_usb that succeeds; the count *)
(* of the reading blocks stays.                                            *)
flex_usbscicos_close ==
  is_initialized' = FALSE /\ write_block_number' = 0 /\ UNCHANGED read_block_number

-----------------------------------------------------------------------------
Values == [Channel -> Nat]

ScicosTypeOK ==
  /\ is_initialized \in BOOLEAN
  /\ read_block_number \in Nat /\ write_block_number \in Nat
  /\ expected_read \in Nat /\ expected_write \in Nat
  /\ rx_buffer_scicos \in Values /\ tx_buffer_scicos \in Values
  /\ written \in Values /\ held \in Seq(Nat)
  /\ overrun \in BOOLEAN /\ boardSent \in Nat
  /\ usb_link_mutex \in {"none", "reader", "main"}
=============================================================================
