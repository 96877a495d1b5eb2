------------------------------- MODULE RxRing -------------------------------
(***************************************************************************)
(* The receive ring of the FLEX USB library (flex_usb.c): rx_buffer with   *)
(* rx_first, rx_last and rx_held, filled by the reader thread              *)
(* (write_rx_buffer_shift) and emptied by flex_usb_read.  Both run under   *)
(* rx_mutex, so each is one action.                                        *)
(*                                                                         *)
(* A byte is an item of the Stream the device sends; Junk is a byte nobody *)
(* sent: the contents of fresh memory and what lies behind the payload of  *)
(* a packet.  The length of a packet is what its 6-bit field says, from 0  *)
(* to more than a payload, and the device may send while the ring is full: *)
(* two history variables count what the ring does not bear.                *)
(***************************************************************************)
EXTENDS Integers, Sequences, Stream

CONSTANTS
  BufferSize,   \* rx_buffer_size; flex_usb_init makes it 64 or more
  PayloadSize,  \* FLEX_USB_PACKET_PAYLOAD_SIZE (60)
  MaxLength,    \* the greatest value of pkt.length, a field of 6 bits (63)
  MaxRead,      \* the most bytes a caller asks of flex_usb_read
  Word,         \* 2^32, the modulus of uint32_t
  MaxFaults,    \* bound: packets that the ring does not bear
  Junk

ASSUME RingAssumption ==
  /\ BufferSize \in Nat /\ PayloadSize \in Nat \ {0} /\ MaxRead \in Nat \ {0}
  /\ Word \in Nat /\ Cycle \in Nat
  /\ MaxLength \in Nat /\ PayloadSize <= MaxLength
  /\ MaxLength < BufferSize /\ MaxRead <= BufferSize
  /\ BufferSize < Cycle /\ 2 * BufferSize < Word
  /\ MaxFaults \in Nat
  /\ Junk \notin Int

VARIABLES
  rx_buffer,    \* the bytes, by position
  rx_first,     \* position of the oldest byte
  rx_last,      \* position after the newest byte
  rx_held,      \* bytes held
  next,         \* the next byte of the stream
  stored,       \* what the last flex_usb_read wrote into its caller's buffer
  ret,          \* what it returned
  faults,       \* history: packets so far that the ring does not bear
  overrun       \* history: one of them was longer than the room there was

vars == <<rx_buffer, rx_first, rx_last, rx_held, next, stored, ret, faults, overrun>>

Slot == 0 .. BufferSize - 1
Byte == Item \cup {Junk}

(* The position n places after pos. *)
Advance_restart(pos, n) == IF pos + n < BufferSize THEN pos + n ELSE 0   \* mutant

Advance(pos, n) == (pos + n) % BufferSize

(* pkt.payload[i] of a packet of the given length. *)
Payload(size, i) == IF i < size /\ i < PayloadSize THEN After(next, i) ELSE Junk

(* The message does not end before the end of the ring: "not above rx_last" *)
(* stands for it, also when the message is empty.                          *)
Wraps(size) == Advance(rx_last, size) <= rx_last

(* The positions that the memcpys of write_rx_buffer_shift write: the      *)
(* second memcpy of a message that wraps copies tmp_idx + 1 bytes, one     *)
(* more than is left of the message.                                       *)
Overwritten_two(size) ==                                             \* mutant
  LET last == Advance(rx_last, size) IN
  IF Wraps(size) THEN (0 .. last + 1) \cup (rx_last .. BufferSize - 1)
  ELSE rx_last .. last - 1

Overwritten(size) ==
  LET last == Advance(rx_last, size) IN
  IF Wraps(size) THEN (0 .. last) \cup (rx_last .. BufferSize - 1)
  ELSE rx_last .. last - 1

(* The byte of the payload that is written at position k. *)
Offset_late(k) ==                                                    \* mutant
  IF k >= rx_last THEN k - rx_last ELSE BufferSize - rx_last + k + 1

Offset_again(k) == IF k >= rx_last THEN k - rx_last ELSE k           \* mutant

Offset(k) == IF k >= rx_last THEN k - rx_last ELSE BufferSize - rx_last + k

Init ==
  /\ rx_buffer = [k \in Slot |-> Junk]
  /\ rx_first = 0 /\ rx_last = 0 /\ rx_held = 0
  /\ next = 1
  /\ stored = <<>> /\ ret = 0
  /\ faults = 0 /\ overrun = FALSE

(***************************************************************************)
(* The reader thread stores a packet; rx_buffer_size - rx_held is unsigned. *)
(***************************************************************************)
write_rx_buffer_shift(size) ==
  LET room == (BufferSize - rx_held) % Word
  IN  /\ rx_first' = IF room < size THEN Advance(rx_first, size - room) ELSE rx_first
      /\ rx_last' = Advance(rx_last, size)
      /\ rx_held' = (rx_held + size) % Word
      /\ rx_buffer' = [k \in Slot |-> IF k \in Overwritten(size)
                                      THEN Payload(size, Offset(k))
                                      ELSE rx_buffer[k]]

(***************************************************************************)
(* What the ring does not bear: a packet longer than the room there is; a  *)
(* length beyond the payload; an empty packet while bytes are held, which  *)
(* is taken for one that wraps and written over all of them; a packet that *)
(* wraps and fills the last slot, as one byte more than it is copied.      *)
(***************************************************************************)
Overruns(size) == rx_held + size > BufferSize

Harms(size) ==
  \/ Overruns(size)
  \/ size > PayloadSize
  \/ size = 0 /\ rx_held > 0
  \/ Wraps(size) /\ rx_held + size = BufferSize

(* The reader thread: a packet that says it has size bytes is stored. *)
Receive(size) ==
  /\ Harms(size) => faults < MaxFaults
  /\ write_rx_buffer_shift(size)
  /\ next' = After(next, size)
  /\ faults' = IF Harms(size) THEN faults + 1 ELSE faults
  /\ overrun' = (overrun \/ Overruns(size))
  /\ UNCHANGED <<stored, ret>>

(***************************************************************************)
(* The copy at the end of flex_usb_read: len bytes leave the ring.  The    *)
(* second memcpy of a message that wraps copies tmp_idx + 1 bytes here     *)
(* too, so one byte more than len reaches the caller's buffer.             *)
(***************************************************************************)
Take(len) ==
  LET first  == Advance(rx_first, len)
      copied == IF first > rx_first THEN len ELSE len + 1
  IN  /\ stored' = [i \in 1 .. copied |-> rx_buffer[Advance(rx_first, i - 1)]]
      /\ ret' = len
      /\ rx_held' = rx_held - len
      /\ rx_first' = first
      /\ UNCHANGED <<rx_buffer, rx_last, next, faults, overrun>>

(* FLEX_USB_READ_BLOCK: waits until len bytes are held. *)
ReadBlock(len) == len <= rx_held /\ Take(len)

(* FLEX_USB_READ_NOBLOCK: takes what there is, len bytes at most. *)
ReadNoBlock_all(len) == rx_held > 0 /\ Take(len)                      \* mutant

ReadNoBlock(len) ==
  /\ rx_held > 0
  /\ Take(IF len > rx_held THEN rx_held ELSE len)

Next ==
  \/ \E size \in 0 .. MaxLength : Receive(size)
  \/ \E len \in 1 .. MaxRead : ReadBlock(len)
  \/ \E len \in 1 .. MaxRead : ReadNoBlock(len)

Spec == Init /\ [][Next]_vars

-----------------------------------------------------------------------------
TypeOK ==
  /\ rx_buffer \in [Slot -> Byte]
  /\ rx_first \in Slot /\ rx_last \in Slot
  /\ rx_held \in 0 .. Word - 1
  /\ next \in Item
  /\ stored \in Seq(Byte) /\ ret \in 0 .. MaxRead
  /\ faults \in 0 .. MaxFaults /\ overrun \in BOOLEAN

(* The rx_held bytes from rx_first on, oldest first: what is left to read. *)
Contents == [i \in 1 .. rx_held |-> rx_buffer[Advance(rx_first, i - 1)]]

(* The byte that the device sent for the i-th place of Contents. *)
Due(i) == After(next, Cycle - rx_held + i - 1)

(* rx_first, rx_last and rx_held, which flex_usb.c updates by separate     *)
(* assignments in two functions, agree until a packet comes that is longer *)
(* than the room there is, whatever lengths the packets claim.             *)
Consistent ==
  ~overrun => rx_held <= BufferSize /\ rx_last = Advance(rx_first, rx_held)

(* Until then no byte is moved, repeated or put in the place of another:   *)
(* each byte left to read is the one that was sent for its place, or is    *)
(* spoilt, whatever empty or overlong packets came and even if the ring    *)
(* was full to the last slot.                                              *)
InPlace == ~overrun => \A i \in 1 .. rx_held : Contents[i] \in {Due(i), Junk}

(* As long as every packet was one that the ring bears, the bytes left to  *)
(* read are the newest rx_held bytes of the stream, in order: no byte is   *)
(* lost, repeated, reordered or overwritten by the copy of another message. *)
InStreamOrder == faults = 0 => \A i \in 1 .. rx_held : Contents[i] = Due(i)

(* The ring as the queue that flex_usb.h describes. *)
Promise == INSTANCE ShiftQueue WITH
  Item <- Byte, Capacity <- BufferSize, MaxBatch <- PayloadSize,
  queue <- Contents, out <- SubSeq(stored, 1, ret)

(* As long as every packet was one that the ring bears, its steps are those *)
(* of that queue: a packet goes behind what is held, a read returns the    *)
(* oldest bytes.                                                           *)
QueueUntilFault == [][faults' = 0 => [Promise!Next]_(Promise!vars)]_vars

(* "Shift queue front, override oldest data, on RX queue full."            *)
(* (flex_usb.h): what is left after the first packet that does not fit are *)
(* the newest BufferSize bytes.                                            *)
OverridesOldest ==
  [][\A size \in 1 .. PayloadSize :
       faults = 0 /\ Receive(size) /\ Overruns(size) =>
         Contents' = Promise!Newest(Contents \o [i \in 1 .. size |-> Payload(size, i - 1)])]_vars
=============================================================================
