----------------------------- MODULE RxRing_proofs -----------------------------
(***************************************************************************)
(* Proofs about the receive ring (RxRing), for rings, packets and reads of *)
(* any size.                                                               *)
(***************************************************************************)
EXTENDS RxRing, Modular

USE DEF Advance

(* The period of the stream is that of RingAssumption. *)
LEMMA RingCycle == Cycle \in Nat \ {0}
BY RingAssumption DEF RingAssumption

-----------------------------------------------------------------------------
(* Positions and the counter keep their types, and every place of the ring *)
(* and every byte handed to a caller is a byte of the stream or junk.      *)
THEOREM RingTyping == Spec => []TypeOK
<1> USE DEF TypeOK, Byte, Item
<1>0. BufferSize \in Nat \ {0} /\ Word \in Nat \ {0} /\ Cycle \in Nat \ {0}
  BY RingAssumption DEF RingAssumption
<1>1. Init => TypeOK
  <2> SUFFICES ASSUME Init PROVE TypeOK
    OBVIOUS
  <2>1. /\ rx_first = 0 /\ rx_last = 0 /\ rx_held = 0 /\ next = 1 /\ ret = 0 /\ faults = 0
        /\ stored = <<>> /\ overrun = FALSE
    BY DEF Init
  <2>2. rx_buffer \in [Slot -> Byte]
    BY DEF Init
  <2>3. MaxRead \in Nat /\ MaxFaults \in Nat
    BY RingAssumption DEF RingAssumption
  <2>4. /\ rx_first \in Slot /\ rx_last \in Slot /\ rx_held \in 0 .. Word - 1
        /\ next \in Item /\ ret \in 0 .. MaxRead /\ faults \in 0 .. MaxFaults
    BY <1>0, <2>1, <2>3 DEF Slot
  <2>5. overrun \in BOOLEAN
    BY <2>1, Zenon
  <2> HIDE DEF Byte, Item
  <2>6. stored \in Seq(Byte)
    BY <2>1
  <2> QED
    BY <2>2, <2>4, <2>5, <2>6, Zenon
<1>2. ASSUME TypeOK, NEW size \in 0 .. MaxLength, Receive(size) PROVE TypeOK'
  <2>1. size \in Nat
    BY RingAssumption DEF RingAssumption
  <2>2. rx_last' \in Slot /\ rx_first' \in Slot /\ rx_held' \in 0 .. Word - 1
    <3> DEFINE room == (BufferSize - rx_held) % Word
    <3>1. rx_first \in Int /\ rx_last \in Int /\ rx_held \in Int
      BY <1>0, <1>2 DEF Slot
    <3>2. room \in Int
      BY <1>0, <3>1, ModRange
    <3>3. /\ rx_last' = (rx_last + size) % BufferSize
          /\ rx_held' = (rx_held + size) % Word
          /\ rx_first' = rx_first \/ rx_first' = (rx_first + size - room) % BufferSize
      BY <1>2 DEF Receive, write_rx_buffer_shift
    <3> HIDE DEF room
    <3>4. /\ rx_last + size \in Int /\ rx_held + size \in Int
          /\ rx_first + size - room \in Int
      BY <2>1, <3>1, <3>2
    <3> QED
      BY <1>0, <1>2, <3>3, <3>4, ModRange DEF Slot
  <2>3. next' \in 1 .. Cycle
    BY <1>2, <2>1, AfterType, RingCycle DEF Receive
  <2>4. \A i \in Int : Payload(size, i) \in Byte
    BY <1>2, AfterType, RingCycle DEF Payload
  <2>5. rx_buffer' \in [Slot -> Byte]
    <3>1. \A k \in Slot : Offset(k) \in Int
      BY <1>0, <1>2 DEF Offset, Slot
    <3> QED
      BY <1>2, <2>4, <3>1 DEF Receive, write_rx_buffer_shift
  <2>6. faults' \in 0 .. MaxFaults /\ overrun' \in BOOLEAN
    BY <1>2, RingAssumption DEF Receive, RingAssumption
  <2> QED
    BY <1>2, <2>2, <2>3, <2>5, <2>6 DEF Receive
<1>3. ASSUME TypeOK, NEW len \in 1 .. MaxRead, len <= rx_held, Take(len) PROVE TypeOK'
  <2>1. len \in Nat
    BY RingAssumption DEF RingAssumption
  <2>2. rx_first' \in Slot
    <3>1. rx_first + len \in Int /\ rx_first' = (rx_first + len) % BufferSize
      BY <1>0, <1>3, <2>1 DEF Take, Slot
    <3> QED
      BY <1>0, <3>1, ModRange DEF Slot
  <2>3. ASSUME NEW i \in Int
        PROVE  rx_buffer[(rx_first + i - 1) % BufferSize] \in Byte
    <3>1. rx_first + i - 1 \in Int
      BY <1>0, <1>3 DEF Slot
    <3>2. (rx_first + i - 1) % BufferSize \in Slot
      BY <1>0, <3>1, ModRange DEF Slot
    <3> QED
      BY <1>3, <3>2
  <2>4. stored' \in Seq(Byte)
    <3> DEFINE Cell(i) == rx_buffer[(rx_first + i - 1) % BufferSize]
    <3>1. \A n \in Nat : [i \in 1 .. n |-> Cell(i)] \in Seq(Byte)
      BY <2>3
    <3>2. \E n \in {len, len + 1} : stored' = [i \in 1 .. n |-> Cell(i)]
      BY <1>3, Zenon DEF Take
    <3> QED
      BY <2>1, <3>1, <3>2
  <2>5. rx_held' \in 0 .. Word - 1 /\ ret' \in 0 .. MaxRead
    BY <1>3, <2>1, RingAssumption DEF Take, RingAssumption
  <2> QED
    BY <1>3, <2>2, <2>4, <2>5 DEF Take
<1>4. ASSUME TypeOK, [Next]_vars PROVE TypeOK'
  <2>1. CASE \E size \in 0 .. MaxLength : Receive(size)
    BY <1>2, <1>4, <2>1
  <2>2. ASSUME NEW len \in 1 .. MaxRead, ReadBlock(len) PROVE TypeOK'
    BY <1>3, <1>4, <2>2 DEF ReadBlock
  <2>3. ASSUME NEW len \in 1 .. MaxRead, ReadNoBlock(len) PROVE TypeOK'
    BY <1>3, <1>4, <2>3, RingAssumption DEF ReadNoBlock, RingAssumption
  <2>4. CASE UNCHANGED vars
    BY <1>4, <2>4 DEF vars
  <2> QED
    BY <1>4, <2>1, <2>2, <2>3, <2>4 DEF Next
<1> QED
  BY <1>1, <1>4, PTL DEF Spec

-----------------------------------------------------------------------------
(* The byte i places from the oldest one. *)
Cell(i) == rx_buffer[(rx_first + i - 1) % BufferSize]

(* What a message leaves in the ring, place by place from rx_last on: the  *)
(* message, perhaps one byte of junk after it, and the bytes there were.   *)
(* Beyond its payload, and everywhere if it is empty, it writes junk.      *)
LEMMA Written ==
  ASSUME TypeOK, NEW size \in 0 .. MaxLength, write_rx_buffer_shift(size),
         NEW j \in 0 .. BufferSize - 1
  PROVE  LET new == rx_buffer'[(rx_last + j) % BufferSize]
             old == rx_buffer[(rx_last + j) % BufferSize]
         IN  /\ j < size => new \in {After(next, j), Junk}
             /\ j < size /\ size <= PayloadSize => new = After(next, j)
             /\ j >= size => new \in {old, Junk}
             /\ j >= size /\ size # 0 /\ (j > size \/ ~Wraps(size)) => new = old
<1> DEFINE last == (rx_last + size) % BufferSize
           k == (rx_last + j) % BufferSize
<1>1. /\ BufferSize \in Nat \ {0} /\ size \in 0 .. BufferSize - 1 /\ PayloadSize \in Nat
      /\ rx_last \in 0 .. BufferSize - 1
  BY RingAssumption DEF RingAssumption, TypeOK, Slot
<1>2. last = IF rx_last + size < BufferSize THEN rx_last + size
             ELSE rx_last + size - BufferSize
  <2> DEFINE c == rx_last + size
  <2>1. c \in 0 .. 2 * BufferSize - 1
    BY <1>1
  <2> HIDE DEF c
  <2>2. c % BufferSize = IF c < BufferSize THEN c ELSE c - BufferSize
    BY <1>1, <2>1, ModCases
  <2> QED
    BY <1>1, <2>2 DEF c
<1>3. k = IF rx_last + j < BufferSize THEN rx_last + j
          ELSE rx_last + j - BufferSize
  <2> DEFINE c == rx_last + j
  <2>1. c \in 0 .. 2 * BufferSize - 1
    BY <1>1
  <2> HIDE DEF c
  <2>2. c % BufferSize = IF c < BufferSize THEN c ELSE c - BufferSize
    BY <1>1, <2>1, ModCases
  <2> QED
    BY <1>1, <2>2 DEF c
<1>4. k \in Slot
  BY <1>1, <1>3 DEF Slot
<1>5. rx_buffer' = [i \in Slot |-> IF i \in Overwritten(size)
                                   THEN Payload(size, Offset(i)) ELSE rx_buffer[i]]
  BY DEF write_rx_buffer_shift
<1>6. /\ Wraps(size) <=> last <= rx_last
      /\ Overwritten(size) = IF last <= rx_last THEN (0 .. last) \cup (rx_last .. BufferSize - 1)
                             ELSE rx_last .. last - 1
  BY DEF Overwritten, Wraps
<1>7. /\ \A i \in Int : Payload(size, i) \in {After(next, i), Junk}
      /\ \A i \in Int : i < size /\ size <= PayloadSize => Payload(size, i) = After(next, i)
      /\ \A i \in Int : i >= size => Payload(size, i) = Junk
  BY <1>1 DEF Payload
<1> HIDE DEF last, k
<1>8. ASSUME j < size
      PROVE  /\ rx_buffer'[k] \in {After(next, j), Junk}
             /\ size <= PayloadSize => rx_buffer'[k] = After(next, j)
  <2>1. k \in Overwritten(size) /\ Offset(k) = j
    BY <1>1, <1>2, <1>3, <1>6, <1>8 DEF Offset
  <2>2. rx_buffer'[k] = Payload(size, j)
    BY <1>4, <1>5, <2>1
  <2> QED
    BY <1>1, <1>7, <1>8, <2>2
<1>9. ASSUME j >= size
      PROVE  /\ rx_buffer'[k] \in {rx_buffer[k], Junk}
             /\ size # 0 /\ (j > size \/ ~Wraps(size)) => rx_buffer'[k] = rx_buffer[k]
  <2>1. k \in Overwritten(size) => Offset(k) \in Int /\ Offset(k) >= size
    BY <1>1, <1>2, <1>3, <1>6, <1>9 DEF Offset
  <2>2. size # 0 /\ (j > size \/ ~Wraps(size)) => k \notin Overwritten(size)
    BY <1>1, <1>2, <1>3, <1>6, <1>9
  <2>3. rx_buffer'[k] = IF k \in Overwritten(size) THEN Payload(size, Offset(k)) ELSE rx_buffer[k]
    BY <1>4, <1>5
  <2> QED
    BY <1>7, <2>1, <2>2, <2>3
<1> QED
  BY <1>1, <1>8, <1>9 DEF k

(* A message that there is room for is added behind the bytes held, which  *)
(* keep their places, but for bytes that it spoils.                        *)
LEMMA Appended ==
  ASSUME TypeOK, Consistent, ~overrun, NEW size \in 0 .. MaxLength, Receive(size),
         ~Overruns(size)
  PROVE  /\ rx_first' = rx_first
         /\ rx_held' = rx_held + size
         /\ Consistent'
         /\ \A i \in 1 .. rx_held : Cell(i)' \in {Cell(i), Junk}
         /\ \A i \in rx_held + 1 .. rx_held + size :
              Cell(i)' \in {After(next, i - rx_held - 1), Junk}
         /\ ~Harms(size) =>
              /\ \A i \in 1 .. rx_held : Cell(i)' = Cell(i)
              /\ \A i \in rx_held + 1 .. rx_held + size :
                   Cell(i)' = After(next, i - rx_held - 1)
<1>1. /\ BufferSize \in Nat \ {0} /\ Word \in Nat /\ 2 * BufferSize < Word
      /\ size \in Nat /\ rx_held \in Nat /\ rx_first \in Nat
      /\ rx_held + size <= BufferSize /\ PayloadSize \in Nat /\ size < BufferSize
  BY RingAssumption DEF RingAssumption, TypeOK, Slot, Overruns
<1>2. (BufferSize - rx_held) % Word = BufferSize - rx_held
  BY <1>1, ModSmall
<1>3. (rx_held + size) % Word = rx_held + size
  BY <1>1, ModSmall
<1>4. rx_first' = rx_first /\ rx_held' = rx_held + size
  BY <1>1, <1>2, <1>3 DEF Receive, write_rx_buffer_shift
<1>5. rx_last = (rx_first + rx_held) % BufferSize
  BY DEF Consistent
<1>6. ASSUME NEW j \in Int
      PROVE  (rx_last + j) % BufferSize = (rx_first + rx_held + j) % BufferSize
  <2> DEFINE a == rx_first + rx_held
  <2>1. a \in Int
    BY <1>1
  <2> HIDE DEF a
  <2>2. ((a % BufferSize) + j) % BufferSize = (a + j) % BufferSize
    BY <1>1, <2>1, ModAdd
  <2> QED
    BY <1>5, <2>2 DEF a
<1>7. Consistent'
  <2>1. rx_last' = (rx_first + rx_held + size) % BufferSize
    BY <1>1, <1>6 DEF Receive, write_rx_buffer_shift
  <2>2. rx_first + rx_held + size = rx_first + (rx_held + size)
    BY <1>1
  <2> QED
    BY <1>1, <1>4, <2>1, <2>2 DEF Consistent
<1>8. ASSUME NEW i \in 1 .. rx_held
      PROVE  /\ Cell(i)' \in {Cell(i), Junk}
             /\ ~Harms(size) => Cell(i)' = Cell(i)
  <2> DEFINE j == BufferSize - rx_held + i - 1
  <2>1. /\ j \in 0 .. BufferSize - 1 /\ j >= size /\ rx_first + i - 1 \in Int
        /\ rx_first + rx_held + j = BufferSize + (rx_first + i - 1)
    BY <1>1
  <2> DEFINE c == rx_first + i - 1
  <2>2. c \in Int /\ (BufferSize + c) % BufferSize = c % BufferSize
    BY <1>1, <2>1, ModTurn
  <2>3. (rx_last + j) % BufferSize = (rx_first + rx_held + j) % BufferSize
    BY <1>6, <2>1
  <2>4. ~Harms(size) => size # 0 /\ (j > size \/ ~Wraps(size))
    BY <1>1 DEF Harms
  <2> HIDE DEF j
  <2>5. (rx_last + j) % BufferSize = (rx_first + i - 1) % BufferSize
    BY <2>1, <2>2, <2>3
  <2>6. Cell(i)' = rx_buffer'[(rx_last + j) % BufferSize]
    BY <1>4, <2>5 DEF Cell
  <2>7. Cell(i) = rx_buffer[(rx_last + j) % BufferSize]
    BY <2>5 DEF Cell
  <2> QED
    BY <2>1, <2>4, <2>6, <2>7, Written DEF Receive
<1>9. ASSUME NEW i \in rx_held + 1 .. rx_held + size
      PROVE  /\ Cell(i)' \in {After(next, i - rx_held - 1), Junk}
             /\ ~Harms(size) => Cell(i)' = After(next, i - rx_held - 1)
  <2> DEFINE j == i - rx_held - 1
  <2>1. /\ j \in 0 .. BufferSize - 1 /\ j < size
        /\ rx_first + rx_held + j = rx_first + i - 1
    BY <1>1
  <2>2. (rx_last + j) % BufferSize = (rx_first + rx_held + j) % BufferSize
    BY <1>6, <2>1
  <2>3. ~Harms(size) => size <= PayloadSize
    BY <1>1 DEF Harms
  <2> HIDE DEF j
  <2>4. Cell(i)' = rx_buffer'[(rx_last + j) % BufferSize]
    BY <1>4, <2>1, <2>2 DEF Cell
  <2>5. /\ Cell(i)' \in {After(next, j), Junk}
        /\ ~Harms(size) => Cell(i)' = After(next, j)
    BY <2>1, <2>3, <2>4, Written DEF Receive
  <2> QED
    BY <2>5 DEF j
<1> QED
  BY <1>4, <1>7, <1>8, <1>9

(* A read moves the oldest byte on by len places and changes no byte.      *)
LEMMA Removed ==
  ASSUME TypeOK, NEW len \in 1 .. MaxRead, len <= rx_held, Take(len)
  PROVE  /\ rx_held' = rx_held - len
         /\ Consistent => Consistent'
         /\ \A i \in Int : Cell(i)' = Cell(i + len)
<1>1. /\ BufferSize \in Nat \ {0} /\ len \in Nat /\ rx_held \in Nat
      /\ rx_first \in Nat
  BY RingAssumption DEF RingAssumption, TypeOK, Slot
<1>2. /\ rx_first' = (rx_first + len) % BufferSize /\ rx_held' = rx_held - len
      /\ rx_buffer' = rx_buffer /\ rx_last' = rx_last /\ overrun' = overrun
  BY DEF Take
<1>3. ASSUME NEW j \in Int
      PROVE  (rx_first' + j) % BufferSize = (rx_first + len + j) % BufferSize
  <2> DEFINE a == rx_first + len
  <2>1. a \in Int
    BY <1>1
  <2> HIDE DEF a
  <2>2. ((a % BufferSize) + j) % BufferSize = (a + j) % BufferSize
    BY <1>1, <2>1, ModAdd
  <2> QED
    BY <1>2, <2>2 DEF a
<1>4. ASSUME Consistent, ~overrun PROVE Consistent'
  <2> DEFINE j == rx_held - len
  <2>1. j \in Int /\ j <= BufferSize /\ rx_first + len + j = rx_first + rx_held
    BY <1>1, <1>4 DEF Consistent
  <2>2. (rx_first' + j) % BufferSize = (rx_first + len + j) % BufferSize
    BY <1>3, <2>1
  <2> QED
    BY <1>2, <1>4, <2>1, <2>2 DEF Consistent
<1>5. ASSUME NEW i \in Int PROVE Cell(i)' = Cell(i + len)
  <2> DEFINE j == i - 1
  <2>1. /\ j \in Int /\ rx_first + len + j = rx_first + (i + len) - 1
        /\ rx_first' + j = rx_first' + i - 1
    <3>1. rx_first' \in Int
      BY <1>1, <1>2, ModRange
    <3> QED
      BY <1>1, <3>1
  <2>2. (rx_first' + j) % BufferSize = (rx_first + len + j) % BufferSize
    BY <1>3, <2>1
  <2> HIDE DEF j
  <2> QED
    BY <1>2, <2>1, <2>2 DEF Cell
<1>6. Consistent => Consistent'
  BY <1>2, <1>4 DEF Consistent
<1> QED
  BY <1>2, <1>5, <1>6

-----------------------------------------------------------------------------
(* InPlace and InStreamOrder with the cells named: what there is to read,  *)
(* each byte with its place in the stream.                                 *)
Placed == ~overrun => \A i \in 1 .. rx_held : Cell(i) \in {Due(i), Junk}
Numbered == faults = 0 => ~overrun /\ \A i \in 1 .. rx_held : Cell(i) = Due(i)

LEMMA CellsInStream ==
  ASSUME TypeOK PROVE (Placed => InPlace) /\ (Numbered => InStreamOrder)
BY DEF Placed, Numbered, InPlace, InStreamOrder, Contents, Cell

(* Neither is inductive without the indices: a packet goes where rx_last   *)
(* is, and that this is behind what is held is Consistent.                 *)
RingInv == Consistent /\ Placed /\ Numbered

LEMMA RingInitially == Init => RingInv
<1>1. BufferSize \in Nat \ {0}
  BY RingAssumption DEF RingAssumption
<1>2. (0 + 0) % BufferSize = 0
  BY <1>1, ModSmall
<1> QED
  BY <1>1, <1>2 DEF Init, RingInv, Consistent, Placed, Numbered

(* The bytes due after a packet: those due before, and the packet.         *)
LEMMA DueAfter ==
  ASSUME TypeOK, NEW size \in Nat, rx_held' = rx_held + size, next' = After(next, size)
  PROVE  /\ \A i \in 1 .. rx_held : Due(i)' = Due(i)
         /\ \A i \in rx_held + 1 .. rx_held + size : Due(i)' = After(next, i - rx_held - 1)
<1>0. /\ Cycle \in Nat /\ rx_held \in Nat /\ next \in Int
  BY RingAssumption DEF RingAssumption, TypeOK, Item
<1>1. ASSUME NEW x \in Int PROVE After(next', x) = After(next, size + x)
  BY <1>0, AfterAfter, RingCycle
<1>2. ASSUME NEW i \in 1 .. rx_held PROVE Due(i)' = Due(i)
  <2> DEFINE x == Cycle - rx_held' + i - 1
  <2>1. x \in Int /\ size + x = Cycle - rx_held + i - 1
    BY <1>0
  <2>2. After(next', x) = After(next, size + x)
    BY <1>1, <2>1
  <2> QED
    BY <2>1, <2>2 DEF Due
<1>3. ASSUME NEW i \in rx_held + 1 .. rx_held + size
      PROVE  Due(i)' = After(next, i - rx_held - 1)
  <2> DEFINE x == Cycle - rx_held' + i - 1
             y == i - rx_held - 1
  <2>1. x \in Int /\ y \in Int /\ size + x = Cycle + y
    BY <1>0
  <2> HIDE DEF x, y
  <2>2. After(next', x) = After(next, Cycle + y)
    BY <1>1, <2>1
  <2>3. After(next, Cycle + y) = After(next, y)
    BY <1>0, <2>1, AfterTurn, RingCycle
  <2> QED
    BY <2>2, <2>3 DEF x, y, Due
<1> QED
  BY <1>2, <1>3

LEMMA RingStep == ASSUME TypeOK, RingInv, [Next]_vars PROVE RingInv'
<1>0. /\ rx_held \in Nat /\ faults \in Nat
  BY DEF TypeOK
<1>1. ASSUME NEW size \in 0 .. MaxLength, Receive(size) PROVE RingInv'
  <2>1. /\ size \in Nat /\ next' = After(next, size)
        /\ overrun' = (overrun \/ Overruns(size))
        /\ faults' = 0 => faults = 0 /\ ~Harms(size)
        /\ Overruns(size) => Harms(size)
    BY <1>0, <1>1, RingAssumption DEF RingAssumption, Receive, Harms
  <2>2. CASE overrun'
    BY <2>1, <2>2 DEF RingInv, Consistent, Placed, Numbered
  <2>3. CASE ~overrun'
    <3>1. ~overrun /\ ~Overruns(size) /\ Consistent
      BY <2>1, <2>3 DEF RingInv
    <3>2. /\ rx_held' = rx_held + size /\ Consistent'
          /\ \A i \in 1 .. rx_held : Cell(i)' \in {Cell(i), Junk}
          /\ \A i \in rx_held + 1 .. rx_held + size :
               Cell(i)' \in {After(next, i - rx_held - 1), Junk}
          /\ ~Harms(size) =>
               /\ \A i \in 1 .. rx_held : Cell(i)' = Cell(i)
               /\ \A i \in rx_held + 1 .. rx_held + size :
                    Cell(i)' = After(next, i - rx_held - 1)
      BY <1>1, <3>1, Appended
    <3>3. /\ \A i \in 1 .. rx_held : Due(i)' = Due(i)
          /\ \A i \in rx_held + 1 .. rx_held + size : Due(i)' = After(next, i - rx_held - 1)
      BY <2>1, <3>2, DueAfter
    <3>4. \A i \in 1 .. rx_held' : i \in 1 .. rx_held \/ i \in rx_held + 1 .. rx_held + size
      BY <1>0, <2>1, <3>2
    <3>5. ASSUME NEW i \in 1 .. rx_held' PROVE Cell(i)' \in {Due(i)', Junk}
      BY <3>1, <3>2, <3>3, <3>4 DEF RingInv, Placed
    <3>6. ASSUME faults' = 0, NEW i \in 1 .. rx_held' PROVE Cell(i)' = Due(i)'
      BY <2>1, <3>2, <3>3, <3>4, <3>6 DEF RingInv, Numbered
    <3> QED
      BY <2>3, <3>2, <3>5, <3>6 DEF RingInv, Placed, Numbered
  <2> QED
    BY <2>2, <2>3
<1>2. ASSUME NEW len \in 1 .. MaxRead, len <= rx_held, Take(len) PROVE RingInv'
  <2>1. /\ len \in Nat /\ rx_held' = rx_held - len /\ Consistent' /\ next' = next
        /\ overrun' = overrun /\ faults' = faults
    BY <1>2, Removed, RingAssumption DEF RingAssumption, Take, RingInv
  <2>2. ASSUME NEW i \in 1 .. rx_held'
        PROVE  i + len \in 1 .. rx_held /\ Cell(i)' = Cell(i + len) /\ Due(i)' = Due(i + len)
    <3>1. /\ i + len \in 1 .. rx_held
          /\ Cycle - rx_held + (i + len) - 1 = Cycle - rx_held' + i - 1
      BY <1>0, <2>1, RingCycle
    <3>2. Cell(i)' = Cell(i + len)
      BY <1>2, Removed
    <3> QED
      BY <2>1, <3>1, <3>2 DEF Due
  <2> QED
    BY <2>1, <2>2 DEF RingInv, Placed, Numbered
<1>3. CASE UNCHANGED vars
  BY <1>3 DEF vars, RingInv, Consistent, Placed, Numbered, Cell, Due
<1>4. ASSUME NEW len \in 1 .. MaxRead, ReadNoBlock(len) PROVE RingInv'
  BY <1>0, <1>2, <1>4, RingAssumption DEF ReadNoBlock, RingAssumption
<1> QED
  BY <1>1, <1>2, <1>3, <1>4 DEF Next, ReadBlock

(* The indices and the counter agree, and each byte left to read is in its *)
(* place or spoilt, until a packet comes that there is no room for; until  *)
(* one comes that the ring does not bear, what is left to read is the      *)
(* newest part of the stream, in order.                                    *)
THEOREM StreamOrder == Spec => [](Consistent /\ InPlace /\ InStreamOrder)
<1>1. Init => RingInv
  BY RingInitially
<1>2. TypeOK /\ RingInv /\ [Next]_vars => RingInv'
  BY RingStep
<1>3. TypeOK /\ RingInv => Consistent /\ InPlace /\ InStreamOrder
  BY CellsInStream DEF RingInv
<1> QED
  BY <1>1, <1>2, <1>3, RingTyping, PTL DEF Spec

(* In particular rx_first, rx_last and rx_held agree, though separate      *)
(* statements of two functions move them.                                  *)
THEOREM IndicesAgree == Spec => []Consistent
BY StreamOrder, PTL

(* No byte is moved or takes the place of another, whatever lengths the    *)
(* packets claim.                                                          *)
THEOREM BytesInPlace == Spec => []InPlace
BY StreamOrder, PTL

-----------------------------------------------------------------------------
(* Contents is the sequence of the cells that hold something.              *)
CellsHeld ==
  /\ Contents \in Seq(Byte) /\ Len(Contents) = rx_held
  /\ rx_held \in Nat
  /\ \A i \in 1 .. rx_held : Contents[i] = Cell(i)

(* Contents and Cell are two readings of one ring: what is shown of cells, *)
(* one at a time, holds of the sequence.                                   *)
LEMMA ContentsAreCells == TypeOK => CellsHeld
<1> SUFFICES ASSUME TypeOK PROVE CellsHeld
  OBVIOUS
<1>1. BufferSize \in Nat \ {0} /\ rx_held \in Nat /\ rx_first \in Int
  BY RingAssumption DEF RingAssumption, TypeOK, Slot
<1>2. ASSUME NEW i \in 1 .. rx_held PROVE Cell(i) \in Byte
  <2>1. rx_first + i - 1 \in Int
    BY <1>1
  <2>2. (rx_first + i - 1) % BufferSize \in Slot
    BY <1>1, <2>1, ModRange DEF Slot
  <2> QED
    BY <2>2 DEF Cell, TypeOK
<1>3. Contents = [i \in 1 .. rx_held |-> Cell(i)]
  BY DEF Contents, Cell
<1> QED
  BY <1>1, <1>2, <1>3 DEF CellsHeld

(* Until a packet comes that the ring does not bear, every step is a step  *)
(* of the queue that flex_usb.h describes: what arrives goes behind what is *)
(* held, and a read returns the oldest bytes.                              *)
THEOREM RingIsAQueue == Spec => QueueUntilFault
<1>2. TypeOK' => CellsHeld'
  BY ContentsAreCells, PTL
<1>3. ASSUME TypeOK, TypeOK', Consistent, ~overrun, faults' = 0, [Next]_vars
      PROVE  [Promise!Next]_(Promise!vars)
  <2>1. CellsHeld /\ CellsHeld'
    BY <1>2, <1>3, ContentsAreCells
  <2>2. ASSUME NEW size \in 0 .. MaxLength, Receive(size)
        PROVE  [Promise!Next]_(Promise!vars)
    <3> DEFINE message == [i \in 1 .. size |-> After(next, i - 1)]
    <3>1. /\ size \in Nat /\ rx_held \in Nat /\ rx_held + size <= BufferSize
          /\ BufferSize \in Nat /\ PayloadSize \in Nat /\ next \in Int
          /\ ~Harms(size) /\ ~Overruns(size) /\ size <= PayloadSize
      <4>1. /\ size \in Nat /\ rx_held \in Nat /\ BufferSize \in Nat /\ PayloadSize \in Nat
            /\ next \in Int /\ faults \in Nat
        BY <1>3, RingAssumption DEF RingAssumption, TypeOK, Item
      <4>2. ~Harms(size)
        BY <1>3, <2>2, <4>1 DEF Receive
      <4> QED
        BY <4>1, <4>2 DEF Harms, Overruns
    <3>2. message \in [1 .. size -> Byte]
      BY <3>1, AfterType, RingCycle DEF Byte, Item
    <3>3. /\ message \in Seq(Byte) /\ Len(message) = size
          /\ \A i \in 1 .. size : message[i] = After(next, i - 1)
      BY <3>1, <3>2
    <3> HIDE DEF message
    <3>4. /\ rx_held' = rx_held + size
          /\ \A i \in 1 .. rx_held : Cell(i)' = Cell(i)
          /\ \A i \in rx_held + 1 .. rx_held + size :
               Cell(i)' = After(next, i - rx_held - 1)
      BY <1>3, <2>2, <3>1, Appended
    <3>5. /\ \A i \in 1 .. rx_held : Contents'[i] = Contents[i]
          /\ \A i \in rx_held + 1 .. rx_held + size : Contents'[i] = message[i - rx_held]
      <4>1. \A i \in 1 .. rx_held + size : Contents'[i] = Cell(i)'
        BY <2>1, <3>4 DEF CellsHeld
      <4>2. /\ \A i \in 1 .. rx_held : Contents[i] = Cell(i) /\ i \in 1 .. rx_held + size
            /\ \A i \in rx_held + 1 .. rx_held + size :
                 i - rx_held \in 1 .. size /\ i \in 1 .. rx_held + size
        BY <2>1, <3>1 DEF CellsHeld
      <4>3. \A i \in rx_held + 1 .. rx_held + size : message[i - rx_held] = After(next, i - rx_held - 1)
        BY <3>3, <4>2
      <4> HIDE DEF CellsHeld
      <4> QED
        BY <3>4, <4>1, <4>2, <4>3
    <3>6. Contents' = Contents \o message
      <4>1. /\ Contents \in Seq(Byte) /\ Contents' \in Seq(Byte) /\ message \in Seq(Byte)
            /\ Len(Contents) = rx_held /\ Len(message) = size /\ Len(Contents') = rx_held + size
        BY <2>1, <3>3, <3>4 DEF CellsHeld
      <4> QED
        BY <3>5, <4>1, IsConcat
    <3>7. Len(Contents') <= BufferSize
      BY <2>1, <3>1, <3>4 DEF CellsHeld
    <3>8. CASE size = 0
      <4>1. Contents' = Contents
        BY <2>1, <3>1, <3>3, <3>4, <3>5, <3>8, SeqEqual DEF CellsHeld
      <4> QED
        BY <2>2, <4>1 DEF Promise!vars, Receive
    <3>9. CASE size # 0
      <4>1. Promise!Put(message)
        BY <2>2, <3>6, <3>7 DEF Promise!Put, Promise!Newest, Receive
      <4>2. size \in 1 .. PayloadSize
        BY <3>1, <3>9
      <4> QED
        BY <3>2, <4>1, <4>2 DEF Promise!Next
    <3> QED
      BY <3>8, <3>9
  <2>3. ASSUME NEW len \in 1 .. MaxRead, len <= rx_held, Take(len)
        PROVE  Promise!Next
    <3>1. /\ len \in Nat /\ len \in 1 .. BufferSize
      BY <2>3, RingAssumption DEF RingAssumption
    <3>2. /\ rx_held' = rx_held - len
          /\ \A i \in Int : Cell(i)' = Cell(i + len)
      BY <1>3, <2>3, Removed
    <3>3. ASSUME NEW i \in 1 .. rx_held - len
          PROVE  Contents'[i] = Contents[i + len]
      <4>0. rx_held \in Nat
        BY <2>1 DEF CellsHeld
      <4>1. i + len \in 1 .. rx_held /\ i \in 1 .. rx_held'
        BY <3>1, <3>2, <4>0
      <4>2. Contents'[i] = Cell(i)' /\ Contents[i + len] = Cell(i + len)
        BY <2>1, <4>1 DEF CellsHeld
      <4> QED
        BY <3>2, <4>2
    <3>4. Contents' = SubSeq(Contents, len + 1, Len(Contents))
      BY <2>1, <2>3, <3>1, <3>2, <3>3, IsSuffix DEF CellsHeld
    <3>5. SubSeq(stored', 1, ret') = SubSeq(Contents, 1, len)
      <4>1. PICK n \in {len, len + 1} : stored' = [i \in 1 .. n |-> Cell(i)]
        BY <2>3, Zenon DEF Take, Cell
      <4>2. /\ stored' \in Seq(Byte) /\ Len(stored') = n /\ ret' = len
            /\ \A i \in 1 .. len : stored'[i] = Cell(i)
        BY <1>3, <2>3, <3>1, <4>1 DEF Take, TypeOK
      <4> QED
        BY <2>1, <2>3, <3>1, <4>2 DEF CellsHeld
    <3>6. Promise!Get(len)
      BY <2>1, <2>3, <3>4, <3>5 DEF Promise!Get, CellsHeld
    <3> QED
      BY <3>1, <3>6 DEF Promise!Next
  <2>4. ASSUME NEW len \in 1 .. MaxRead, ReadNoBlock(len) PROVE Promise!Next
    BY <1>3, <2>3, <2>4, RingAssumption DEF ReadNoBlock, RingAssumption, TypeOK
  <2>5. CASE UNCHANGED vars
    BY <2>5 DEF vars, Promise!vars, Contents
  <2> QED
    BY <1>3, <2>2, <2>3, <2>4, <2>5 DEF Next, ReadBlock
<1>4. Spec => []RingInv
  <2>1. Init => RingInv
    BY RingInitially
  <2>2. TypeOK /\ RingInv /\ [Next]_vars => RingInv'
    BY RingStep
  <2> QED
    BY <2>1, <2>2, RingTyping, PTL DEF Spec
<1>5. TypeOK /\ TypeOK' /\ RingInv /\ RingInv' /\ [Next]_vars
        => (faults' = 0 => [Promise!Next]_(Promise!vars))
  <2> SUFFICES ASSUME TypeOK, TypeOK', RingInv, RingInv', [Next]_vars, faults' = 0
               PROVE  [Promise!Next]_(Promise!vars)
    OBVIOUS
  <2>1. faults = 0
    BY RingAssumption DEF TypeOK, Next, Receive, ReadBlock, ReadNoBlock, Take, vars
  <2> QED
    BY <1>3, <2>1 DEF RingInv, Numbered
<1> QED
  BY <1>4, <1>5, RingTyping, PTL DEF Spec, QueueUntilFault
=============================================================================
