----------------------------- MODULE StreamParser -----------------------------
(***************************************************************************)
(* StreamParserEncoder.cs: packets of the serial line of an Easylab board. *)
(* A packet is the byte Start, two floats and the exclusive or of their    *)
(* bytes.  ParseBytes takes the stream in whatever chunks the port hands   *)
(* over and keeps the bytes that are too few for a packet; EncodeBytes     *)
(* makes a packet of the beginning of every 60 bytes of a UDP datagram.    *)
(***************************************************************************)
EXTENDS Integers, Sequences, FiniteSets

CONSTANTS
  Byte,       \* the values of a byte; 0 is one of them
  Start,      \* 0xAA
  Xor(_, _),  \* the exclusive or of two bytes
  FLOATS      \* 2 * sizeof(float)

ASSUME StreamParserAssumption ==
  /\ Byte \subseteq Nat /\ {0, Start} \subseteq Byte
  /\ \A a, b \in Byte : Xor(a, b) \in Byte /\ (Xor(a, b) = a <=> b = 0)
  /\ FLOATS \in Nat \ {0}

EASYLAB_PACKET_SIZE == FLOATS + 2

Crc(bytes) ==
  LET upTo[i \in 0 .. Len(bytes)] ==
        IF i = 0 THEN 0 ELSE Xor(upTo[i - 1], bytes[i])
  IN  upTo[Len(bytes)]

(* A packet starts at index i of the buffer.                               *)
ValidPacket(buffer, i) ==
  /\ buffer[i] = Start
  /\ Crc(SubSeq(buffer, i + 1, i + FLOATS)) = buffer[i + FLOATS + 1]

(* The scan from index i on: the floats of the packets, and the index of   *)
(* the bytes that remain.  A byte that starts no packet is skipped alone.  *)
Scan(buffer) ==
  LET from[i \in 1 .. Len(buffer) + 1] ==
        IF Len(buffer) - i + 1 < EASYLAB_PACKET_SIZE
        THEN [floats |-> <<>>, rest |-> i]
        ELSE IF ~ValidPacket(buffer, i)
        THEN from[i + 1]
        ELSE LET later == from[i + EASYLAB_PACKET_SIZE]
             IN  [floats |-> <<SubSeq(buffer, i + 1, i + FLOATS)>> \o later.floats,
                  rest   |-> later.rest]
  IN  from[1]

ParseBytes_kept(remaining, bytes) ==                                 \* mutant
  LET scan == Scan(remaining \o bytes)
  IN  [floats |-> scan.floats, remaining |-> SubSeq(bytes, scan.rest, Len(bytes))]

(* ParseBytes, with what remained of the last call.                        *)
ParseBytes(remaining, bytes) ==
  LET buffer == remaining \o bytes
      scan   == Scan(buffer)
  IN  [floats |-> scan.floats, remaining |-> SubSeq(buffer, scan.rest, Len(buffer))]

EncodeChunk_eight(chunk) ==                                          \* mutant
  <<Start>> \o SubSeq(chunk, 1, FLOATS) \o <<Crc(SubSeq(chunk, 1, FLOATS))>>

(* EncodeBytes for one chunk of UDP_PACKET_SIZE bytes, of which it reads   *)
(* FLOATS + 1: the loop that copies byte j - 1 takes byte j into the       *)
(* checksum, which byte 0 has started.                                     *)
EncodeChunk(chunk) ==
  <<Start>> \o SubSeq(chunk, 1, FLOATS) \o <<Crc(SubSeq(chunk, 1, FLOATS + 1))>>

EncodeBytes(datagram) == [i \in DOMAIN datagram |-> EncodeChunk(datagram[i])]

-----------------------------------------------------------------------------
(* What a stream says, without an order of reading it: a packet counts     *)
(* unless it overlaps an earlier one that does.                            *)
PacketStarts(stream) ==
  LET counts[i \in 1 - FLOATS - 1 .. Len(stream)] ==
        /\ i >= 1 /\ i + FLOATS + 1 <= Len(stream)
        /\ ValidPacket(stream, i)
        /\ \A j \in i - FLOATS - 1 .. i - 1 : j < 1 \/ ~counts[j]
  IN  {i \in 1 .. Len(stream) : counts[i]}

(* The floats of the packets that count are ps, one by one in order.       *)
Says(stream, ps) ==
  LET starts == PacketStarts(stream)
      place(i) == Cardinality({k \in starts : k <= i})
  IN  /\ Len(ps) = place(Len(stream))
      /\ \A i \in starts : ps[place(i)] = SubSeq(stream, i + 1, i + FLOATS)
=============================================================================
