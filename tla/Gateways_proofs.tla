---------------------------- MODULE Gateways_proofs ----------------------------
(***************************************************************************)
(* Proofs about the two gateways between a board and UDP: that of          *)
(* app_flex_scicos.c (UdpGateway), for any number of channels, packets and *)
(* datagrams and any room in the ring and the socket, and the form         *)
(* EasylabSerialUDPGateway.cs (SerialUdpGateway), for any bytes, any size  *)
(* of a packet, any stream of the board and any datagrams.                 *)
(***************************************************************************)
EXTENDS UdpGateway, SerialUdpGateway, SequenceTheorems, FiniteSetTheorems, TLAPS

Lemmas == INSTANCE Modular WITH Cycle <- 1

USE DEF counters, sending, reading, usb, data, peer, Values

-----------------------------------------------------------------------------
(* The counter of a round follows the loop.                                *)
LEMMA RoundWraps ==
  ASSUME NEW n \in Nat \ {0}, NEW k \in 0 .. n - 1
  PROVE  (k + 1) % n = IF k = n - 1 THEN 0 ELSE k + 1
<1>1. CASE k = n - 1
  BY <1>1
<1>2. CASE k < n - 1
  BY <1>2
<1> QED
  BY <1>1, <1>2

(* A vector with one value everywhere is a vector of values.               *)
LEMMA FilledType ==
  ASSUME NEW v \in Nat
  PROVE  Filled(v) \in Values
BY DEF Filled

(* What a queue of numbers holds after an insertion or a removal.          *)
LEMMA QueueType ==
  ASSUME NEW s \in Seq(Nat)
  PROVE  /\ \A n \in Nat : Append(s, n) \in Seq(Nat)
         /\ s # <<>> => Head(s) \in Nat /\ Tail(s) \in Seq(Nat)
OBVIOUS

(* What a read may return is a vector of values.                           *)
LEMMA NextPacketType ==
  ASSUME boardSent \in Nat, held \in Seq(Nat), held # <<>>
  PROVE  NextPacket \subseteq Values
<1>1. [Channel -> 0 .. boardSent] \subseteq Values
  <2>1. 0 .. boardSent \subseteq Nat
    OBVIOUS
  <2> QED
    BY <2>1, Zenon
<1>2. Filled(Head(held)) \in Values
  BY FilledType
<1> QED
  BY <1>1, <1>2 DEF NextPacket

(* The counter of a loop over the channels stays in its range.             *)
LEMMA LoopType ==
  ASSUME i \in Channel, NEW here, NEW there, Loop(here, there)
  PROVE  i' \in Channel /\ pc' \in {here, there}
BY ChannelsAssumption DEF Loop, Channel

(* The variables of the gateway keep their types, and a session is open as *)
(* long as the rounds go on.                                               *)
THEOREM GatewayTyping == Spec => []TypeOK
<1> USE ChannelsAssumption, GatewayAssumption
<1>1. Init => TypeOK
  <2> SUFFICES ASSUME Init PROVE TypeOK
    OBVIOUS
  <2>1. 0 \in Channel /\ Filled(0) \in Values /\ <<>> \in Seq(Nat)
    BY FilledType DEF Channel
  <2>2. ScicosTypeOK
    BY <2>1 DEF Init, ScicosInit, ScicosTypeOK
  <2> QED
    BY <2>1, <2>2 DEF Init, TypeOK, InRounds
<1>2. TypeOK /\ [Next]_vars => TypeOK'
  <2> SUFFICES ASSUME TypeOK, [Next]_vars PROVE TypeOK'
    OBVIOUS
  <2>0. /\ held \in Seq(Nat) /\ socket \in Seq(Nat)
        /\ boardSent \in Nat /\ scicosSent \in Nat
        /\ read_block_number \in Nat /\ write_block_number \in Nat
        /\ data_receiver \in Values /\ i \in Channel
        /\ expected_write \in Nat
    BY DEF TypeOK, ScicosTypeOK
  <2>20. /\ boardSent + 1 \in Nat /\ scicosSent + 1 \in Nat
         /\ read_block_number + 1 \in Nat /\ read_block_number + 0 \in Nat
         /\ write_block_number + 1 - 1 \in Nat /\ write_block_number + 1 - 0 \in Nat
         /\ expected_write + 1 \in Nat /\ 0 \in Nat
    BY <2>0
  <2> USE DEF TypeOK, ScicosTypeOK, InRounds
  <2>1. CASE InitReadBlock
    <3>1. i' \in Channel /\ pc' \in {"rx blocks", "tx blocks"}
      BY <2>0, <2>1, LoopType DEF InitReadBlock
    <3>2. read_block_number' \in Nat /\ write_block_number' \in Nat
      BY <2>0, <2>1, <2>20, Zenon DEF InitReadBlock, flex_usbscicos_init
    <3> QED
      BY <2>1, <3>1, <3>2 DEF InitReadBlock, flex_usbscicos_init
  <2>2. CASE InitWriteBlock
    <3>1. i' \in Channel /\ pc' \in {"tx blocks", IF is_initialized' THEN "read" ELSE "ended"}
      BY <2>2, LoopType DEF InitWriteBlock
    <3>2. read_block_number' \in Nat /\ write_block_number' \in Nat
      BY <2>0, <2>2, <2>20, Zenon DEF InitWriteBlock, flex_usbscicos_init
    <3> QED
      BY <2>2, <3>1, <3>2 DEF InitWriteBlock, flex_usbscicos_init
  <2>3. CASE Read
    <3>1. expected_read' \in Nat
      BY <2>3 DEF Read, flex_usbscicos_read
    <3>2. rx_buffer_scicos' \in Values /\ held' \in Seq(Nat)
      <4>1. held # <<>> => Tail(held) \in Seq(Nat)
        BY <2>0, QueueType
      <4>2. held # <<>> => NextPacket \subseteq Values
        BY <2>0, NextPacketType
      <4> QED
        BY <2>3, <4>1, <4>2 DEF Read, flex_usbscicos_read
    <3>3. ValueRead(i) \in Nat
      BY <3>2 DEF ValueRead
    <3>4. data_sender' \in Values
      BY <2>3, <3>3 DEF Read
    <3>5. i' \in Channel /\ pc' \in {"read", "send"}
      BY <2>3, LoopType DEF Read
    <3>6. overrun' \in BOOLEAN /\ boardSent' \in Nat
      BY <2>3 DEF Read, flex_usbscicos_read
    <3> QED
      BY <2>3, <3>1, <3>2, <3>4, <3>5, <3>6 DEF Read
  <2>4. CASE Trap \/ send_udp_data
    BY <2>4 DEF Trap, send_udp_data
  <2>5. CASE receive_udp_data
    <3>1. socket # <<>> => Filled(Head(socket)) \in Values /\ Tail(socket) \in Seq(Nat)
      BY <2>0, QueueType, FilledType
    <3> QED
      BY <2>5, <3>1 DEF receive_udp_data
  <2>6. CASE Write
    <3>1. /\ tx_buffer_scicos' \in Values /\ written' \in Values
          /\ expected_write' \in Nat
      <4>1. data_receiver[i] \in Nat
        BY <2>0
      <4>2. [tx_buffer_scicos EXCEPT ![i] = data_receiver[i]] \in Values
        BY <4>1
      <4>3. expected_write' \in {0, expected_write + 1, expected_write}
        BY <2>6 DEF Write, flex_usbscicos_write
      <4> QED
        BY <2>6, <2>20, <4>2, <4>3 DEF Write, flex_usbscicos_write
    <3>2. i' \in Channel /\ pc' \in {"usb write", "write", "read"}
      BY <2>6, LoopType DEF Write
    <3> QED
      BY <2>6, <3>1, <3>2 DEF Write
  <2>7. CASE UsbWriteLock
    BY <2>7 DEF UsbWriteLock
  <2>8. CASE UsbWriteDone
    BY <2>8, LoopType DEF UsbWriteDone
  <2>9. CASE Interrupt \/ CloseLock
    BY <2>9 DEF Interrupt, CloseLock
  <2>13. CASE CloseDone
    <3>1. write_block_number' \in Nat
      BY <2>0, <2>13, <2>20, Zenon DEF CloseDone, flex_usbscicos_close
    <3> QED
      BY <2>13, <3>1 DEF CloseDone, flex_usbscicos_close
  <2>10. CASE PollStart
    BY <2>10 DEF PollStart
  <2>14. CASE PollEnd
    <3>1. boardSent' \in Nat
      BY <2>0, <2>14, <2>20, Zenon DEF PollEnd
    <3>2. held' \in Seq(Nat)
      BY <2>0, <2>14, <3>1, QueueType DEF PollEnd
    <3>3. overrun' \in BOOLEAN
      BY <2>0, <2>14 DEF PollEnd
    <3> QED
      BY <2>14, <3>1, <3>2, <3>3 DEF PollEnd
  <2>11. CASE Datagram
    <3>1. scicosSent' \in Nat
      BY <2>11, <2>20, Zenon DEF Datagram
    <3>2. socket' \in Seq(Nat)
      BY <2>0, <2>11, <3>1, QueueType DEF Datagram
    <3> QED
      BY <2>11, <3>1, <3>2 DEF Datagram
  <2>12. CASE UNCHANGED vars
    BY <2>12 DEF vars
  <2> QED
    BY <2>1, <2>2, <2>3, <2>4, <2>5, <2>6, <2>7, <2>8, <2>9, <2>10, <2>11, <2>12,
       <2>13, <2>14
       DEF Next, Main
<1> QED
  BY <1>1, <1>2, PTL DEF Spec

-----------------------------------------------------------------------------
(* Until one has found the ring full, the packets held follow the one in   *)
(* rx_buffer_scicos without a gap.                                         *)
Following ==
  ~overrun =>
    /\ boardSent = rx_buffer_scicos[0] + Len(held)
    /\ \A k \in 1 .. Len(held) : held[k] = rx_buffer_scicos[0] + k

(* What was sent last is then one packet, and what was read last is the    *)
(* same one or the next one.                                               *)
NextUp ==
  ~overrun => /\ rx_buffer_scicos = Filled(rx_buffer_scicos[0]) /\ up = Filled(up[0])
              /\ rx_buffer_scicos[0] = up[0] \/ rx_buffer_scicos[0] = up[0] + 1

(* What has been collected so far in a round is what was read last.        *)
Collected ==
  /\ pc \in {"rx blocks", "tx blocks"} => NextUp /\ expected_read = 0 /\ up = rx_buffer_scicos
  /\ AllCounted /\ pc = "read" =>
       /\ expected_read = i /\ NextUp
       /\ i = 0 => up = rx_buffer_scicos
       /\ \A c \in Channel : c < i => data_sender[c] = rx_buffer_scicos[c]
  /\ AllCounted /\ pc = "send" =>
       NextUp /\ expected_read = 0 /\ data_sender = rx_buffer_scicos
  /\ AllCounted /\ pc \in {"receive", "write", "usb write"} =>
       NextUp /\ expected_read = 0 /\ up = rx_buffer_scicos

(* Every element of a vector with one value is that value.                 *)
LEMMA FilledAt ==
  ASSUME NEW v, NEW c \in Channel
  PROVE  Filled(v)[c] = v
BY DEF Filled

(* No step disturbs the order of the packets that are held.                *)
LEMMA FollowingStep ==
  ASSUME rx_buffer_scicos \in Values, held \in Seq(Nat), boardSent \in Nat,
         0 \in Channel, Following, [Next]_vars
  PROVE  Following'
<1> SUFFICES ASSUME ~overrun'
             PROVE  /\ boardSent' = rx_buffer_scicos'[0] + Len(held')
                    /\ \A k \in 1 .. Len(held') : held'[k] = rx_buffer_scicos'[0] + k
  BY DEF Following
<1> DEFINE n == rx_buffer_scicos[0]
<1>9. ~overrun
  BY DEF Next, Main, vars, InitReadBlock, InitWriteBlock, Read, flex_usbscicos_read, Trap,
         send_udp_data, receive_udp_data, Write, UsbWriteLock, UsbWriteDone, Interrupt,
         CloseLock, CloseDone, PollStart, PollEnd, Datagram
<1>0. n \in Nat /\ boardSent = n + Len(held) /\ \A k \in 1 .. Len(held) : held[k] = n + k
  BY <1>9 DEF Following
<1>1. CASE Read
  <2>0. boardSent' = boardSent
    BY <1>1 DEF Read, flex_usbscicos_read
  <2>1. CASE UNCHANGED <<rx_buffer_scicos, held>>
    BY <1>0, <2>0, <2>1
  <2>2. CASE held # <<>> /\ rx_buffer_scicos' = Filled(Head(held)) /\ held' = Tail(held)
    <3>1. Len(held) > 0 /\ Head(held) = held[1]
      BY <2>2
    <3>2. rx_buffer_scicos'[0] = n + 1
      BY <1>0, <2>2, <3>1, FilledAt
    <3>3. Len(held') = Len(held) - 1 /\ \A k \in 1 .. Len(held') : held'[k] = held[k + 1]
      BY <2>2
    <3>5. rx_buffer_scicos'[0] + Len(held') = boardSent'
      BY <1>0, <2>0, <3>2, <3>3
    <3>6. \A k \in 1 .. Len(held') : held'[k] = rx_buffer_scicos'[0] + k
      BY <1>0, <3>2, <3>3
    <3> QED
      BY <3>5, <3>6
  <2> QED
    BY <1>1, <1>9, <2>1, <2>2 DEF Read, flex_usbscicos_read, NextPacket
<1>2. CASE PollEnd
  <2>1. CASE UNCHANGED <<boardSent, held>>
    BY <1>0, <1>2, <2>1 DEF PollEnd
  <2>2. CASE boardSent' = boardSent + 1 /\ held' = Append(held, boardSent')
    <3>1. Len(held') = Len(held) + 1
      BY <2>2
    <3>2. \A k \in 1 .. Len(held) : held'[k] = held[k]
      BY <2>2
    <3>3. held'[Len(held) + 1] = boardSent'
      BY <2>2
    <3>4. rx_buffer_scicos' = rx_buffer_scicos
      BY <1>2 DEF PollEnd
    <3>5. boardSent' = n + Len(held')
      BY <1>0, <2>2, <3>1
    <3>6. \A k \in 1 .. Len(held') : held'[k] = n + k
      <4> SUFFICES ASSUME NEW k \in 1 .. Len(held') PROVE held'[k] = n + k
        OBVIOUS
      <4>1. CASE k = Len(held) + 1
        BY <1>0, <2>2, <3>3, <4>1
      <4>2. CASE k \in 1 .. Len(held)
        BY <1>0, <3>2, <4>2
      <4> QED
        BY <3>1, <4>1, <4>2
    <3> QED
      BY <3>4, <3>5, <3>6
  <2> QED
    BY <1>2, <2>1, <2>2 DEF PollEnd
<1>3. CASE UNCHANGED <<rx_buffer_scicos, held, boardSent>>
  BY <1>0, <1>3
<1> QED
  BY <1>1, <1>2, <1>3
     DEF Next, Main, vars, InitReadBlock, InitWriteBlock, Trap, send_udp_data,
         receive_udp_data, Write, UsbWriteLock, UsbWriteDone, Interrupt, CloseLock,
         CloseDone, PollStart, Datagram

(* A round collects the elements of one packet, one call at a time.        *)
LEMMA CollectedStep ==
  ASSUME TypeOK, Following, Collected, [Next]_vars
  PROVE  Collected'
<1> USE ChannelsAssumption
<1>0. /\ 0 \in Channel /\ i \in Channel /\ Channel = 0 .. Channels - 1
      /\ rx_buffer_scicos \in Values /\ data_sender \in Values /\ held \in Seq(Nat)
      /\ up \in Values /\ rx_buffer_scicos[0] \in Nat /\ up[0] \in Nat
  <2>1. /\ i \in Channel /\ rx_buffer_scicos \in Values /\ data_sender \in Values
        /\ held \in Seq(Nat) /\ up \in Values
    BY DEF TypeOK, ScicosTypeOK
  <2>2. 0 \in Channel /\ Channel = 0 .. Channels - 1
    BY DEF Channel
  <2>3. \A f \in Values : f[0] \in Nat
    BY <2>2
  <2> QED
    BY <2>1, <2>2, <2>3
<1>10. InRounds => is_initialized
  BY DEF TypeOK
<1>1. CASE InitReadBlock
  BY <1>1 DEF InitReadBlock, Loop, Collected, NextUp
<1>2. CASE InitWriteBlock
  <2>1. expected_read = 0 /\ up = rx_buffer_scicos /\ NextUp
    BY <1>2 DEF InitWriteBlock, Collected
  <2>2. UNCHANGED <<expected_read, up, rx_buffer_scicos, data_sender, overrun>>
    BY <1>2 DEF InitWriteBlock
  <2>3. \/ pc' = "tx blocks" \/ pc' = "ended"
        \/ pc' = "read" /\ i' = 0
    BY <1>2 DEF InitWriteBlock, Loop
  <2>4. \A c \in Channel : ~(c < 0)
    BY <1>0
  <2> QED
    BY <2>1, <2>2, <2>3, <2>4 DEF Collected, NextUp
<1>3. CASE Read
  <2>0. pc = "read" /\ UNCHANGED <<counters, up>> /\ is_initialized
    BY <1>3, <1>10 DEF Read, InRounds
  <2>1. /\ overrun' = overrun
        /\ \/ UNCHANGED rx_buffer_scicos
           \/ /\ TakesPacket
              /\ ~overrun => /\ rx_buffer_scicos' = Filled(rx_buffer_scicos'[0])
                             /\ rx_buffer_scicos'[0] = rx_buffer_scicos[0] + 1
              /\ rx_buffer_scicos' \in Values
    <3>1. ASSUME held # <<>>, ~overrun
          PROVE  /\ NextPacket = {Filled(Head(held))}
                 /\ Filled(Head(held))[0] = rx_buffer_scicos[0] + 1
                 /\ Filled(Head(held)) = Filled(Filled(Head(held))[0])
      <4>1. Len(held) > 0 /\ Head(held) = held[1]
        BY <1>0, <3>1
      <4> QED
        BY <1>0, <3>1, <4>1, FilledAt DEF Following, NextPacket
    <3>2. ASSUME held # <<>> PROVE NextPacket \subseteq Values
      <4>1. held \in Seq(Nat) /\ boardSent \in Nat
        BY DEF TypeOK, ScicosTypeOK
      <4> QED
        BY <3>2, <4>1, NextPacketType
    <3> QED
      BY <1>3, <2>0, <3>1, <3>2 DEF Read, flex_usbscicos_read
  <2>3. pc' \in {"read", "send"}
    BY <1>3 DEF Read, Loop
  <2>4. CASE ~AllCounted
    BY <2>0, <2>3, <2>4 DEF Collected, AllCounted
  <2>5. CASE AllCounted
    <3>0. /\ expected_read = i /\ NextUp
          /\ i = 0 => up = rx_buffer_scicos
          /\ \A c \in Channel : c < i => data_sender[c] = rx_buffer_scicos[c]
      BY <2>0, <2>5 DEF Collected
    <3>1. i # 0 => rx_buffer_scicos' = rx_buffer_scicos
      BY <1>0, <2>1, <3>0 DEF TakesPacket
    <3>2. NextUp'
      <4>1. CASE i = 0
        BY <1>0, <2>0, <2>1, <3>0, <4>1 DEF NextUp
      <4>2. CASE i # 0
        BY <2>0, <2>1, <3>0, <3>1, <4>2 DEF NextUp
      <4> QED
        BY <4>1, <4>2
    <3>3. data_sender' = [data_sender EXCEPT ![i] = rx_buffer_scicos'[i]]
      BY <1>3, <2>0 DEF Read, ValueRead
    <3>4. \A c \in Channel : c < i + 1 => data_sender'[c] = rx_buffer_scicos'[c]
      <4> SUFFICES ASSUME NEW c \in Channel, c < i + 1
                   PROVE  data_sender'[c] = rx_buffer_scicos'[c]
        OBVIOUS
      <4>1. CASE c = i
        BY <1>0, <3>3, <4>1
      <4>2. CASE c < i
        <5>1. i # 0
          BY <1>0, <4>2
        <5>2. data_sender'[c] = data_sender[c]
          BY <1>0, <3>3, <4>2
        <5> QED
          BY <3>0, <3>1, <4>2, <5>1, <5>2
      <4> QED
        BY <1>0, <4>1, <4>2
    <3>5. expected_read' = IF i = Channels - 1 THEN 0 ELSE i + 1
      <4>1. expected_read' = (i + 1) % Channels
        BY <1>3, <2>0, <2>5, <3>0 DEF Read, flex_usbscicos_read, AllCounted
      <4> QED
        BY <1>0, <4>1, RoundWraps
    <3>6. CASE i = Channels - 1
      <4>1. rx_buffer_scicos' \in [Channel -> Nat]
        BY <1>0, <2>1
      <4>2. data_sender' \in [Channel -> Nat]
        BY <1>0, <3>3, <4>1
      <4>3. \A c \in Channel : c < i + 1
        BY <1>0, <3>6
      <4>4. data_sender' = rx_buffer_scicos'
        BY <3>4, <4>1, <4>2, <4>3
      <4>5. pc' = "send"
        BY <1>3, <3>6 DEF Read, Loop
      <4> QED
        BY <2>0, <3>2, <3>5, <3>6, <4>4, <4>5 DEF Collected
    <3>7. CASE i # Channels - 1
      <4>1. pc' = "read" /\ i' = i + 1 /\ i' # 0
        BY <1>0, <1>3, <3>7 DEF Read, Loop
      <4> QED
        BY <2>0, <3>2, <3>4, <3>5, <3>7, <4>1 DEF Collected
    <3> QED
      BY <3>6, <3>7
  <2> QED
    BY <2>4, <2>5
<1>4. CASE send_udp_data
  <2>1. /\ UNCHANGED <<counters, reading>> /\ up' = data_sender /\ pc = "send"
        /\ pc' = "receive"
    BY <1>4 DEF send_udp_data
  <2> QED
    BY <2>1 DEF Collected, AllCounted, NextUp
<1>5. CASE receive_udp_data
  BY <1>5 DEF receive_udp_data, Collected, AllCounted, NextUp
<1>6. CASE Write \/ UsbWriteDone
  <2>1. UNCHANGED <<counters, reading, up, data_sender>> /\ pc \in {"write", "usb write"}
    BY <1>6 DEF Write, UsbWriteDone
  <2>2. \/ pc' \in {"write", "usb write"}
        \/ pc' = "read" /\ i' = 0
    BY <1>6 DEF Write, UsbWriteDone, Loop
  <2>3. \A c \in Channel : ~(c < 0)
    BY <1>0
  <2>4. AllCounted => expected_read = 0 /\ up = rx_buffer_scicos /\ NextUp
    BY <2>1 DEF Collected
  <2> QED
    BY <2>1, <2>2, <2>3, <2>4 DEF Collected, AllCounted, NextUp
<1>7. CASE UsbWriteLock \/ PollStart \/ PollEnd \/ Datagram \/ UNCHANGED vars
  <2>1. UNCHANGED <<counters, expected_read, rx_buffer_scicos, data_sender, up, pc, i>>
    BY <1>7 DEF UsbWriteLock, PollStart, PollEnd, Datagram, vars
  <2>2. overrun => overrun'
    <3>1. CASE PollEnd
      BY <3>1 DEF PollEnd
    <3>2. CASE UsbWriteLock \/ PollStart \/ Datagram \/ UNCHANGED vars
      BY <3>2 DEF UsbWriteLock, PollStart, Datagram, vars, usb, reading
    <3> QED
      BY <1>7, <3>1, <3>2
  <2> QED
    BY <2>1, <2>2 DEF Collected, AllCounted, NextUp
<1>8. CASE Trap \/ Interrupt \/ CloseLock \/ CloseDone
  <2>1. pc' \in {"close", "closing", "ended"}
    BY <1>8 DEF Trap, Interrupt, CloseLock, CloseDone
  <2> QED
    BY <2>1 DEF Collected
<1> QED
  BY <1>1, <1>2, <1>3, <1>4, <1>5, <1>6, <1>7, <1>8 DEF Next, Main

(* PacketsUp: what goes to Scicos is what one read returned and, until a   *)
(* packet has found the ring full, every packet of the board in its turn,  *)
(* whole, if every block was counted.                                      *)
THEOREM PacketsInTurn == Spec => PacketsUp
<1>1. Init => Following /\ Collected
  <2> SUFFICES ASSUME Init PROVE Following /\ Collected
    OBVIOUS
  <2>1. 0 \in Channel
    BY ChannelsAssumption DEF Channel
  <2>2. Filled(0)[0] = 0
    BY <2>1, FilledAt
  <2>3. Following
    <3>1. held = <<>> /\ boardSent = 0 /\ rx_buffer_scicos = Filled(0)
      BY DEF Init, ScicosInit
    <3>2. Len(held) = 0
      BY <3>1
    <3> QED
      BY <2>2, <3>1, <3>2 DEF Following
  <2>4. Collected
    BY <2>2 DEF Init, ScicosInit, Collected, NextUp
  <2> QED
    BY <2>3, <2>4
<1>2. TypeOK /\ Following /\ Collected /\ [Next]_vars => Following' /\ Collected'
  <2> SUFFICES ASSUME TypeOK, Following, Collected, [Next]_vars
               PROVE  Following' /\ Collected'
    OBVIOUS
  <2>1. Following'
    <3>1. /\ rx_buffer_scicos \in Values /\ held \in Seq(Nat) /\ boardSent \in Nat
      BY DEF TypeOK, ScicosTypeOK
    <3>2. 0 \in Channel
      BY ChannelsAssumption DEF Channel
    <3> QED
      BY <3>1, <3>2, FollowingStep
  <2> QED
    BY <2>1, CollectedStep
<1>3. TypeOK /\ Collected /\ [Next]_vars =>
        [AllCounted /\ up' # up =>
           /\ up' = rx_buffer_scicos
           /\ ~overrun => Whole(up') /\ up'[0] = up[0] + 1]_vars
  <2> SUFFICES ASSUME TypeOK, Collected, [Next]_vars, AllCounted, up' # up
               PROVE  /\ up' = rx_buffer_scicos
                      /\ ~overrun => Whole(up') /\ up'[0] = up[0] + 1
    OBVIOUS
  <2>1. send_udp_data
    BY DEF Next, Main, vars, InitReadBlock, InitWriteBlock, Read, Trap, receive_udp_data,
           Write, UsbWriteLock, UsbWriteDone, Interrupt, CloseLock, CloseDone,
           PollStart, PollEnd, Datagram
  <2>2. up' = rx_buffer_scicos /\ NextUp
    BY <2>1 DEF send_udp_data, Collected
  <2>3. ASSUME ~overrun PROVE Whole(up') /\ up'[0] = up[0] + 1
    <3>1. /\ rx_buffer_scicos = Filled(rx_buffer_scicos[0]) /\ up = Filled(up[0])
          /\ rx_buffer_scicos[0] = up[0] + 1
      BY <2>2, <2>3 DEF NextUp
    <3>2. 0 \in Channel /\ \A c \in Channel : up'[c] = rx_buffer_scicos[0]
      BY <2>2, <3>1, FilledAt, ChannelsAssumption DEF Channel
    <3> QED
      BY <2>2, <3>1, <3>2 DEF Whole
  <2> QED
    BY <2>2, <2>3
<1> QED
  BY <1>1, <1>2, <1>3, GatewayTyping, PTL DEF Spec, PacketsUp

-----------------------------------------------------------------------------
(* What has been distributed so far in a round is the last datagram, and   *)
(* outside of the round it has been written.                               *)
Distributed ==
  /\ data_receiver = Filled(data_receiver[0])
  /\ pc \in {"rx blocks", "tx blocks"} => expected_write = 0 /\ written = data_receiver
  /\ AllCounted /\ pc \in {"read", "send", "receive"} =>
       expected_write = 0 /\ written = data_receiver
  /\ pc \in {"send", "receive"} => i = 0
  /\ AllCounted /\ pc = "write" =>
       /\ expected_write = i
       /\ \A c \in Channel : c < i => tx_buffer_scicos[c] = data_receiver[c]
  /\ AllCounted /\ pc = "usb write" =>
       expected_write = 0 /\ written = data_receiver /\ i = Channels - 1
(* A round writes the elements of one datagram, one call at a time.        *)
LEMMA DistributedStep ==
  ASSUME TypeOK, Distributed, [Next]_vars
  PROVE  Distributed'
<1> USE ChannelsAssumption
<1>0. /\ 0 \in Channel /\ i \in Channel /\ Channel = 0 .. Channels - 1
      /\ tx_buffer_scicos \in Values /\ data_receiver \in Values /\ socket \in Seq(Nat)
  <2>1. /\ i \in Channel /\ tx_buffer_scicos \in Values /\ data_receiver \in Values
        /\ socket \in Seq(Nat)
    BY DEF TypeOK, ScicosTypeOK
  <2>2. 0 \in Channel /\ Channel = 0 .. Channels - 1
    BY DEF Channel
  <2>3. \A f \in Values : f[0] \in Nat
    BY <2>2
  <2> QED
    BY <2>1, <2>2, <2>3
<1>10. InRounds => is_initialized
  BY DEF TypeOK
<1>1. CASE InitReadBlock
  BY <1>1 DEF InitReadBlock, Loop, Distributed
<1>2. CASE InitWriteBlock
  <2>1. expected_write = 0 /\ written = data_receiver
    BY <1>2 DEF InitWriteBlock, Distributed
  <2>2. UNCHANGED <<expected_write, written, data_receiver>>
    BY <1>2 DEF InitWriteBlock
  <2>3. pc' \in {"tx blocks", "ended", "read"}
    BY <1>2 DEF InitWriteBlock, Loop
  <2> QED
    BY <2>1, <2>2, <2>3 DEF Distributed
<1>3. CASE Read
  <2>1. UNCHANGED <<counters, sending, data_receiver>> /\ pc = "read"
    BY <1>3 DEF Read
  <2>2. pc' = "read" \/ (pc' = "send" /\ i' = 0)
    BY <1>3 DEF Read, Loop
  <2> QED
    BY <2>1, <2>2 DEF Distributed, AllCounted
<1>4. CASE send_udp_data
  BY <1>4 DEF send_udp_data, Distributed, AllCounted
<1>5. CASE receive_udp_data
  <2>1. /\ pc = "receive" /\ pc' = "write" /\ i = 0 /\ i' = 0
        /\ UNCHANGED <<counters, sending>>
    BY <1>5 DEF receive_udp_data, Distributed
  <2>2. data_receiver' = Filled(data_receiver'[0])
    BY <1>0, <1>5, FilledAt DEF receive_udp_data, Distributed
  <2>3. \A c \in Channel : ~(c < 0)
    BY <1>0
  <2> QED
    BY <2>1, <2>2, <2>3 DEF Distributed, AllCounted
<1>6. CASE Write
  <2>0. pc = "write" /\ UNCHANGED <<counters, data_receiver>> /\ is_initialized
    BY <1>6, <1>10 DEF Write, InRounds
  <2>1. data_receiver' = Filled(data_receiver'[0])
    BY <2>0 DEF Distributed
  <2>2. pc' \in {"usb write", "write", "read"}
    BY <1>6 DEF Write, Loop
  <2>3. CASE ~AllCounted
    BY <2>0, <2>1, <2>2, <2>3 DEF Distributed, AllCounted
  <2>4. CASE AllCounted
    <3>0. /\ expected_write = i
          /\ \A c \in Channel : c < i => tx_buffer_scicos[c] = data_receiver[c]
          /\ write_block_number = Channels
      BY <2>0, <2>4 DEF Distributed, AllCounted
    <3>1. tx_buffer_scicos' = [tx_buffer_scicos EXCEPT ![i] = data_receiver[i]]
      BY <1>6, <2>0 DEF Write, flex_usbscicos_write
    <3>2. \A c \in Channel : c < i + 1 => tx_buffer_scicos'[c] = data_receiver[c]
      <4> SUFFICES ASSUME NEW c \in Channel, c < i + 1
                   PROVE  tx_buffer_scicos'[c] = data_receiver[c]
        OBVIOUS
      <4>1. CASE c = i
        BY <1>0, <3>1, <4>1
      <4>2. CASE c < i
        BY <1>0, <3>0, <3>1, <4>2
      <4> QED
        BY <1>0, <4>1, <4>2
    <3>3. Completes(expected_write + 1) <=> i = Channels - 1
      BY <1>0, <3>0 DEF Completes
    <3>4. CASE i = Channels - 1
      <4>1. /\ expected_write' = 0 /\ written' = tx_buffer_scicos'
            /\ pc' = "usb write" /\ i' = i
        BY <1>6, <2>0, <3>3, <3>4 DEF Write, flex_usbscicos_write, CallsUsbWrite
      <4>2. tx_buffer_scicos' \in [Channel -> Nat] /\ data_receiver \in [Channel -> Nat]
        BY <1>0, <3>1
      <4>3. \A c \in Channel : c < i + 1
        BY <1>0, <3>4
      <4>4. tx_buffer_scicos' = data_receiver
        BY <3>2, <4>2, <4>3
      <4> QED
        BY <2>0, <2>1, <3>4, <4>1, <4>4 DEF Distributed
    <3>5. CASE i # Channels - 1
      <4>1. expected_write' = i + 1 /\ pc' = "write" /\ i' = i + 1
        BY <1>6, <2>0, <3>0, <3>3, <3>5
           DEF Write, flex_usbscicos_write, CallsUsbWrite, Loop
      <4> QED
        BY <2>0, <2>1, <3>2, <4>1 DEF Distributed
    <3> QED
      BY <3>4, <3>5
  <2> QED
    BY <2>3, <2>4
<1>7. CASE UsbWriteDone
  <2>1. UNCHANGED <<counters, sending, data_receiver>> /\ pc = "usb write"
    BY <1>7 DEF UsbWriteDone
  <2>2. \/ i = Channels - 1 /\ pc' = "read"
        \/ i # Channels - 1 /\ pc' = "write"
    BY <1>7 DEF UsbWriteDone, Loop
  <2> QED
    BY <2>1, <2>2 DEF Distributed, AllCounted
<1>8. CASE UsbWriteLock \/ PollStart \/ PollEnd \/ Datagram \/ UNCHANGED vars
  <2>1. UNCHANGED <<counters, sending, data_receiver, pc, i>>
    BY <1>8 DEF UsbWriteLock, PollStart, PollEnd, Datagram, vars
  <2> QED
    BY <2>1 DEF Distributed, AllCounted
<1>9. CASE Trap \/ Interrupt \/ CloseLock \/ CloseDone
  <2>1. UNCHANGED data_receiver /\ pc' \in {"close", "closing", "ended"}
    BY <1>9 DEF Trap, Interrupt, CloseLock, CloseDone
  <2> QED
    BY <2>1 DEF Distributed
<1> QED
  BY <1>1, <1>2, <1>3, <1>4, <1>5, <1>6, <1>7, <1>8, <1>9 DEF Next, Main

(* Every datagram that the gateway takes goes to the board, whole and      *)
(* before the next one is taken, if every block was counted.               *)
THEOREM DatagramsInTurn == Spec => DatagramsDown
<1>1. Init => Distributed
  <2> SUFFICES ASSUME Init PROVE Distributed
    OBVIOUS
  <2>1. 0 \in Channel
    BY ChannelsAssumption DEF Channel
  <2>2. Filled(0)[0] = 0
    BY <2>1, FilledAt
  <2> QED
    BY <2>2 DEF Init, ScicosInit, Distributed
<1>2. TypeOK /\ Distributed /\ [Next]_vars => Distributed'
  BY DistributedStep
<1>3. TypeOK /\ Distributed /\ Distributed' /\ [Next]_vars =>
        [/\ AllCounted /\ written' # written => Whole(written') /\ written' = data_receiver
         /\ AllCounted /\ data_receiver' # data_receiver => written = data_receiver]_vars
  <2> SUFFICES ASSUME TypeOK, Distributed, Distributed', [Next]_vars, AllCounted
               PROVE  /\ written' # written => Whole(written') /\ written' = data_receiver
                      /\ data_receiver' # data_receiver => written = data_receiver
    OBVIOUS
  <2>1. ASSUME data_receiver' # data_receiver PROVE written = data_receiver
    <3>1. receive_udp_data
      BY <2>1 DEF Next, Main, vars, InitReadBlock, InitWriteBlock, Read, Trap, send_udp_data,
                  Write, UsbWriteLock, UsbWriteDone, Interrupt, CloseLock, CloseDone,
                  PollStart, PollEnd, Datagram
    <3> QED
      BY <3>1 DEF receive_udp_data, Distributed
  <2>2. ASSUME written' # written PROVE Whole(written') /\ written' = data_receiver
    <3>1. Write
      BY <2>2 DEF Next, Main, vars, InitReadBlock, InitWriteBlock, Read, Trap, send_udp_data,
                  receive_udp_data, UsbWriteLock, UsbWriteDone, Interrupt, CloseLock,
                  CloseDone, PollStart, PollEnd, Datagram
    <3>2. CallsUsbWrite
      BY <2>2, <3>1 DEF Write, flex_usbscicos_write, CallsUsbWrite
    <3>3. pc' = "usb write" /\ UNCHANGED <<counters, data_receiver>>
      BY <3>1, <3>2 DEF Write
    <3>4. written' = data_receiver /\ data_receiver = Filled(data_receiver[0])
      BY <3>3 DEF Distributed, AllCounted
    <3>5. 0 \in Channel
      BY ChannelsAssumption DEF Channel
    <3> QED
      BY <3>4, <3>5, FilledAt DEF Whole
  <2> QED
    BY <2>1, <2>2
<1> QED
  BY <1>1, <1>2, <1>3, GatewayTyping, PTL DEF Spec, DatagramsDown

HIDE DEF counters, sending, reading, usb, data, peer, Values

-----------------------------------------------------------------------------
(* The checksum: what Crc computes byte by byte.                           *)
CrcOf(bytes) ==
  CHOOSE upTo : upTo = [j \in 0 .. Len(bytes) |->
                          IF j = 0 THEN 0 ELSE Xor(upTo[j - 1], bytes[j])]

(* The checksum is what its recursion says it is.                          *)
LEMMA CrcUnfolds ==
  ASSUME NEW bytes \in Seq(Byte)
  PROVE  /\ Crc(bytes) = CrcOf(bytes)[Len(bytes)]
         /\ CrcOf(bytes) = [j \in 0 .. Len(bytes) |->
                             IF j = 0 THEN 0 ELSE Xor(CrcOf(bytes)[j - 1], bytes[j])]
<1> DEFINE n == Len(bytes)
           round == [j \in 1 .. n |-> [x \in Byte |-> Xor(x, bytes[j])]]
<1>1. round \in [1 .. n -> [Byte -> Byte]] /\ 0 \in Byte /\ n \in Nat
  <2>1. 0 \in Byte /\ n \in Nat /\ \A j \in 1 .. n : bytes[j] \in Byte
    BY StreamParserAssumption
  <2>2. \A j \in 1 .. n : \A x \in Byte : Xor(x, bytes[j]) \in Byte
    BY <2>1, StreamParserAssumption
  <2>3. \A j \in 1 .. n : [x \in Byte |-> Xor(x, bytes[j])] \in [Byte -> Byte]
    BY <2>2
  <2> QED
    BY <2>1, <2>3
<1>2. PICK f : Lemmas!Computes(f, n, Byte, 0, round)
  <2>1. Lemmas!IsLoop(n, Byte, 0, round)
    BY <1>1 DEF Lemmas!IsLoop
  <2> QED
    BY <2>1, Lemmas!Iteration
<1>3. f = [j \in 0 .. n |-> IF j = 0 THEN 0 ELSE Xor(f[j - 1], bytes[j])]
  <2>0. /\ f \in [0 .. n -> Byte] /\ f[0] = 0
        /\ \A j \in 1 .. n : f[j] = round[j][f[j - 1]]
    BY <1>2 DEF Lemmas!Computes
  <2>1. \A j \in 1 .. n : f[j - 1] \in Byte
    BY <1>1, <2>0
  <2>2. \A j \in 1 .. n : round[j][f[j - 1]] = Xor(f[j - 1], bytes[j])
    BY <2>1
  <2> HIDE DEF round
  <2> QED
    BY <2>0, <2>2
<1>4. CrcOf(bytes) = [j \in 0 .. n |->
                       IF j = 0 THEN 0 ELSE Xor(CrcOf(bytes)[j - 1], bytes[j])]
  <2> HIDE DEF round
  <2> QED
    BY <1>3, Zenon DEF CrcOf
<1>5. Crc(bytes) = CrcOf(bytes)[n]
  BY Zenon DEF Crc, CrcOf
<1> QED
  BY <1>4, <1>5

(* Each intermediate checksum is a byte.                                   *)
LEMMA CrcType ==
  ASSUME NEW bytes \in Seq(Byte)
  PROVE  \A j \in 0 .. Len(bytes) : CrcOf(bytes)[j] \in Byte
<1> DEFINE S == {j \in 0 .. Len(bytes) : CrcOf(bytes)[j] \in Byte}
<1>1. 0 \in S
  BY CrcUnfolds, StreamParserAssumption
<1>2. \A j \in 0 .. Len(bytes) - 1 : j \in S => j + 1 \in S
  <2> SUFFICES ASSUME NEW j \in 0 .. Len(bytes) - 1, CrcOf(bytes)[j] \in Byte
               PROVE  CrcOf(bytes)[j + 1] \in Byte
    OBVIOUS
  <2>1. j + 1 \in 1 .. Len(bytes) /\ (j + 1) - 1 = j
    OBVIOUS
  <2>2. CrcOf(bytes)[j + 1] = Xor(CrcOf(bytes)[j], bytes[j + 1]) /\ bytes[j + 1] \in Byte
    BY <2>1, CrcUnfolds
  <2> QED
    BY <2>2, StreamParserAssumption
<1>3. 0 .. Len(bytes) \subseteq S
  <2> HIDE DEF S
  <2> QED
    BY <1>1, <1>2, Lemmas!Climb, SMTT(30)
<1> QED
  BY <1>3

(* One byte more is one more exclusive or.                                 *)
LEMMA CrcAppend ==
  ASSUME NEW bytes \in Seq(Byte), NEW c \in Byte
  PROVE  Crc(bytes) \in Byte /\ Crc(Append(bytes, c)) = Xor(Crc(bytes), c)
<1> DEFINE more == Append(bytes, c)
           n == Len(bytes)
           S == {j \in 0 .. n : CrcOf(more)[j] = CrcOf(bytes)[j]}
<1>1. /\ more \in Seq(Byte) /\ Len(more) = n + 1 /\ n \in Nat
      /\ more[n + 1] = c /\ \A j \in 1 .. n : more[j] = bytes[j]
  OBVIOUS
<1> HIDE DEF more
<1>2. 0 \in S
  BY <1>1, CrcUnfolds
<1>3. \A j \in 0 .. n - 1 : j \in S => j + 1 \in S
  <2> SUFFICES ASSUME NEW j \in 0 .. n - 1, CrcOf(more)[j] = CrcOf(bytes)[j]
               PROVE  CrcOf(more)[j + 1] = CrcOf(bytes)[j + 1]
    OBVIOUS
  <2>1. j + 1 \in 1 .. n /\ (j + 1) - 1 = j /\ j + 1 \in 0 .. Len(more)
    BY <1>1
  <2>2. CrcOf(bytes)[j + 1] = Xor(CrcOf(bytes)[j], bytes[j + 1])
    BY <2>1, CrcUnfolds
  <2>3. CrcOf(more)[j + 1] = Xor(CrcOf(more)[j], more[j + 1])
    BY <1>1, <2>1, CrcUnfolds
  <2> QED
    BY <1>1, <2>1, <2>2, <2>3
<1>4. 0 .. n \subseteq S
  <2> HIDE DEF S
  <2> QED
    BY <1>1, <1>2, <1>3, Lemmas!Climb
<1>5. CrcOf(more)[n] = CrcOf(bytes)[n]
  BY <1>1, <1>4
<1>6. CrcOf(more)[n + 1] = Xor(CrcOf(more)[n], c)
  <2>1. n + 1 \in 0 .. Len(more) /\ n + 1 # 0 /\ (n + 1) - 1 = n
    BY <1>1
  <2> QED
    BY <1>1, <2>1, CrcUnfolds
<1>7. Crc(bytes) = CrcOf(bytes)[n] /\ CrcOf(bytes)[n] \in Byte
  BY <1>1, CrcUnfolds, CrcType
<1>8. Crc(more) = CrcOf(more)[n + 1]
  BY <1>1, CrcUnfolds
<1> QED
  BY <1>5, <1>6, <1>7, <1>8 DEF more

-----------------------------------------------------------------------------
(* The scan: what it finds from an index on, from what it finds later.     *)
ScanStep(buffer, from, j) ==
  IF Len(buffer) - j + 1 < EASYLAB_PACKET_SIZE
  THEN [floats |-> <<>>, rest |-> j]
  ELSE IF ~ValidPacket(buffer, j)
  THEN from[j + 1]
  ELSE LET later == from[j + EASYLAB_PACKET_SIZE]
       IN  [floats |-> <<SubSeq(buffer, j + 1, j + FLOATS)>> \o later.floats,
            rest   |-> later.rest]

ScanOf(buffer) ==
  CHOOSE from : from = [j \in 1 .. Len(buffer) + 1 |-> ScanStep(buffer, from, j)]

Scanned(buffer, from, first) ==
  \A j \in first .. Len(buffer) + 1 : from[j] = ScanStep(buffer, from, j)

(* The scan from j on looks at later places only.                          *)
LEMMA ScanLooksAhead ==
  ASSUME NEW buffer \in Seq(Byte), NEW j \in Nat \ {0}, NEW f, NEW g,
         \A k \in j + 1 .. Len(buffer) + 1 : f[k] = g[k]
  PROVE  ScanStep(buffer, f, j) = ScanStep(buffer, g, j)
<1>1. EASYLAB_PACKET_SIZE \in Nat /\ EASYLAB_PACKET_SIZE >= 3 /\ Len(buffer) \in Nat
  BY StreamParserAssumption DEF EASYLAB_PACKET_SIZE
<1>2. CASE Len(buffer) - j + 1 < EASYLAB_PACKET_SIZE
  BY <1>2 DEF ScanStep
<1>3. CASE ~(Len(buffer) - j + 1 < EASYLAB_PACKET_SIZE)
  <2>1. j + 1 \in j + 1 .. Len(buffer) + 1
    BY <1>1, <1>3
  <2>2. j + EASYLAB_PACKET_SIZE \in j + 1 .. Len(buffer) + 1
    BY <1>1, <1>3
  <2>3. f[j + 1] = g[j + 1] /\ f[j + EASYLAB_PACKET_SIZE] = g[j + EASYLAB_PACKET_SIZE]
    BY <2>1, <2>2
  <2> QED
    BY <2>3 DEF ScanStep
<1> QED
  BY <1>2, <1>3

(* There is a function that scans as ScanStep says, from the end backwards.*)
LEMMA ScanExists ==
  ASSUME NEW buffer \in Seq(Byte)
  PROVE  \E f : Scanned(buffer, f, 1)
<1> DEFINE L == Len(buffer)
           S == {n \in Nat : n <= L => \E f : Scanned(buffer, f, L + 1 - n)}
<1>0. L \in Nat
  OBVIOUS
<1>1. 0 \in S
  <2> DEFINE f == [j \in {L + 1} |-> [floats |-> <<>>, rest |-> L + 1]]
  <2>1. \A j \in L + 1 - 0 .. L + 1 : j = L + 1
    BY <1>0
  <2>2. \A h : ScanStep(buffer, h, L + 1) = [floats |-> <<>>, rest |-> L + 1]
    BY <1>0, StreamParserAssumption DEF ScanStep, EASYLAB_PACKET_SIZE
  <2>3. f[L + 1] = ScanStep(buffer, f, L + 1)
    BY <2>2
  <2> HIDE DEF f
  <2>4. Scanned(buffer, f, L + 1 - 0)
    BY <2>1, <2>3 DEF Scanned
  <2> QED
    BY <2>4
<1>2. ASSUME NEW n \in Nat, n \in S, n + 1 <= L
      PROVE  \E f : Scanned(buffer, f, L + 1 - (n + 1))
  <2> DEFINE m == L + 1 - (n + 1)
  <2>1. PICK f : Scanned(buffer, f, L + 1 - n)
    BY <1>0, <1>2
  <2> DEFINE g == [j \in m .. L + 1 |-> IF j = m THEN ScanStep(buffer, f, m) ELSE f[j]]
  <2>2. m \in Nat \ {0} /\ m + 1 = L + 1 - n /\ m <= L
    BY <1>0, <1>2
  <2>3. \A k \in m + 1 .. L + 1 : g[k] = f[k]
    BY <1>0, <2>2
  <2>4. \A j \in m .. L + 1 : g[j] = ScanStep(buffer, f, j)
    <3>1. g[m] = ScanStep(buffer, f, m)
      BY <1>0, <2>2
    <3>2. \A j \in m + 1 .. L + 1 : g[j] = ScanStep(buffer, f, j)
      BY <2>1, <2>2, <2>3 DEF Scanned
    <3>3. \A j \in m .. L + 1 : j = m \/ j \in m + 1 .. L + 1
      BY <1>0, <2>2
    <3> HIDE DEF g, m
    <3> QED
      BY <3>1, <3>2, <3>3
  <2> HIDE DEF g
  <2>5. \A j \in m .. L + 1 : ScanStep(buffer, g, j) = ScanStep(buffer, f, j)
    <3> SUFFICES ASSUME NEW j \in m .. L + 1
                 PROVE  ScanStep(buffer, g, j) = ScanStep(buffer, f, j)
      OBVIOUS
    <3>1. j \in Nat \ {0} /\ \A k \in j + 1 .. Len(buffer) + 1 : k \in m + 1 .. L + 1
      BY <1>0, <2>2
    <3>2. \A k \in j + 1 .. Len(buffer) + 1 : g[k] = f[k]
      BY <2>3, <3>1
    <3> QED
      BY <3>1, <3>2, ScanLooksAhead
  <2> QED
    BY <2>4, <2>5 DEF Scanned
<1>3. L \in S
  <2> HIDE DEF S
  <2>1. \A n \in Nat : n \in S => n + 1 \in S
    BY <1>2, SMTT(30) DEF S
  <2> QED
    BY <1>0, <1>1, <2>1, Lemmas!SetInduction
<1>4. L + 1 - L = 1
  BY <1>0
<1> QED
  BY <1>0, <1>3, <1>4

(* So the scan is what its recursion says it is.                           *)
LEMMA ScanUnfolds ==
  ASSUME NEW buffer \in Seq(Byte)
  PROVE  /\ Scan(buffer) = ScanOf(buffer)[1]
         /\ \A j \in 1 .. Len(buffer) + 1 :
              ScanOf(buffer)[j] = ScanStep(buffer, ScanOf(buffer), j)
<1> DEFINE L == Len(buffer)
<1>1. PICK f : Scanned(buffer, f, 1)
  BY ScanExists
<1> DEFINE g == [j \in 1 .. L + 1 |-> f[j]]
<1>2. \A j \in 1 .. L + 1 : ScanStep(buffer, g, j) = ScanStep(buffer, f, j)
  <2> SUFFICES ASSUME NEW j \in 1 .. L + 1
               PROVE  ScanStep(buffer, g, j) = ScanStep(buffer, f, j)
    OBVIOUS
  <2>1. j \in Nat \ {0} /\ \A k \in j + 1 .. Len(buffer) + 1 : g[k] = f[k]
    OBVIOUS
  <2> HIDE DEF g
  <2> QED
    BY <2>1, ScanLooksAhead
<1>3. g = [j \in 1 .. L + 1 |-> ScanStep(buffer, g, j)]
  <2>1. \A j \in 1 .. L + 1 : f[j] = ScanStep(buffer, g, j)
    BY <1>1, <1>2 DEF Scanned
  <2> QED
    BY <2>1
<1> HIDE DEF g
<1>4. ScanOf(buffer) = [j \in 1 .. L + 1 |-> ScanStep(buffer, ScanOf(buffer), j)]
  BY <1>3, Zenon DEF ScanOf
<1>5. Scan(buffer) = ScanOf(buffer)[1]
  BY Zenon DEF Scan, ScanOf, ScanStep
<1>6. \A j \in 1 .. L + 1 : ScanOf(buffer)[j] = ScanStep(buffer, ScanOf(buffer), j)
  BY <1>4, Zenon
<1> QED
  BY <1>5, <1>6

(* It finds packets of bytes, and ends at or after the place where it      *)
(* began.                                                                  *)
LEMMA ScanType ==
  ASSUME NEW buffer \in Seq(Byte), NEW j \in 1 .. Len(buffer) + 1
  PROVE  ScanOf(buffer)[j] \in [floats : Seq(Seq(Byte)), rest : j .. Len(buffer) + 1]
<1> DEFINE L == Len(buffer)
           Result(k) == [floats : Seq(Seq(Byte)), rest : k .. L + 1]
           S == {k \in 1 .. L + 1 : ScanOf(buffer)[k] \in Result(k)}
<1>0. /\ L \in Nat /\ FLOATS \in Nat \ {0}
      /\ EASYLAB_PACKET_SIZE = FLOATS + 2
  BY StreamParserAssumption DEF EASYLAB_PACKET_SIZE
<1>1. ASSUME NEW k \in 1 .. L + 1, \A m \in k + 1 .. L + 1 : m \in S
      PROVE  ScanOf(buffer)[k] \in Result(k)
  <2> DEFINE s == SubSeq(buffer, k + 1, k + FLOATS)
             f == ScanOf(buffer)
  <2>0. f[k] = ScanStep(buffer, f, k)
    BY ScanUnfolds
  <2> HIDE DEF f
  <2>1. CASE L - k + 1 < EASYLAB_PACKET_SIZE
    <3>1. f[k] = [floats |-> <<>>, rest |-> k]
      BY <2>0, <2>1 DEF ScanStep
    <3> QED
      BY <1>0, <3>1 DEF f
  <2>2. CASE ~(L - k + 1 < EASYLAB_PACKET_SIZE) /\ ~ValidPacket(buffer, k)
    <3>1. f[k] = f[k + 1]
      BY <2>0, <2>2 DEF ScanStep
    <3>2. k + 1 \in k + 1 .. L + 1
      BY <1>0, <2>2
    <3>3. f[k + 1] \in Result(k + 1)
      BY <1>1, <3>2 DEF f
    <3>4. Result(k + 1) \subseteq Result(k)
      BY <1>0
    <3> QED
      BY <3>1, <3>3, <3>4 DEF f
  <2>3. CASE ~(L - k + 1 < EASYLAB_PACKET_SIZE) /\ ValidPacket(buffer, k)
    <3> DEFINE later == f[k + EASYLAB_PACKET_SIZE]
    <3>1. f[k] = [floats |-> <<s>> \o later.floats, rest |-> later.rest]
      BY <2>0, <2>3 DEF ScanStep
    <3>2. k + EASYLAB_PACKET_SIZE \in k + 1 .. L + 1
      BY <1>0, <2>3
    <3>3. later \in Result(k + EASYLAB_PACKET_SIZE)
      BY <1>1, <3>2 DEF f
    <3>4. s \in Seq(Byte)
      <4>1. \A m \in k + 1 .. k + FLOATS : m \in 1 .. L
        BY <1>0, <2>3
      <4>2. \A m \in k + 1 .. k + FLOATS : buffer[m] \in Byte
        BY <4>1, ElementOfSeq
      <4> QED
        BY <1>0, <4>2, SubSeqProperties
    <3>5. later.floats \in Seq(Seq(Byte)) /\ later.rest \in k .. L + 1
      BY <1>0, <3>2, <3>3
    <3> HIDE DEF s, later
    <3>6. <<s>> \o later.floats \in Seq(Seq(Byte))
      BY <3>4, <3>5
    <3> QED
      BY <3>1, <3>5, <3>6 DEF f
  <2> QED
    BY <2>1, <2>2, <2>3
<1>2. 1 .. L + 1 \subseteq S
  <2> HIDE DEF S
  <2>1. \A k \in 1 .. L + 1 : (\A m \in k + 1 .. L + 1 : m \in S) => k \in S
    BY <1>1 DEF S
  <2>2. L + 1 \in Nat
    BY <1>0
  <2> QED
    BY <2>1, <2>2, Lemmas!Descend
<1> QED
  BY <1>2

-----------------------------------------------------------------------------
(* The same packet at another place.                                       *)
SameBytes(a, j, b, k) == \A m \in 0 .. FLOATS + 1 : a[j + m] = b[k + m]

(* Equal bytes make equal floats, valid or not alike.                      *)
LEMMA SamePacket ==
  ASSUME NEW a \in Seq(Byte), NEW b \in Seq(Byte), NEW j \in Nat \ {0}, NEW k \in Nat \ {0},
         j + FLOATS + 1 <= Len(a), k + FLOATS + 1 <= Len(b),
         SameBytes(a, j, b, k)
  PROVE  /\ SubSeq(a, j + 1, j + FLOATS) = SubSeq(b, k + 1, k + FLOATS)
         /\ ValidPacket(a, j) <=> ValidPacket(b, k)
<1> DEFINE s == SubSeq(a, j + 1, j + FLOATS)
           t == SubSeq(b, k + 1, k + FLOATS)
<1>0. FLOATS \in Nat \ {0}
  BY StreamParserAssumption
<1>1. /\ s \in Seq(Byte) /\ Len(s) = FLOATS
      /\ \A m \in 1 .. FLOATS : s[m] = a[j + m]
  <2>1. \A m \in j + 1 .. j + FLOATS : m \in 1 .. Len(a)
    BY <1>0
  <2>2. \A m \in j + 1 .. j + FLOATS : a[m] \in Byte
    BY <2>1, ElementOfSeq
  <2>3. \A m \in 1 .. FLOATS : (j + 1) + m - 1 = j + m
    BY <1>0
  <2> QED
    BY <1>0, <2>2, <2>3, SubSeqProperties
<1>2. /\ t \in Seq(Byte) /\ Len(t) = FLOATS
      /\ \A m \in 1 .. FLOATS : t[m] = b[k + m]
  <2>1. \A m \in k + 1 .. k + FLOATS : m \in 1 .. Len(b)
    BY <1>0
  <2>2. \A m \in k + 1 .. k + FLOATS : b[m] \in Byte
    BY <2>1, ElementOfSeq
  <2>3. \A m \in 1 .. FLOATS : (k + 1) + m - 1 = k + m
    BY <1>0
  <2> QED
    BY <1>0, <2>2, <2>3, SubSeqProperties
<1> HIDE DEF s, t
<1>3. \A m \in 1 .. FLOATS : s[m] = t[m]
  <2>1. \A m \in 1 .. FLOATS : m \in 0 .. FLOATS + 1
    BY <1>0
  <2>2. \A m \in 1 .. FLOATS : a[j + m] = b[k + m]
    BY <2>1 DEF SameBytes
  <2> QED
    BY <1>1, <1>2, <2>2
<1>4. s = t
  BY <1>1, <1>2, <1>3, SeqEqual
<1>5. a[j] = b[k] /\ a[j + FLOATS + 1] = b[k + FLOATS + 1]
  <2> DEFINE z == 0
             m == FLOATS + 1
  <2>1. z \in 0 .. FLOATS + 1 /\ m \in 0 .. FLOATS + 1
    BY <1>0
  <2>2. j + z = j /\ k + z = k /\ j + m = j + FLOATS + 1 /\ k + m = k + FLOATS + 1
    BY <1>0
  <2> HIDE DEF z, m
  <2> QED
    BY <2>1, <2>2 DEF SameBytes
<1> QED
  BY <1>4, <1>5 DEF ValidPacket, s, t

(* More bytes are scanned from where the scan of the first ones ended.     *)
Continued(first, last) ==
  [floats |-> first.floats \o last.floats, rest |-> last.rest]

(* An element before two sequences.                                        *)
LEMMA OneMore ==
  ASSUME NEW X, NEW x \in X, NEW s \in Seq(X), NEW t \in Seq(X)
  PROVE  (<<x>> \o s) \o t = <<x>> \o (s \o t)
<1>1. <<x>> \in Seq(X)
  OBVIOUS
<1> QED
  BY <1>1, ConcatAssociative

(* The parts of a scan that is continued.                                  *)
LEMMA ContinuedParts ==
  ASSUME NEW first, NEW last
  PROVE  /\ Continued(first, last).floats = first.floats \o last.floats
         /\ Continued(first, last).rest = last.rest
BY DEF Continued

(* A scan of a and b is a scan of a, and one from where that stopped.      *)
LEMMA ScanSplits ==
  ASSUME NEW a \in Seq(Byte), NEW b \in Seq(Byte), NEW j \in 1 .. Len(a) + 1
  PROVE  ScanOf(a \o b)[j] =
           Continued(ScanOf(a)[j], ScanOf(a \o b)[ScanOf(a)[j].rest])
<1> DEFINE c == a \o b
           L == Len(a)
           f == ScanOf(a)
           g == ScanOf(c)
           S == {k \in 1 .. L + 1 : g[k] = Continued(f[k], g[f[k].rest])}
<1>0. /\ L \in Nat /\ FLOATS \in Nat \ {0} /\ EASYLAB_PACKET_SIZE = FLOATS + 2
      /\ c \in Seq(Byte) /\ Len(c) = L + Len(b) /\ Len(b) \in Nat
      /\ \A k \in 1 .. L : c[k] = a[k]
  BY StreamParserAssumption DEF EASYLAB_PACKET_SIZE
<1> HIDE DEF c
<1>t. /\ \A k \in 1 .. Len(c) + 1 :
           g[k] \in [floats : Seq(Seq(Byte)), rest : k .. Len(c) + 1]
      /\ \A k \in 1 .. L + 1 : f[k] \in [floats : Seq(Seq(Byte)), rest : k .. L + 1]
  BY <1>0, ScanType
<1>u. /\ \A k \in 1 .. Len(c) + 1 : g[k] = ScanStep(c, g, k)
      /\ \A k \in 1 .. L + 1 : f[k] = ScanStep(a, f, k)
  BY <1>0, ScanUnfolds
<1> HIDE DEF f, g
<1>1. ASSUME NEW k \in 1 .. L + 1, \A m \in k + 1 .. L + 1 : m \in S
      PROVE  g[k] = Continued(f[k], g[f[k].rest])
  <2>0. k \in 1 .. Len(c) + 1 /\ k \in Nat \ {0}
    BY <1>0
  <2>r. f[k].rest \in 1 .. Len(c) + 1
    BY <1>0, <1>t
  <2>1. CASE L - k + 1 < EASYLAB_PACKET_SIZE
    <3>1. f[k] = [floats |-> <<>>, rest |-> k]
      BY <1>u, <2>1 DEF ScanStep
    <3>2. g[k] \in [floats : Seq(Seq(Byte)), rest : k .. Len(c) + 1]
      BY <1>t, <2>0
    <3>3. <<>> \o g[k].floats = g[k].floats
      BY <3>2
    <3> QED
      BY <3>1, <3>2, <3>3 DEF Continued
  <2>2. CASE ~(L - k + 1 < EASYLAB_PACKET_SIZE)
    <3>0. k + FLOATS + 1 <= L /\ ~(Len(c) - k + 1 < EASYLAB_PACKET_SIZE)
      BY <1>0, <2>2
    <3>1. SameBytes(a, k, c, k)
      <4>1. \A m \in 0 .. FLOATS + 1 : k + m \in 1 .. L
        BY <1>0, <3>0
      <4> QED
        BY <1>0, <4>1 DEF SameBytes
    <3>2. /\ SubSeq(a, k + 1, k + FLOATS) = SubSeq(c, k + 1, k + FLOATS)
          /\ ValidPacket(a, k) <=> ValidPacket(c, k)
      <4>1. k + FLOATS + 1 <= Len(c)
        BY <1>0, <3>0
      <4> QED
        BY <1>0, <2>0, <3>0, <3>1, <4>1, SamePacket
    <3>3. CASE ~ValidPacket(a, k)
      <4>1. f[k] = f[k + 1]
        BY <1>u, <2>2, <3>3 DEF ScanStep
      <4>2. g[k] = g[k + 1]
        BY <1>u, <2>0, <3>0, <3>2, <3>3 DEF ScanStep
      <4>3. k + 1 \in k + 1 .. L + 1
        BY <1>0, <3>0
      <4>4. g[k + 1] = Continued(f[k + 1], g[f[k + 1].rest])
        BY <1>1, <4>3
      <4> QED
        BY <4>1, <4>2, <4>4
    <3>4. CASE ValidPacket(a, k)
      <4> DEFINE n == k + EASYLAB_PACKET_SIZE
                 s == SubSeq(a, k + 1, k + FLOATS)
                 later == g[f[n].rest]
      <4>1. f[k] = [floats |-> <<s>> \o f[n].floats, rest |-> f[n].rest]
        BY <1>u, <2>2, <3>4 DEF ScanStep
      <4>2. g[k] = [floats |-> <<s>> \o g[n].floats, rest |-> g[n].rest]
        BY <1>u, <2>0, <3>0, <3>2, <3>4 DEF ScanStep
      <4>3. n \in k + 1 .. L + 1 /\ n \in 1 .. L + 1
        BY <1>0, <3>0
      <4>4. g[n] = Continued(f[n], later)
        BY <1>1, <4>3
      <4>5. f[n] \in [floats : Seq(Seq(Byte)), rest : n .. L + 1]
        BY <1>t, <4>3
      <4>6. f[n].floats \in Seq(Seq(Byte)) /\ f[n].rest \in 1 .. Len(c) + 1
        BY <1>0, <4>3, <4>5
      <4>7. later.floats \in Seq(Seq(Byte))
        BY <1>t, <4>6
      <4> DEFINE p == f[n].floats
                 q == later.floats
                 X == {s} \cup Seq(Byte)
                 one == <<s>>
      <4> HIDE DEF n, later
      <4>8. p \in Seq(X) /\ q \in Seq(X) /\ s \in X
        BY <4>6, <4>7
      <4> HIDE DEF X, one, p, q, s
      <4>10. (one \o p) \o q = one \o (p \o q)
        BY <4>8, OneMore, SMTT(30) DEF one
      <4>11. g[n].floats = p \o q /\ g[n].rest = later.rest
        <5>1. /\ Continued(f[n], later).floats = f[n].floats \o later.floats
              /\ Continued(f[n], later).rest = later.rest
          BY ContinuedParts, Zenon
        <5> QED
          BY <4>4, <5>1, Zenon DEF p, q
      <4>12. g[k] = [floats |-> one \o (p \o q), rest |-> later.rest]
        BY <4>2, <4>11 DEF one
      <4>13. g[f[k].rest] = later /\ f[k].floats = one \o p
        BY <4>1 DEF later, one, p
      <4>14. g[k] = [floats |-> (one \o p) \o later.floats, rest |-> later.rest]
        BY <4>10, <4>12 DEF q
      <4> QED
        BY <4>13, <4>14, Zenon DEF Continued
    <3> QED
      BY <3>3, <3>4
  <2> QED
    BY <2>1, <2>2
<1>2. 1 .. L + 1 \subseteq S
  <2> HIDE DEF S
  <2>1. \A k \in 1 .. L + 1 : (\A m \in k + 1 .. L + 1 : m \in S) => k \in S
    BY <1>1 DEF S
  <2>2. L + 1 \in Nat
    BY <1>0
  <2> QED
    BY <2>1, <2>2, Lemmas!Descend
<1> QED
  BY <1>2 DEF c, f, g

(* Without the bytes before place r, the scan is the same r - 1 earlier.   *)
Moved(scan, n) == [floats |-> scan.floats, rest |-> scan.rest - n]

(* A scan does not depend on the bytes before the place it begins at.      *)
LEMMA ScanMoves ==
  ASSUME NEW a \in Seq(Byte), NEW r \in 1 .. Len(a) + 1,
         NEW j \in 1 .. Len(a) - r + 2
  PROVE  ScanOf(SubSeq(a, r, Len(a)))[j] = Moved(ScanOf(a)[j + r - 1], r - 1)
<1> DEFINE b == SubSeq(a, r, Len(a))
           L == Len(a)
           M == Len(b)
           f == ScanOf(a)
           g == ScanOf(b)
           S == {k \in 1 .. M + 1 : g[k] = Moved(f[k + r - 1], r - 1)}
<1>0. L \in Nat /\ r \in Nat \ {0} /\ FLOATS \in Nat \ {0} /\ EASYLAB_PACKET_SIZE = FLOATS + 2
  BY StreamParserAssumption DEF EASYLAB_PACKET_SIZE
<1>c. /\ b \in Seq(Byte) /\ M = L - r + 1 /\ M \in Nat
      /\ \A k \in 1 .. M : b[k] = a[k + r - 1]
  <2>1. \A k \in r .. L : a[k] \in Byte
    BY <1>0, ElementOfSeq
  <2>2. /\ b \in Seq(Byte)
        /\ Len(b) = IF r <= L THEN L - r + 1 ELSE 0
        /\ \A k \in 1 .. L - r + 1 : b[k] = a[r + k - 1]
    BY <1>0, <2>1, SubSeqProperties
  <2> HIDE DEF b
  <2>3. Len(b) = L - r + 1
    BY <1>0, <2>2
  <2>4. \A k \in 1 .. L - r + 1 : r + k - 1 = k + r - 1
    BY <1>0
  <2> QED
    BY <1>0, <2>2, <2>3, <2>4
<1> HIDE DEF b
<1>b. b \in Seq(Byte) /\ M = L - r + 1 /\ M \in Nat
  BY <1>c
<1>u. /\ \A k \in 1 .. L + 1 : f[k] = ScanStep(a, f, k)
      /\ \A k \in 1 .. M + 1 : g[k] = ScanStep(b, g, k)
  BY <1>0, <1>b, ScanUnfolds
<1> HIDE DEF f, g
<1>1. ASSUME NEW k \in 1 .. M + 1, \A m \in k + 1 .. M + 1 : m \in S
      PROVE  g[k] = Moved(f[k + r - 1], r - 1)
  <2> DEFINE l == k + r - 1
  <2>0. l \in 1 .. L + 1 /\ l \in Nat \ {0} /\ k \in Nat \ {0}
        /\ L - l + 1 = M - k + 1 /\ l - (r - 1) = k
    BY <1>0, <1>b
  <2>x. l + 1 = (k + 1) + r - 1 /\ l + EASYLAB_PACKET_SIZE = (k + EASYLAB_PACKET_SIZE) + r - 1
    BY <1>0, <1>b
  <2> HIDE DEF l
  <2>1. CASE M - k + 1 < EASYLAB_PACKET_SIZE
    <3>1. f[l] = [floats |-> <<>>, rest |-> l]
      BY <1>u, <2>0, <2>1 DEF ScanStep
    <3>2. g[k] = [floats |-> <<>>, rest |-> k]
      BY <1>u, <2>0, <2>1 DEF ScanStep
    <3> QED
      BY <2>0, <3>1, <3>2 DEF Moved, l
  <2>2. CASE ~(M - k + 1 < EASYLAB_PACKET_SIZE)
    <3>0. k + FLOATS + 1 <= M /\ l + FLOATS + 1 <= L /\ ~(L - l + 1 < EASYLAB_PACKET_SIZE)
      BY <1>0, <1>b, <2>0, <2>2
    <3>1. SameBytes(a, l, b, k)
      <4>1. \A m \in 0 .. FLOATS + 1 : k + m \in 1 .. M
        BY <1>0, <1>b, <2>0, <3>0
      <4>2. \A m \in 0 .. FLOATS + 1 : (k + m) + r - 1 = l + m
        BY <1>0, <2>0 DEF l
      <4> QED
        BY <1>c, <4>1, <4>2 DEF SameBytes
    <3>2. /\ SubSeq(a, l + 1, l + FLOATS) = SubSeq(b, k + 1, k + FLOATS)
          /\ ValidPacket(a, l) <=> ValidPacket(b, k)
      <4>1. l + FLOATS + 1 <= Len(a) /\ k + FLOATS + 1 <= Len(b)
        BY <3>0
      <4> HIDE DEF L, M
      <4> QED
        BY ONLY StreamParserAssumption, <4>1, <1>b, <2>0, <3>1, SamePacket, SMTT(30)
    <3>3. CASE ~ValidPacket(b, k)
      <4>1. f[l] = f[l + 1]
        BY <1>u, <2>0, <3>0, <3>2, <3>3 DEF ScanStep
      <4>2. g[k] = g[k + 1]
        BY <1>u, <2>2, <3>3 DEF ScanStep
      <4>3. k + 1 \in k + 1 .. M + 1
        BY <1>0, <1>b, <3>0
      <4>4. g[k + 1] = Moved(f[(k + 1) + r - 1], r - 1)
        BY <1>1, <4>3
      <4> QED
        BY <2>x, <4>1, <4>2, <4>4 DEF l
    <3>4. CASE ValidPacket(b, k)
      <4> DEFINE n == k + EASYLAB_PACKET_SIZE
                 s == SubSeq(a, l + 1, l + FLOATS)
                 later == f[l + EASYLAB_PACKET_SIZE]
      <4>1. f[l] = [floats |-> <<s>> \o later.floats, rest |-> later.rest]
        BY <1>u, <2>0, <3>0, <3>2, <3>4 DEF ScanStep
      <4>2. g[k] = [floats |-> <<s>> \o g[n].floats, rest |-> g[n].rest]
        BY <1>u, <2>2, <3>2, <3>4 DEF ScanStep
      <4>3. n \in k + 1 .. M + 1
        BY <1>0, <1>b, <3>0
      <4>4. g[n] = Moved(later, r - 1)
        BY <1>1, <2>x, <4>3
      <4> HIDE DEF s, n, later
      <4> QED
        BY <4>1, <4>2, <4>4 DEF Moved, l
    <3> QED
      BY <3>3, <3>4
  <2> QED
    BY <2>1, <2>2 DEF l
<1>2. 1 .. M + 1 \subseteq S
  <2> HIDE DEF S
  <2>1. \A k \in 1 .. M + 1 : (\A m \in k + 1 .. M + 1 : m \in S) => k \in S
    BY <1>1 DEF S
  <2>2. M + 1 \in Nat
    BY <1>b
  <2> QED
    BY <2>1, <2>2, Lemmas!Descend
<1>3. j \in 1 .. M + 1
  BY <1>0, <1>b
<1> QED
  BY <1>2, <1>3 DEF b, f, g

-----------------------------------------------------------------------------
(* The places of packets that count: one counts unless another one does    *)
(* that it overlaps and that comes first.                                  *)
CountsStep(bytes, counts, j) ==
  /\ j >= 1 /\ j + FLOATS + 1 <= Len(bytes)
  /\ ValidPacket(bytes, j)
  /\ \A m \in j - FLOATS - 1 .. j - 1 : m < 1 \/ ~counts[m]

CountsOf(bytes) ==
  CHOOSE counts : counts = [j \in 1 - FLOATS - 1 .. Len(bytes) |->
                              CountsStep(bytes, counts, j)]

Overlaps(m, j) == j - FLOATS - 1 <= m /\ m < j

Chosen(bytes, Q, last) ==
  /\ Q \subseteq 1 .. last
  /\ \A j \in 1 .. last :
       j \in Q <=> /\ j + FLOATS + 1 <= Len(bytes)
                   /\ ValidPacket(bytes, j)
                   /\ \A m \in Q : ~Overlaps(m, j)

(* There are starts of packets chosen as the counts ask, one by one.       *)
LEMMA ChosenExists ==
  ASSUME NEW bytes \in Seq(Byte)
  PROVE  \E Q : Chosen(bytes, Q, Len(bytes))
<1> DEFINE L == Len(bytes)
           S == {n \in Nat : n <= L => \E Q : Chosen(bytes, Q, n)}
<1>0. L \in Nat /\ FLOATS \in Nat \ {0}
  BY StreamParserAssumption
<1>1. 0 \in S
  <2>1. Chosen(bytes, {}, 0)
    BY DEF Chosen
  <2> QED
    BY <2>1
<1>2. ASSUME NEW n \in Nat, n \in S, n + 1 <= L
      PROVE  \E Q : Chosen(bytes, Q, n + 1)
  <2>1. PICK Q : Chosen(bytes, Q, n)
    BY <1>0, <1>2
  <2> DEFINE OK == /\ (n + 1) + FLOATS + 1 <= Len(bytes)
                   /\ ValidPacket(bytes, n + 1)
                   /\ \A m \in Q : ~Overlaps(m, n + 1)
             R == IF OK THEN Q \cup {n + 1} ELSE Q
  <2>2. Q \subseteq 1 .. n
    BY <2>1 DEF Chosen
  <2>3. \A j \in 1 .. n : ~Overlaps(n + 1, j) /\ (j \in R <=> j \in Q)
    BY <2>2 DEF Overlaps
  <2>4. ~Overlaps(n + 1, n + 1)
    BY DEF Overlaps
  <2>5. R \subseteq 1 .. n + 1 /\ (n + 1 \in R <=> OK)
    <3>1. n + 1 \notin Q
      BY <2>2
    <3> HIDE DEF OK
    <3>2. CASE OK
      BY <2>2, <3>2
    <3>3. CASE ~OK
      BY <2>2, <3>1, <3>3
    <3> QED
      BY <3>2, <3>3
  <2>6. R \subseteq Q \cup {n + 1} /\ Q \subseteq R
    <3> HIDE DEF OK
    <3> QED
      OBVIOUS
  <2>7. \A j \in 1 .. n + 1 : (\A m \in R : ~Overlaps(m, j)) <=> (\A m \in Q : ~Overlaps(m, j))
    <3> HIDE DEF R
    <3>1. \A j \in 1 .. n + 1 : ~Overlaps(n + 1, j)
      <4>1. \A j \in 1 .. n + 1 : j \in 1 .. n \/ j = n + 1
        OBVIOUS
      <4> QED
        BY <2>3, <2>4, <4>1
    <3> QED
      BY <2>6, <3>1
  <2> HIDE DEF R
  <2>8. ASSUME NEW j \in 1 .. n + 1
        PROVE  j \in R <=> /\ j + FLOATS + 1 <= Len(bytes)
                           /\ ValidPacket(bytes, j)
                           /\ \A m \in R : ~Overlaps(m, j)
    <3>1. CASE j \in 1 .. n
      BY <2>1, <2>3, <2>7, <3>1 DEF Chosen
    <3>2. CASE j = n + 1
      BY <2>5, <2>7, <3>2
    <3> QED
      BY <3>1, <3>2
  <2>9. Chosen(bytes, R, n + 1)
    BY <2>5, <2>8 DEF Chosen
  <2> QED
    BY <2>9
<1>3. L \in S
  <2> HIDE DEF S
  <2>1. \A n \in Nat : n \in S => n + 1 \in S
    BY <1>2 DEF S
  <2> QED
    BY <1>0, <1>1, <2>1, Lemmas!SetInduction
<1> QED
  BY <1>0, <1>3

(* The counts are what their recursion says they are.                      *)
LEMMA CountsUnfolds ==
  ASSUME NEW bytes \in Seq(Byte)
  PROVE  CountsOf(bytes) = [j \in 1 - FLOATS - 1 .. Len(bytes) |->
                               CountsStep(bytes, CountsOf(bytes), j)]
<1> DEFINE L == Len(bytes)
           D == 1 - FLOATS - 1 .. L
<1>0. L \in Nat /\ FLOATS \in Nat \ {0}
  BY StreamParserAssumption
<1>1. PICK Q : Chosen(bytes, Q, L)
  BY ChosenExists
<1> DEFINE f == [j \in D |-> j \in Q]
<1>2. Q \subseteq 1 .. L
  BY <1>1 DEF Chosen
<1>3. ASSUME NEW j \in D
      PROVE  j \in Q <=> CountsStep(bytes, f, j)
  <2>1. CASE j < 1
    BY <1>2, <2>1 DEF CountsStep
  <2>2. CASE j >= 1
    <3>1. j \in 1 .. L
      BY <1>0, <2>2
    <3>2. \A m \in j - FLOATS - 1 .. j - 1 : m \in D \/ m < 1
      BY <1>0, <3>1
    <3>3. \A m \in j - FLOATS - 1 .. j - 1 : m \in D => (f[m] <=> m \in Q)
      OBVIOUS
    <3> HIDE DEF f
    <3>4. (\A m \in j - FLOATS - 1 .. j - 1 : m < 1 \/ ~f[m])
            <=> (\A m \in Q : ~Overlaps(m, j))
      <4>1. ASSUME \A m \in j - FLOATS - 1 .. j - 1 : m < 1 \/ ~f[m], NEW m \in Q, Overlaps(m, j)
            PROVE  FALSE
        <5>1. m \in j - FLOATS - 1 .. j - 1 /\ m \in D /\ ~(m < 1)
          BY <1>0, <1>2, <3>1, <4>1 DEF Overlaps
        <5>2. f[m]
          BY <3>3, <5>1
        <5> QED
          BY <4>1, <5>1, <5>2
      <4>2. ASSUME \A m \in Q : ~Overlaps(m, j), NEW m \in j - FLOATS - 1 .. j - 1, ~(m < 1)
            PROVE  ~f[m]
        <5>1. Overlaps(m, j) /\ m \in D
          BY <1>0, <3>1, <4>2 DEF Overlaps
        <5>2. m \notin Q
          BY <4>2, <5>1
        <5> QED
          BY <3>3, <5>1, <5>2
      <4> QED
        BY <4>1, <4>2
    <3>5. j \in Q <=> /\ j + FLOATS + 1 <= Len(bytes)
                      /\ ValidPacket(bytes, j)
                      /\ \A m \in Q : ~Overlaps(m, j)
      BY <1>1, <3>1 DEF Chosen
    <3> QED
      BY <2>2, <3>4, <3>5 DEF CountsStep
  <2> QED
    BY <1>0, <2>1, <2>2
<1>4. f = [j \in D |-> CountsStep(bytes, f, j)]
  <2>1. ASSUME NEW j \in D
        PROVE  (j \in Q) = CountsStep(bytes, f, j)
    <3>1. CountsStep(bytes, f, j) \in BOOLEAN
      BY Zenon DEF CountsStep
    <3> HIDE DEF f
    <3> QED
      BY <1>3, <3>1
  <2> DEFINE B(j) == j \in Q
             C(j) == CountsStep(bytes, f, j)
  <2>2. \A j \in D : B(j) = C(j)
    BY <2>1
  <2> HIDE DEF B, C
  <2>3. [j \in D |-> B(j)] = [j \in D |-> C(j)]
    BY <2>2
  <2> QED
    BY <2>3 DEF B, C
<1> HIDE DEF f
<1> QED
  BY <1>4, Zenon DEF CountsOf

(* The characterization of the places, as a set.                           *)
LEMMA StartsChosen ==
  ASSUME NEW bytes \in Seq(Byte)
  PROVE  Chosen(bytes, PacketStarts(bytes), Len(bytes))
<1> DEFINE L == Len(bytes)
           D == 1 - FLOATS - 1 .. L
           f == CountsOf(bytes)
           P == {j \in 1 .. L : f[j]}
<1>0. L \in Nat /\ FLOATS \in Nat \ {0}
  BY StreamParserAssumption
<1>1. f = [j \in D |-> CountsStep(bytes, f, j)]
  BY CountsUnfolds
<1>2. PacketStarts(bytes) = P
  BY Zenon DEF PacketStarts, CountsOf, CountsStep
<1> HIDE DEF f
<1>3. \A j \in D : f[j] = CountsStep(bytes, f, j)
  BY <1>1, Zenon
<1>4. ASSUME NEW j \in 1 .. L
      PROVE  j \in P <=> /\ j + FLOATS + 1 <= Len(bytes)
                         /\ ValidPacket(bytes, j)
                         /\ \A m \in P : ~Overlaps(m, j)
  <2>1. j \in D /\ j >= 1
    BY <1>0
  <2>2. (\A m \in j - FLOATS - 1 .. j - 1 : m < 1 \/ ~f[m])
          <=> (\A m \in P : ~Overlaps(m, j))
    <3>1. ASSUME \A m \in j - FLOATS - 1 .. j - 1 : m < 1 \/ ~f[m], NEW m \in P, Overlaps(m, j)
          PROVE  FALSE
      <4>1. m \in j - FLOATS - 1 .. j - 1 /\ ~(m < 1) /\ f[m]
        BY <1>0, <3>1 DEF Overlaps
      <4> QED
        BY <3>1, <4>1
    <3>2. ASSUME \A m \in P : ~Overlaps(m, j), NEW m \in j - FLOATS - 1 .. j - 1, ~(m < 1)
          PROVE  ~f[m]
      <4>1. Overlaps(m, j) /\ m \in 1 .. L
        BY <1>0, <3>2 DEF Overlaps
      <4> QED
        BY <3>2, <4>1
    <3> QED
      BY <3>1, <3>2
  <2>3. j \in P <=> CountsStep(bytes, f, j)
    BY <1>3, <2>1
  <2> HIDE DEF P
  <2> QED
    BY <2>1, <2>2, <2>3 DEF CountsStep
<1>5. Chosen(bytes, P, L)
  <2>1. P \subseteq 1 .. L
    OBVIOUS
  <2> HIDE DEF P
  <2> QED
    BY <1>4, <2>1 DEF Chosen
<1> QED
  BY <1>2, <1>5

-----------------------------------------------------------------------------
(* The scan from a place that no counting packet overlaps finds the        *)
(* packets that count from there on.                                       *)
Onwards(bytes, j) == {m \in PacketStarts(bytes) : j <= m}
Between(bytes, j, k) == {m \in PacketStarts(bytes) : j <= m /\ m <= k}
Free(bytes, j) == \A m \in PacketStarts(bytes) : ~Overlaps(m, j)
Payload(bytes, k) == SubSeq(bytes, k + 1, k + FLOATS)

Tells(bytes, j, ps) ==
  /\ Len(ps) = Cardinality(Onwards(bytes, j))
  /\ \A k \in Onwards(bytes, j) :
       ps[Cardinality(Between(bytes, j, k))] = Payload(bytes, k)

(* The starts of packets in a stretch can be counted.                      *)
LEMMA FiniteStarts ==
  ASSUME NEW bytes \in Seq(Byte), NEW j, NEW k
  PROVE  /\ IsFiniteSet(Onwards(bytes, j)) /\ Cardinality(Onwards(bytes, j)) \in Nat
         /\ IsFiniteSet(Between(bytes, j, k)) /\ Cardinality(Between(bytes, j, k)) \in Nat
<1>1. PacketStarts(bytes) \subseteq 1 .. Len(bytes)
  BY StartsChosen DEF Chosen
<1>2. IsFiniteSet(PacketStarts(bytes))
  <2>1. IsFiniteSet(1 .. Len(bytes))
    BY FS_Interval
  <2> QED
    BY <1>1, <2>1, FS_Subset
<1>3. Onwards(bytes, j) \subseteq PacketStarts(bytes)
      /\ Between(bytes, j, k) \subseteq PacketStarts(bytes)
  BY DEF Onwards, Between
<1> QED
  BY <1>2, <1>3, FS_Subset, FS_CardinalityType

(* One packet, and what is told from its end on.                           *)
LEMMA TellsOneMore ==
  ASSUME NEW bytes \in Seq(Byte), NEW j \in 1 .. Len(bytes), NEW n \in j + 1 .. Len(bytes) + 1,
         NEW ps \in Seq(Seq(Byte)), Tells(bytes, n, ps),
         Payload(bytes, j) \in Seq(Byte),
         j \in PacketStarts(bytes),
         \A m \in j + 1 .. n - 1 : m \notin PacketStarts(bytes)
  PROVE  Tells(bytes, j, <<Payload(bytes, j)>> \o ps)
<1> DEFINE P == PacketStarts(bytes)
           A == Onwards(bytes, n)
           qs == <<Payload(bytes, j)>> \o ps
<1>0. P \subseteq 1 .. Len(bytes)
  BY StartsChosen DEF Chosen
<1>1. Onwards(bytes, j) = A \cup {j} /\ j \notin A
  <2>1. \A m \in P : j <= m <=> (n <= m \/ m = j)
    BY <1>0
  <2>2. ~(n <= j)
    OBVIOUS
  <2> HIDE DEF P
  <2> QED
    BY <2>1, <2>2 DEF Onwards, P
<1>2. Cardinality(Onwards(bytes, j)) = Cardinality(A) + 1
  <2> HIDE DEF A
  <2>1. IsFiniteSet(A)
    BY FiniteStarts DEF A
  <2> QED
    BY <1>1, <2>1, FS_AddElement
<1>3. /\ Len(ps) = Cardinality(A) /\ Len(qs) = Len(ps) + 1
      /\ qs[1] = Payload(bytes, j) /\ \A c \in 1 .. Len(ps) : qs[c + 1] = ps[c]
  BY DEF Tells
<1> HIDE DEF qs
<1>4. ASSUME NEW k \in Onwards(bytes, j)
      PROVE  qs[Cardinality(Between(bytes, j, k))] = Payload(bytes, k)
  <2>1. CASE k = j
    <3>1. Between(bytes, j, j) = {j}
      <4>1. \A m \in P : (j <= m /\ m <= j) <=> m = j
        BY <1>0
      <4> QED
        BY <4>1 DEF Between
    <3>2. Cardinality(Between(bytes, j, j)) = 1
      BY <3>1, FS_Singleton
    <3> QED
      BY <1>3, <2>1, <3>2
  <2>2. CASE k \in A
    <3> DEFINE B == Between(bytes, n, k)
    <3>1. Between(bytes, j, k) = B \cup {j} /\ j \notin B
      <4>1. k \in P /\ n <= k /\ k \in Int
        BY <1>0, <2>2 DEF Onwards
      <4>2. \A m \in P : (j <= m /\ m <= k) <=> ((n <= m /\ m <= k) \/ m = j)
        BY <1>0, <4>1
      <4>3. ~(n <= j)
        OBVIOUS
      <4> HIDE DEF P
      <4> QED
        BY <4>2, <4>3 DEF Between, P
    <3>2. IsFiniteSet(B) /\ IsFiniteSet(A)
      BY FiniteStarts
    <3>3. k \in B /\ B \subseteq A
      BY <1>0, <2>2 DEF Between, Onwards
    <3> HIDE DEF A, B
    <3>4. Cardinality(Between(bytes, j, k)) = Cardinality(B) + 1
      BY <3>1, <3>2, FS_AddElement
    <3>5. Cardinality(B) \in 1 .. Cardinality(A)
      <4>1. Cardinality(B) \in Nat /\ Cardinality(A) \in Nat /\ Cardinality(B) <= Cardinality(A)
        BY <3>2, <3>3, FS_Subset, FS_CardinalityType
      <4>2. Cardinality(B) # 0
        BY <3>2, <3>3, FS_EmptySet
      <4> QED
        BY <4>1, <4>2
    <3>6. ps[Cardinality(B)] = Payload(bytes, k)
      BY <2>2 DEF Tells, A, B
    <3> QED
      BY <1>3, <3>4, <3>5, <3>6
  <2> QED
    BY <1>1, <2>1, <2>2
<1> QED
  BY <1>2, <1>3, <1>4 DEF Tells, qs

(* A scan from a free place finds the floats that the stream says.         *)
LEMMA ScanTells ==
  ASSUME NEW bytes \in Seq(Byte), NEW j \in 1 .. Len(bytes) + 1, Free(bytes, j)
  PROVE  Tells(bytes, j, ScanOf(bytes)[j].floats)
<1> DEFINE L == Len(bytes)
           P == PacketStarts(bytes)
           f == ScanOf(bytes)
           S == {k \in 1 .. L + 1 : Free(bytes, k) => Tells(bytes, k, f[k].floats)}
<1>0. /\ L \in Nat /\ FLOATS \in Nat \ {0} /\ EASYLAB_PACKET_SIZE = FLOATS + 2
  BY StreamParserAssumption DEF EASYLAB_PACKET_SIZE
<1>c. /\ P \subseteq 1 .. L
      /\ \A k \in 1 .. L : k \in P <=> /\ k + FLOATS + 1 <= L
                                       /\ ValidPacket(bytes, k)
                                       /\ \A m \in P : ~Overlaps(m, k)
  BY StartsChosen DEF Chosen
<1>u. \A k \in 1 .. L + 1 : f[k] = ScanStep(bytes, f, k)
  BY ScanUnfolds
<1>t. \A k \in 1 .. L + 1 : f[k] \in [floats : Seq(Seq(Byte)), rest : k .. L + 1]
  BY ScanType
<1> HIDE DEF f
<1>1. ASSUME NEW k \in 1 .. L + 1, \A m \in k + 1 .. L + 1 : m \in S, Free(bytes, k)
      PROVE  Tells(bytes, k, f[k].floats)
  <2>1. CASE L - k + 1 < EASYLAB_PACKET_SIZE
    <3>1. f[k].floats = <<>>
      <4>1. f[k] = [floats |-> <<>>, rest |-> k]
        BY <1>u, <2>1 DEF ScanStep
      <4> QED
        BY <4>1
    <3>2. \A m \in P : m + FLOATS + 1 <= L /\ m \in 1 .. L
      BY <1>c
    <3>3. \A m \in P : ~(k <= m)
      BY <1>0, <2>1, <3>2
    <3>4. Onwards(bytes, k) = {}
      BY <3>3 DEF Onwards
    <3> QED
      BY <3>1, <3>4, FS_EmptySet DEF Tells
  <2>2. CASE ~(L - k + 1 < EASYLAB_PACKET_SIZE)
    <3>0. k + FLOATS + 1 <= L /\ k \in 1 .. L
      BY <1>0, <2>2
    <3>f. \A m \in P : ~Overlaps(m, k)
      BY <1>1 DEF Free
    <3>1. CASE ~ValidPacket(bytes, k)
      <4>1. f[k] = f[k + 1]
        BY <1>u, <2>2, <3>1 DEF ScanStep
      <4>2. k \notin P
        BY <1>c, <3>0, <3>1
      <4>3. Free(bytes, k + 1)
        <5> SUFFICES ASSUME NEW m \in P, Overlaps(m, k + 1) PROVE FALSE
          BY DEF Free
        <5>1. m \in 1 .. L /\ m # k
          BY <1>c, <4>2
        <5>2. Overlaps(m, k)
          BY <1>0, <5>1 DEF Overlaps
        <5> QED
          BY <3>f, <5>2
      <4>4. k + 1 \in k + 1 .. L + 1
        BY <1>0, <3>0
      <4>5. Tells(bytes, k + 1, f[k + 1].floats)
        BY <1>1, <4>3, <4>4
      <4>6. \A m \in P : k <= m <=> k + 1 <= m
        <5>1. \A m \in P : m \in 1 .. L /\ m # k
          BY <1>c, <4>2
        <5> QED
          BY <5>1
      <4>7. Onwards(bytes, k) = Onwards(bytes, k + 1)
        BY <4>6 DEF Onwards
      <4>8. \A m : Between(bytes, k, m) = Between(bytes, k + 1, m)
        BY <4>6 DEF Between
      <4> QED
        BY <4>1, <4>5, <4>7, <4>8 DEF Tells
    <3>2. CASE ValidPacket(bytes, k)
      <4> DEFINE n == k + EASYLAB_PACKET_SIZE
      <4>1. f[k].floats = <<Payload(bytes, k)>> \o f[n].floats
        <5> DEFINE s == <<Payload(bytes, k)>>
        <5>1. f[k] = [floats |-> s \o f[n].floats, rest |-> f[n].rest]
          BY <1>u, <2>2, <3>2 DEF ScanStep, Payload
        <5> HIDE DEF s, n
        <5>2. f[k].floats = s \o f[n].floats
          BY <5>1
        <5> QED
          BY <5>2 DEF s
      <4>2. k \in P
        BY <1>c, <3>0, <3>2, <3>f
      <4>3. n \in k + 1 .. L + 1 /\ n \in 1 .. L + 1
        BY <1>0, <3>0
      <4>4. \A m \in k + 1 .. n - 1 : m \notin P
        <5> SUFFICES ASSUME NEW m \in k + 1 .. n - 1, m \in P PROVE FALSE
          OBVIOUS
        <5>1. Overlaps(k, m) /\ m \in 1 .. L
          BY <1>0, <1>c DEF Overlaps
        <5> QED
          BY <1>c, <4>2, <5>1
      <4>5. Free(bytes, n)
        <5> SUFFICES ASSUME NEW m \in P, Overlaps(m, n) PROVE FALSE
          BY DEF Free
        <5>1. m \in 1 .. L
          BY <1>c
        <5>2. m \in k + 1 .. n - 1
          BY <1>0, <5>1 DEF Overlaps
        <5> QED
          BY <4>4, <5>2
      <4>6. Tells(bytes, n, f[n].floats) /\ f[n].floats \in Seq(Seq(Byte))
        BY <1>1, <1>t, <4>3, <4>5
      <4>7. Payload(bytes, k) \in Seq(Byte)
        <5>1. \A m \in k + 1 .. k + FLOATS : m \in 1 .. L
          BY <1>0, <3>0
        <5>2. \A m \in k + 1 .. k + FLOATS : bytes[m] \in Byte
          BY <5>1, ElementOfSeq
        <5> QED
          BY <1>0, <5>2, SubSeqProperties DEF Payload
      <4> HIDE DEF n
      <4> QED
        BY <3>0, <4>1, <4>2, <4>3, <4>4, <4>6, <4>7, TellsOneMore
    <3> QED
      BY <3>1, <3>2
  <2> QED
    BY <2>1, <2>2
<1>2. 1 .. L + 1 \subseteq S
  <2> HIDE DEF S
  <2>1. \A k \in 1 .. L + 1 : (\A m \in k + 1 .. L + 1 : m \in S) => k \in S
    BY <1>1 DEF S
  <2>2. L + 1 \in Nat
    BY <1>0
  <2> QED
    BY <2>1, <2>2, Lemmas!Descend
<1> QED
  BY <1>2 DEF f

(* So the scan finds what the stream says.                                 *)
LEMMA ScanSays ==
  ASSUME NEW bytes \in Seq(Byte)
  PROVE  Says(bytes, Scan(bytes).floats)
<1> DEFINE L == Len(bytes)
           P == PacketStarts(bytes)
           ps == Scan(bytes).floats
<1>0. L \in Nat /\ P \subseteq 1 .. L
  BY StartsChosen DEF Chosen
<1>1. Free(bytes, 1)
  BY <1>0 DEF Free, Overlaps
<1>2. Tells(bytes, 1, ps)
  BY <1>0, <1>1, ScanTells, ScanUnfolds
<1>3. Onwards(bytes, 1) = P /\ {k \in P : k <= L} = P
  BY <1>0 DEF Onwards
<1>4. \A j \in P : Between(bytes, 1, j) = {k \in P : k <= j}
  BY <1>0 DEF Between
<1> HIDE DEF ps
<1>5. Len(ps) = Cardinality({k \in P : k <= L})
  BY <1>2, <1>3 DEF Tells
<1>6. \A j \in P : ps[Cardinality({k \in P : k <= j})] = SubSeq(bytes, j + 1, j + FLOATS)
  BY <1>2, <1>3, <1>4 DEF Tells, Payload
<1> QED
  BY <1>5, <1>6 DEF Says, ps

USE DEF clients, flags, wakes, thread, communicator, port, serial, echoing

-----------------------------------------------------------------------------
(* The lists of steps that the form's thread may be in, from step n on:    *)
(* what the buttons, the reset message and the closing of the form ask     *)
(* for, and what becomes of a connect.                                     *)
Steps == {"close_port", "null_port", "close_sending", "close_receiving", "interrupt",
          "buttons", "new_port", "connect", "open_port", "inactive", "join",
          "new_sending", "new_receiving", "resume"}
Leaving == <<"close_port", "null_port", "close_sending", "close_receiving",
             "interrupt", "buttons">>
Restarting == <<"close_port", "null_port", "close_sending", "close_receiving",
                "interrupt", "new_port", "connect", "open_port">>
Closing == <<"close_port", "null_port", "close_sending", "close_receiving",
             "interrupt", "inactive", "close_sending", "close_receiving",
             "interrupt", "join">>
Opening == <<"close_sending", "close_receiving", "interrupt", "new_sending",
             "new_receiving", "open_port">>
Resuming == <<"resume", "open_port">>

From(plan, n) == ui = SubSeq(plan, n, Len(plan))

(* The form is in one of these lists, or idle, and in each the ports and   *)
(* clients that its steps have closed are closed, but a port whose Close   *)
(* has thrown.                                                             *)
LeavingAt(n)    == From(Leaving, n) /\ (n >= 2 => openPorts \subseteq unclosed)
RestartingAt(n) == From(Restarting, n) /\ (n >= 2 => openPorts \subseteq unclosed)

ClosingAt(n) ==
  /\ From(Closing, n) /\ (n >= 2 => openPorts \subseteq unclosed)
  /\ n >= 8 => udpSendingClient = null
  /\ n >= 9 => udpReceivingClient = null

OpeningAt(n) ==
  /\ From(Opening, n) /\ openPorts \subseteq unclosed
  /\ n \in 2 .. 4 => udpSendingClient = null
  /\ n \in 3 .. 5 => udpReceivingClient = null
  /\ n = 5 => udpSendingClient # null
  /\ n = 6 => udpSendingClient # null \/ refused

ResumingAt(n) ==
  From(Resuming, n) /\ openPorts \subseteq unclosed /\ udpSendingClient # null

Planned ==
  \/ ui = <<>>
  \/ \E n \in 1 .. 6  : LeavingAt(n)
  \/ \E n \in 1 .. 7  : RestartingAt(n)
  \/ \E n \in 1 .. 10 : ClosingAt(n)
  \/ \E n \in 1 .. 6  : OpeningAt(n)
  \/ \E n \in 1 .. 2  : ResumingAt(n)

(* Every open client and port is held by its field.  The receiving client  *)
(* is there only with the sending one, but between two steps that close    *)
(* them; an open port has both its button and, unless it was refused, a    *)
(* UDP client.                                                             *)
Held ==
  /\ udpSendingClient \in Clients \cup {null}
  /\ udpReceivingClient \in Clients \cup {null}
  /\ on \in Clients \cup {null}
  /\ opened \subseteq Clients \cap {udpSendingClient, udpReceivingClient}
  /\ openPorts \subseteq {CommPort} \cup unclosed
  /\ CommPort \in openPorts \ unclosed =>
       DisconnectEnabled /\ (udpSendingClient # null \/ refused)
  /\ udpSendingClient = null /\ udpReceivingClient # null => Doing("close_receiving")
  /\ ReceivingClosed => ui = <<>> /\ opened = {} /\ openPorts \subseteq unclosed

FormInv == Planned /\ Held

(* The next step of a plan, and what is left after it.                     *)
LEMMA NextStep ==
  ASSUME NEW plan \in Seq(Steps), NEW n \in 1 .. Len(plan), From(plan, n)
  PROVE  /\ ui # <<>> /\ Head(ui) = plan[n]
         /\ Tail(ui) = SubSeq(plan, n + 1, Len(plan))
<1>1. Len(ui) = Len(plan) - n + 1 /\ Len(plan) \in n .. Len(plan)
  BY DEF From
<1>2. Head(ui) = plan[n] /\ Tail(ui) = SubSeq(plan, n + 1, Len(plan))
  BY <1>1, HeadTailOfSubSeq DEF From
<1>3. ui # <<>>
  BY <1>1
<1> QED
  BY <1>2, <1>3

(* The plans are sequences of steps.                                       *)
LEMMA Plans ==
  /\ Leaving \in Seq(Steps) /\ Len(Leaving) = 6
  /\ Restarting \in Seq(Steps) /\ Len(Restarting) = 8
  /\ Closing \in Seq(Steps) /\ Len(Closing) = 10
  /\ Opening \in Seq(Steps) /\ Len(Opening) = 6
  /\ Resuming \in Seq(Steps) /\ Len(Resuming) = 2
<1>1. Leaving \in Seq(Steps) /\ Len(Leaving) = 6
  BY DEF Leaving, Steps
<1>2. Restarting \in Seq(Steps) /\ Len(Restarting) = 8
  BY DEF Restarting, Steps
<1>3. Closing \in Seq(Steps) /\ Len(Closing) = 10
  BY DEF Closing, Steps
<1>4. Opening \in Seq(Steps) /\ Len(Opening) = 6
  BY DEF Opening, Steps
<1>5. Resuming \in Seq(Steps) /\ Len(Resuming) = 2
  BY DEF Resuming, Steps
<1> QED
  BY <1>1, <1>2, <1>3, <1>4, <1>5

(* What is asked for is one of the lists, or the rest of one.              *)
LEMMA Requests ==
  /\ FormConnect = SubSeq(Restarting, 6, 8)
  /\ DisconnectEnabled =>
       /\ FormDisconnect \o <<"buttons">> = SubSeq(Leaving, 1, 6)
       /\ FormDisconnect \o FormConnect = SubSeq(Restarting, 1, 8)
       /\ FormDisconnect \o CloseSteps = SubSeq(Closing, 1, 10)
  /\ ~DisconnectEnabled =>
       /\ FormDisconnect \o FormConnect = SubSeq(Restarting, 6, 8)
       /\ FormDisconnect \o CloseSteps = SubSeq(Closing, 6, 10)
<1>1. FormConnect = SubSeq(Restarting, 6, 8)
  BY DEF FormConnect, Restarting
<1>2. ASSUME DisconnectEnabled
      PROVE  FormDisconnect \o <<"buttons">> = SubSeq(Leaving, 1, 6)
  BY <1>2 DEF FormDisconnect, DisconnectSteps, Leaving
<1>3. ASSUME DisconnectEnabled
      PROVE  FormDisconnect \o FormConnect = SubSeq(Restarting, 1, 8)
  BY <1>3 DEF FormDisconnect, DisconnectSteps, FormConnect, Restarting
<1>4. ASSUME DisconnectEnabled
      PROVE  FormDisconnect \o CloseSteps = SubSeq(Closing, 1, 10)
  BY <1>4 DEF FormDisconnect, DisconnectSteps, CloseSteps, Closing
<1>5. ASSUME ~DisconnectEnabled
      PROVE  FormDisconnect \o FormConnect = SubSeq(Restarting, 6, 8)
  BY <1>5 DEF FormDisconnect, FormConnect, Restarting
<1>6. ASSUME ~DisconnectEnabled
      PROVE  FormDisconnect \o CloseSteps = SubSeq(Closing, 6, 10)
  BY <1>6 DEF FormDisconnect, DisconnectSteps, CloseSteps, Closing
<1> QED
  BY <1>1, <1>2, <1>3, <1>4, <1>5, <1>6

(* What a connect makes of the rest of its list.                           *)
LEMMA Connecting ==
  /\ SubSeq(Opening, 1, 6) = (DisconnectSteps \o <<"new_sending", "new_receiving">>)
                               \o SubSeq(Restarting, 8, 8)
  /\ SubSeq(Opening, 4, 6) = (<<>> \o <<"new_sending", "new_receiving">>)
                               \o SubSeq(Restarting, 8, 8)
  /\ SubSeq(Resuming, 1, 2) = <<"resume">> \o SubSeq(Opening, 6, 6)
  /\ SubSeq(Opening, 6, 6) = Tail(SubSeq(Opening, 5, 6))
<1>1. SubSeq(Opening, 1, 6) = (DisconnectSteps \o <<"new_sending", "new_receiving">>)
                                \o SubSeq(Restarting, 8, 8)
  BY DEF Opening, DisconnectSteps, Restarting
<1>2. SubSeq(Opening, 4, 6) = (<<>> \o <<"new_sending", "new_receiving">>)
                                \o SubSeq(Restarting, 8, 8)
  BY DEF Opening, Restarting
<1>3. SubSeq(Resuming, 1, 2) = <<"resume">> \o SubSeq(Opening, 6, 6)
  BY DEF Resuming, Opening
<1>4. SubSeq(Opening, 6, 6) = Tail(SubSeq(Opening, 5, 6))
  BY DEF Opening
<1> QED
  BY <1>1, <1>2, <1>3, <1>4

(* Where in the lists a step may be.                                       *)
LEMMA Positions ==
  ASSUME Planned
  PROVE
    /\ Doing("close_port") => LeavingAt(1) \/ RestartingAt(1) \/ ClosingAt(1)
    /\ Doing("null_port") => LeavingAt(2) \/ RestartingAt(2) \/ ClosingAt(2)
    /\ Doing("close_sending") =>
         LeavingAt(3) \/ RestartingAt(3) \/ ClosingAt(3)
         \/ ClosingAt(7) \/ OpeningAt(1)
    /\ Doing("close_receiving") =>
         LeavingAt(4) \/ RestartingAt(4) \/ ClosingAt(4)
         \/ ClosingAt(8) \/ OpeningAt(2)
    /\ Doing("interrupt") =>
         LeavingAt(5) \/ RestartingAt(5) \/ ClosingAt(5)
         \/ ClosingAt(9) \/ OpeningAt(3)
    /\ Doing("buttons") => LeavingAt(6)
    /\ Doing("new_port") => RestartingAt(6)
    /\ Doing("connect") => RestartingAt(7)
    /\ Doing("open_port") => OpeningAt(6) \/ ResumingAt(2)
    /\ Doing("inactive") => ClosingAt(6)
    /\ Doing("join") => ClosingAt(10)
    /\ Doing("new_sending") => OpeningAt(4)
    /\ Doing("new_receiving") => OpeningAt(5)
    /\ Doing("resume") => ResumingAt(1)
<1>1. CASE ui = <<>>
  BY <1>1 DEF Doing
<1>2. ASSUME NEW n \in 1 .. 6, LeavingAt(n)
      PROVE  Head(ui) = Leaving[n]
  BY <1>2, NextStep, Plans DEF LeavingAt
<1>3. ASSUME NEW n \in 1 .. 7, RestartingAt(n)
      PROVE  Head(ui) = Restarting[n]
  <2>1. n \in 1 .. Len(Restarting)
    BY Plans
  <2> QED
    BY <1>3, <2>1, NextStep, Plans DEF RestartingAt
<1>4. ASSUME NEW n \in 1 .. 10, ClosingAt(n)
      PROVE  Head(ui) = Closing[n]
  BY <1>4, NextStep, Plans DEF ClosingAt
<1>5. ASSUME NEW n \in 1 .. 6, OpeningAt(n)
      PROVE  Head(ui) = Opening[n]
  BY <1>5, NextStep, Plans DEF OpeningAt
<1>6. ASSUME NEW n \in 1 .. 2, ResumingAt(n)
      PROVE  Head(ui) = Resuming[n]
  BY <1>6, NextStep, Plans DEF ResumingAt
<1>7. CASE \E n \in 1 .. 6 : LeavingAt(n)
  BY <1>7, <1>2 DEF Doing, Leaving
<1>8. CASE \E n \in 1 .. 7 : RestartingAt(n)
  BY <1>8, <1>3 DEF Doing, Restarting
<1>9. CASE \E n \in 1 .. 10 : ClosingAt(n)
  BY <1>9, <1>4 DEF Doing, Closing
<1>10. CASE \E n \in 1 .. 6 : OpeningAt(n)
  BY <1>10, <1>5 DEF Doing, Opening
<1>11. CASE \E n \in 1 .. 2 : ResumingAt(n)
  BY <1>11, <1>6 DEF Doing, Resuming
<1> QED
  BY <1>1, <1>7, <1>8, <1>9, <1>10, <1>11 DEF Planned

(* What is left of each plan after its next step.                          *)
LEMMA Rest ==
  /\ \A n \in 1 .. 6  : LeavingAt(n)    => Tail(ui) = SubSeq(Leaving, n + 1, 6)
  /\ \A n \in 1 .. 7  : RestartingAt(n) => Tail(ui) = SubSeq(Restarting, n + 1, 8)
  /\ \A n \in 1 .. 10 : ClosingAt(n)    => Tail(ui) = SubSeq(Closing, n + 1, 10)
  /\ \A n \in 1 .. 6  : OpeningAt(n)    => Tail(ui) = SubSeq(Opening, n + 1, 6)
  /\ \A n \in 1 .. 2  : ResumingAt(n)   => Tail(ui) = SubSeq(Resuming, n + 1, 2)
<1>1. ASSUME NEW n \in 1 .. 6, LeavingAt(n)
      PROVE  Tail(ui) = SubSeq(Leaving, n + 1, 6)
  <2>1. n \in 1 .. Len(Leaving) /\ Len(Leaving) = 6 /\ Leaving \in Seq(Steps)
    BY <1>1, Plans
  <2> QED
    BY <1>1, <2>1, NextStep DEF LeavingAt
<1>2. ASSUME NEW n \in 1 .. 7, RestartingAt(n)
      PROVE  Tail(ui) = SubSeq(Restarting, n + 1, 8)
  <2>1. n \in 1 .. Len(Restarting) /\ Len(Restarting) = 8 /\ Restarting \in Seq(Steps)
    BY <1>2, Plans
  <2> QED
    BY <1>2, <2>1, NextStep DEF RestartingAt
<1>3. ASSUME NEW n \in 1 .. 10, ClosingAt(n)
      PROVE  Tail(ui) = SubSeq(Closing, n + 1, 10)
  <2>1. n \in 1 .. Len(Closing) /\ Len(Closing) = 10 /\ Closing \in Seq(Steps)
    BY Plans
  <2> QED
    BY <1>3, <2>1, NextStep DEF ClosingAt
<1>4. ASSUME NEW n \in 1 .. 6, OpeningAt(n)
      PROVE  Tail(ui) = SubSeq(Opening, n + 1, 6)
  <2>1. n \in 1 .. Len(Opening) /\ Len(Opening) = 6 /\ Opening \in Seq(Steps)
    BY <1>4, Plans
  <2> QED
    BY <1>4, <2>1, NextStep DEF OpeningAt
<1>5. ASSUME NEW n \in 1 .. 2, ResumingAt(n)
      PROVE  Tail(ui) = SubSeq(Resuming, n + 1, 2)
  <2>1. n \in 1 .. Len(Resuming) /\ Len(Resuming) = 2 /\ Resuming \in Seq(Steps)
    BY <1>5, Plans
  <2> QED
    BY <1>5, <2>1, NextStep DEF ResumingAt
<1> QED
  BY <1>1, <1>2, <1>3, <1>4, <1>5

(* The steps of the form's own.                                            *)
LEMMA NewPortKeeps == FormInv /\ NewPort => FormInv'
<1> SUFFICES ASSUME FormInv, NewPort PROVE FormInv'
  OBVIOUS
<1>1. /\ ui # <<>> /\ Doing("new_port") /\ ui' = Tail(ui)
      /\ UNCHANGED <<openPorts, unclosed>>
      /\ UNCHANGED <<udpSendingClient, udpReceivingClient, refused>>
  BY DEF NewPort, Doing, Done, FormInv, Held
<1>2. Planned'
  <2>1. CASE RestartingAt(6)
    BY <1>1, <2>1, Rest, Plans DEF RestartingAt, Planned, From
  <2> QED
    BY <1>1, <2>1, Positions DEF FormInv
<1>3. Held'
  <2>1. openPorts \subseteq unclosed
    BY <1>1, Positions DEF FormInv, RestartingAt
  <2> QED
    BY <1>1, <2>1 DEF FormInv, Held, NewPort, Doing
<1> QED
  BY <1>2, <1>3 DEF FormInv

(* open_port ends a plan, with a sending client and a button.              *)
LEMMA OpenPortKeeps == FormInv /\ OpenPort => FormInv'
<1> SUFFICES ASSUME FormInv, OpenPort PROVE FormInv'
  OBVIOUS
<1>1. /\ ui # <<>> /\ Doing("open_port") /\ ui' = Tail(ui)
      /\ UNCHANGED <<udpSendingClient, udpReceivingClient, refused, unclosed, CommPort>>
  BY DEF OpenPort, Doing, Done, FormInv, Held
<1>2. Planned'
  <2>1. CASE OpeningAt(6)
    BY <1>1, <2>1, Rest, SubSeqEmpty DEF Planned
  <2>2. CASE ResumingAt(2)
    BY <1>1, <2>2, Rest, SubSeqEmpty DEF Planned
  <2> QED
    BY <1>1, <2>1, <2>2, Positions DEF FormInv
<1>3. Held'
  <2>1. openPorts \subseteq unclosed /\ (udpSendingClient # null \/ refused)
    BY <1>1, Positions DEF FormInv, OpeningAt, ResumingAt
  <2> QED
    BY <1>1, <2>1 DEF FormInv, Held, OpenPort, Doing
<1> QED
  BY <1>2, <1>3 DEF FormInv

(* close_port begins a plan: no port is open after it, but one whose Close *)
(* has thrown.                                                             *)
LEMMA ClosePortKeeps == FormInv /\ ClosePort => FormInv'
<1> SUFFICES ASSUME FormInv, ClosePort PROVE FormInv'
  OBVIOUS
<1>1. /\ ui # <<>> /\ Doing("close_port") /\ ui' = Tail(ui)
      /\ openPorts' \subseteq unclosed' /\ unclosed \subseteq unclosed'
      /\ UNCHANGED <<udpSendingClient, udpReceivingClient, refused>>
  BY DEF ClosePort, Doing, Done, FormInv, Held
<1>2. Planned'
  <2>1. CASE LeavingAt(1)
    BY <1>1, <2>1, Rest, Plans DEF LeavingAt, Planned, From
  <2>2. CASE RestartingAt(1)
    BY <1>1, <2>2, Rest, Plans DEF RestartingAt, Planned, From
  <2>3. CASE ClosingAt(1)
    BY <1>1, <2>3, Rest, Plans DEF ClosingAt, Planned, From
  <2> QED
    BY <1>1, <2>1, <2>2, <2>3, Positions DEF FormInv
<1>3. Held'
  BY <1>1 DEF FormInv, Held, ClosePort, Doing
<1> QED
  BY <1>2, <1>3 DEF FormInv

(* null_port forgets a port that is closed.                                *)
LEMMA NullPortKeeps == FormInv /\ NullPort => FormInv'
<1> SUFFICES ASSUME FormInv, NullPort PROVE FormInv'
  OBVIOUS
<1>1. /\ ui # <<>> /\ Doing("null_port") /\ ui' = Tail(ui)
      /\ UNCHANGED <<openPorts, unclosed>>
      /\ UNCHANGED <<udpSendingClient, udpReceivingClient, refused>>
  BY DEF NullPort, Doing, Done, FormInv, Held
<1>2. Planned'
  <2>1. CASE LeavingAt(2)
    BY <1>1, <2>1, Rest, Plans DEF LeavingAt, Planned, From
  <2>2. CASE RestartingAt(2)
    BY <1>1, <2>2, Rest, Plans DEF RestartingAt, Planned, From
  <2>3. CASE ClosingAt(2)
    BY <1>1, <2>3, Rest, Plans DEF ClosingAt, Planned, From
  <2> QED
    BY <1>1, <2>1, <2>2, <2>3, Positions DEF FormInv
<1>3. Held'
  <2>1. openPorts \subseteq unclosed
    BY <1>1, Positions DEF FormInv, LeavingAt, RestartingAt, ClosingAt
  <2> QED
    BY <1>1, <2>1 DEF FormInv, Held, NullPort, Doing
<1> QED
  BY <1>2, <1>3 DEF FormInv

(* buttons ends the plan to disconnect, with nothing open.                 *)
LEMMA ButtonsKeeps == FormInv /\ Buttons => FormInv'
<1> SUFFICES ASSUME FormInv, Buttons PROVE FormInv'
  OBVIOUS
<1>1. /\ ui # <<>> /\ Doing("buttons") /\ ui' = Tail(ui)
      /\ UNCHANGED <<openPorts, unclosed>>
      /\ UNCHANGED <<udpSendingClient, udpReceivingClient, refused>>
  BY DEF Buttons, Doing, Done, FormInv, Held
<1>2. Planned'
  <2>1. CASE LeavingAt(6)
    BY <1>1, <2>1, Rest, SubSeqEmpty DEF Planned
  <2> QED
    BY <1>1, <2>1, Positions DEF FormInv
<1>3. Held'
  <2>1. openPorts \subseteq unclosed
    BY <1>1, Positions DEF FormInv, LeavingAt
  <2> QED
    BY <1>1, <2>1 DEF FormInv, Held, Buttons, Doing
<1> QED
  BY <1>2, <1>3 DEF FormInv

(* A new client is none of those that are open or received on.             *)
LEMMA NewClientFresh ==
  ASSUME NEW c \in Clients \cup {null}, opened \subseteq {c}, on \in Clients \cup {null}
  PROVE  NewClient \in Clients /\ NewClient \notin opened \cup {on} /\ NewClient # null
<1>1. \E d \in Clients : d \notin {c, on}
  BY ClientsAssumption DEF null
<1>2. \E d \in Clients : d \notin opened \cup {on}
  BY <1>1
<1>3. NewClient \in Clients /\ NewClient \notin opened \cup {on}
  BY <1>2 DEF NewClient
<1> QED
  BY <1>3, ClientsAssumption DEF null

(* The steps of UdpCommunicator that its caller does.                      *)
LEMMA NewSendingKeeps == FormInv /\ NewSending /\ UNCHANGED port => FormInv'
<1> SUFFICES ASSUME FormInv, NewSending, UNCHANGED port PROVE FormInv'
  OBVIOUS
<1>0. NewClient \in Clients /\ NewClient # null
  <2>1. udpSendingClient = null /\ udpReceivingClient = null
    BY Positions DEF FormInv, OpeningAt, NewSending
  <2> QED
    BY <2>1, NewClientFresh DEF FormInv, Held
<1>1. /\ OpeningAt(4) /\ Tail(ui) = SubSeq(Opening, 5, 6)
      /\ udpSendingClient = null /\ udpReceivingClient = null /\ openPorts \subseteq unclosed
  BY Positions, Rest DEF FormInv, OpeningAt, NewSending
<1>2. CASE /\ Done /\ udpSendingClient' = NewClient /\ opened' = opened \cup {NewClient}
           /\ UNCHANGED refused
  <2>1. OpeningAt(5)'
    BY <1>0, <1>1, <1>2, Plans DEF OpeningAt, From, Done, NewSending
  <2>2. Held'
    BY <1>0, <1>1, <1>2 DEF FormInv, Held, NewSending, Doing
  <2> QED
    BY <2>1, <2>2 DEF FormInv, Planned
<1>3. CASE /\ ui' = Tail(Tail(ui)) /\ refused' = TRUE
           /\ UNCHANGED <<udpSendingClient, opened>>
  <2>1. ui' = SubSeq(Opening, 6, 6)
    BY <1>1, <1>3, Connecting
  <2>2. OpeningAt(6)'
    BY <1>1, <1>3, <2>1, Plans, SMTT(30) DEF OpeningAt, From
  <2>3. Held'
    BY <1>1, <1>3 DEF FormInv, Held, NewSending, Doing
  <2> QED
    BY <2>2, <2>3 DEF FormInv, Planned
<1> QED
  BY <1>2, <1>3 DEF NewSending

(* interrupt touches neither clients nor ports.                            *)
LEMMA InterruptReceiverKeeps == FormInv /\ InterruptReceiver /\ UNCHANGED port => FormInv'
<1> SUFFICES ASSUME FormInv, InterruptReceiver, UNCHANGED port PROVE FormInv'
  OBVIOUS
<1>1. /\ ui # <<>> /\ Doing("interrupt") /\ ui' = Tail(ui)
      /\ UNCHANGED <<openPorts, unclosed, refused>>
      /\ UNCHANGED udpSendingClient
      /\ UNCHANGED udpReceivingClient
  BY DEF InterruptReceiver, Doing, Done, FormInv, Held
<1>2. Planned'
  <2>1. CASE LeavingAt(5)
    BY <1>1, <2>1, Rest, Plans DEF LeavingAt, Planned, From
  <2>2. CASE RestartingAt(5)
    BY <1>1, <2>2, Rest, Plans DEF RestartingAt, Planned, From
  <2>3. CASE ClosingAt(5)
    BY <1>1, <2>3, Rest, Plans DEF ClosingAt, Planned, From
  <2>4. CASE ClosingAt(9)
    BY <1>1, <2>4, Rest, Plans DEF ClosingAt, Planned, From
  <2>5. CASE OpeningAt(3)
    BY <1>1, <2>5, Rest, Plans DEF OpeningAt, Planned, From
  <2> QED
    BY <1>1, <2>1, <2>2, <2>3, <2>4, <2>5, Positions DEF FormInv
<1>3. Held'
  BY <1>1 DEF FormInv, Held, InterruptReceiver, Doing
<1> QED
  BY <1>2, <1>3 DEF FormInv

(* inactive changes a flag of the thread only.                             *)
LEMMA InactiveKeeps == FormInv /\ Inactive /\ UNCHANGED port => FormInv'
<1> SUFFICES ASSUME FormInv, Inactive, UNCHANGED port PROVE FormInv'
  OBVIOUS
<1>1. /\ ui # <<>> /\ Doing("inactive") /\ ui' = Tail(ui)
      /\ UNCHANGED <<openPorts, unclosed, refused>>
      /\ UNCHANGED udpSendingClient
      /\ UNCHANGED udpReceivingClient
  BY DEF Inactive, Doing, Done, FormInv, Held
<1>2. Planned'
  <2>1. CASE ClosingAt(6)
    BY <1>1, <2>1, Rest, Plans DEF ClosingAt, Planned, From
  <2> QED
    BY <1>1, <2>1, Positions DEF FormInv
<1>3. Held'
  BY <1>1 DEF FormInv, Held, Inactive, Doing
<1> QED
  BY <1>2, <1>3 DEF FormInv

(* resume sets the event of the thread only.                               *)
LEMMA ResumeKeeps == FormInv /\ Resume /\ UNCHANGED port => FormInv'
<1> SUFFICES ASSUME FormInv, Resume, UNCHANGED port PROVE FormInv'
  OBVIOUS
<1>1. /\ ui # <<>> /\ Doing("resume") /\ ui' = Tail(ui)
      /\ UNCHANGED <<openPorts, unclosed, refused>>
      /\ UNCHANGED udpSendingClient
      /\ UNCHANGED udpReceivingClient
  BY DEF Resume, Doing, Done, FormInv, Held
<1>2. Planned'
  <2>1. CASE ResumingAt(1)
    BY <1>1, <2>1, Rest, Plans DEF ResumingAt, Planned, From
  <2> QED
    BY <1>1, <2>1, Positions DEF FormInv
<1>3. Held'
  BY <1>1 DEF FormInv, Held, Resume, Doing
<1> QED
  BY <1>2, <1>3 DEF FormInv

(* close_receiving closes the client that the field refers to.             *)
LEMMA CloseReceivingKeeps == FormInv /\ CloseReceiving /\ UNCHANGED port => FormInv'
<1> SUFFICES ASSUME FormInv, CloseReceiving, UNCHANGED port PROVE FormInv'
  OBVIOUS
<1>1. /\ ui # <<>> /\ Doing("close_receiving") /\ ui' = Tail(ui)
      /\ UNCHANGED <<openPorts, unclosed, refused>>
      /\ UNCHANGED udpSendingClient
      /\ udpReceivingClient' = null
  BY DEF CloseReceiving, Doing, Done, FormInv, Held
<1>2. Planned'
  <2>1. CASE LeavingAt(4)
    BY <1>1, <2>1, Rest, Plans DEF LeavingAt, Planned, From
  <2>2. CASE RestartingAt(4)
    BY <1>1, <2>2, Rest, Plans DEF RestartingAt, Planned, From
  <2>3. CASE ClosingAt(4)
    BY <1>1, <2>3, Rest, Plans DEF ClosingAt, Planned, From
  <2>4. CASE ClosingAt(8)
    BY <1>1, <2>4, Rest, Plans DEF ClosingAt, Planned, From
  <2>5. CASE OpeningAt(2)
    BY <1>1, <2>5, Rest, Plans DEF OpeningAt, Planned, From
  <2> QED
    BY <1>1, <2>1, <2>2, <2>3, <2>4, <2>5, Positions DEF FormInv
<1>3. Held'
  BY <1>1 DEF FormInv, Held, CloseReceiving, Doing
<1> QED
  BY <1>2, <1>3 DEF FormInv

(* join ends the plan to close: nothing is open after it.                  *)
LEMMA JoinKeeps == FormInv /\ Join /\ UNCHANGED port => FormInv'
<1> SUFFICES ASSUME FormInv, Join, UNCHANGED port PROVE FormInv'
  OBVIOUS
<1>1. /\ ui # <<>> /\ Doing("join") /\ ui' = Tail(ui)
      /\ UNCHANGED <<openPorts, unclosed, refused>>
      /\ UNCHANGED udpSendingClient
      /\ UNCHANGED udpReceivingClient
  BY DEF Join, Doing, Done, FormInv, Held
<1>2. Planned'
  <2>1. CASE ClosingAt(10)
    BY <1>1, <2>1, Rest, SubSeqEmpty DEF Planned
  <2> QED
    BY <1>1, <2>1, Positions DEF FormInv
<1>3. Held'
  <2>1. /\ openPorts \subseteq unclosed
        /\ udpSendingClient = null /\ udpReceivingClient = null /\ ui' = <<>>
    BY <1>1, Positions, Rest, SubSeqEmpty DEF FormInv, ClosingAt
  <2>2. opened = {}
    BY <2>1, ClientsAssumption DEF FormInv, Held, null
  <2> QED
    BY <1>1, <2>1, <2>2 DEF FormInv, Held, Join
<1> QED
  BY <1>2, <1>3 DEF FormInv

(* close_sending closes the client that the field refers to.               *)
LEMMA CloseSendingKeeps == FormInv /\ CloseSending /\ UNCHANGED port => FormInv'
<1> SUFFICES ASSUME FormInv, CloseSending, UNCHANGED port PROVE FormInv'
  OBVIOUS
<1>1. /\ ui # <<>> /\ Doing("close_sending") /\ ui' = Tail(ui)
      /\ UNCHANGED <<openPorts, unclosed, refused>>
      /\ udpSendingClient' = null
      /\ UNCHANGED udpReceivingClient
  BY DEF CloseSending, Doing, Done, FormInv, Held
<1>2. Planned'
  <2>1. CASE LeavingAt(3)
    BY <1>1, <2>1, Rest, Plans DEF LeavingAt, Planned, From
  <2>2. CASE RestartingAt(3)
    BY <1>1, <2>2, Rest, Plans DEF RestartingAt, Planned, From
  <2>3. CASE ClosingAt(3)
    BY <1>1, <2>3, Rest, Plans DEF ClosingAt, Planned, From
  <2>4. CASE ClosingAt(7)
    BY <1>1, <2>4, Rest, Plans DEF ClosingAt, Planned, From
  <2>5. CASE OpeningAt(1)
    BY <1>1, <2>5, Rest, Plans DEF OpeningAt, Planned, From
  <2> QED
    BY <1>1, <2>1, <2>2, <2>3, <2>4, <2>5, Positions DEF FormInv
<1>3. Held'
  <2>1. openPorts \subseteq unclosed
    BY <1>1, Positions DEF FormInv, LeavingAt, RestartingAt, ClosingAt, OpeningAt
  <2>2. Doing("close_receiving")'
    <3>1. CASE LeavingAt(3)
      <4>0. 3 \in 1 .. 6 /\ 3 + 1 = 4
        OBVIOUS
      <4>1. ui' = SubSeq(Leaving, 4, 6)
        BY <1>1, <3>1, <4>0, Rest
      <4> QED
        BY <4>1 DEF Doing, Leaving
    <3>2. CASE RestartingAt(3)
      <4>1. ui' = SubSeq(Restarting, 4, 8)
        BY <1>1, <3>2, Rest
      <4> QED
        BY <4>1 DEF Doing, Restarting
    <3>3. CASE ClosingAt(3)
      <4>1. ui' = SubSeq(Closing, 4, 10)
        <5>1. 3 \in 1 .. 10 /\ 3 + 1 = 4
          OBVIOUS
        <5>2. Tail(ui) = SubSeq(Closing, 3 + 1, 10)
          BY <3>3, <5>1, Rest
        <5> QED
          BY <1>1, <5>1, <5>2
      <4> QED
        BY <4>1 DEF Doing, Closing
    <3>4. CASE ClosingAt(7)
      <4>1. ui' = SubSeq(Closing, 8, 10)
        <5>1. 7 \in 1 .. 10 /\ 7 + 1 = 8
          OBVIOUS
        <5>2. Tail(ui) = SubSeq(Closing, 7 + 1, 10)
          BY <3>4, <5>1, Rest
        <5> QED
          BY <1>1, <5>1, <5>2
      <4> QED
        BY <4>1 DEF Doing, Closing
    <3>5. CASE OpeningAt(1)
      <4>1. ui' = SubSeq(Opening, 2, 6)
        BY <1>1, <3>5, Rest, SMTT(30)
      <4> QED
        BY <4>1 DEF Doing, Opening
    <3> QED
      BY <1>1, <3>1, <3>2, <3>3, <3>4, <3>5, Positions DEF FormInv
  <2> QED
    BY <1>1, <2>1, <2>2 DEF FormInv, Held, CloseSending, Doing
<1> QED
  BY <1>2, <1>3 DEF FormInv


(* new_receiving puts a client into a field that referred to none.         *)
LEMMA NewReceivingKeeps == FormInv /\ NewReceiving /\ UNCHANGED port => FormInv'
<1> SUFFICES ASSUME FormInv, NewReceiving, UNCHANGED port PROVE FormInv'
  OBVIOUS
<1>1. OpeningAt(5) /\ udpReceivingClient = null /\ openPorts \subseteq unclosed
  BY Positions DEF FormInv, NewReceiving, OpeningAt
<1>2. /\ NewClient \in Clients /\ NewClient # null /\ Tail(ui) = SubSeq(Opening, 6, 6)
      /\ udpSendingClient \in Clients \cup {null} /\ opened \subseteq {udpSendingClient}
  <2>1. udpSendingClient \in Clients \cup {null} /\ opened \subseteq {udpSendingClient}
    BY <1>1, ClientsAssumption DEF FormInv, Held, null
  <2> QED
    BY <1>1, <2>1, NewClientFresh, Rest DEF FormInv, Held
<1>3. CASE /\ ui' = <<"resume">> \o Tail(ui)
           /\ udpReceivingClient' = NewClient /\ opened' = opened \cup {NewClient}
           /\ UNCHANGED <<udpSendingClient, refused>>
  <2>1. ui' = SubSeq(Resuming, 1, 2)
    BY <1>2, <1>3, Connecting
  <2>0. udpSendingClient # null /\ openPorts' \subseteq unclosed'
    BY <1>1 DEF OpeningAt
  <2>2. Planned'
    <3>1. ResumingAt(1)'
      BY <1>3, <2>1, <2>0, Plans DEF ResumingAt, From
    <3> QED
      BY <3>1 DEF Planned
  <2>3. Held'
    BY <1>1, <1>2, <1>3, <2>0 DEF FormInv, Held, NewReceiving, Doing
  <2> QED
    BY <2>2, <2>3 DEF FormInv
<1>4. CASE Done /\ UNCHANGED clients
  <2>1. ui' = SubSeq(Opening, 6, 6)
    BY <1>2, <1>4 DEF Done
  <2>2. Planned'
    BY <1>1, <1>4, <2>1, Plans DEF Planned, OpeningAt, From
  <2> QED
    BY <1>1, <1>4, <2>2 DEF FormInv, Held, OpeningAt, NewReceiving, Doing
<1> QED
  BY <1>3, <1>4 DEF NewReceiving

(* connect goes on with a plan of its own, whatever exists already.        *)
LEMMA ConnectCallKeeps == FormInv /\ ConnectCall /\ UNCHANGED port => FormInv'
<1> SUFFICES ASSUME FormInv, ConnectCall, UNCHANGED port PROVE FormInv'
  OBVIOUS
<1>1. /\ RestartingAt(7) /\ openPorts \subseteq unclosed /\ ~ReceivingClosed
      /\ openPorts' \subseteq unclosed'
      /\ UNCHANGED <<udpSendingClient, udpReceivingClient, refused>>
  BY Positions DEF FormInv, Held, ConnectCall, RestartingAt, Doing
<1>2. Tail(ui) = SubSeq(Restarting, 8, 8)
  BY <1>1, Rest
<1>3. Planned'
  <2>1. CASE udpSendingClient # null
    <3>1. ui' = SubSeq(Opening, 1, 6)
      BY <1>1, <1>2, <2>1, Connecting DEF ConnectCall
    <3>2. OpeningAt(1)'
      BY <1>1, <2>1, <3>1, Plans DEF OpeningAt, From
    <3> QED
      BY <3>2 DEF Planned
  <2>2. CASE udpSendingClient = null
    <3>1. ui' = SubSeq(Opening, 4, 6)
      BY <1>1, <1>2, <2>2, Connecting DEF ConnectCall
    <3>2. udpReceivingClient = null
      BY <2>2 DEF FormInv, Held, ConnectCall, Doing
    <3>3. OpeningAt(4)'
      BY <1>1, <2>2, <3>1, <3>2, Plans DEF OpeningAt, From
    <3> QED
      BY <3>3 DEF Planned
  <2> QED
    BY <2>1, <2>2
<1>4. Held'
  BY <1>1 DEF FormInv, Held, ConnectCall, Doing
<1> QED
  BY <1>3, <1>4 DEF FormInv

(* What a click, the reset message and the closing of the form ask for.    *)
LEMMA AskedKeeps == FormInv /\ User => FormInv'
<1> SUFFICES ASSUME FormInv, User PROVE FormInv'
  OBVIOUS
<1>1. /\ ui = <<>> /\ ~ReceivingClosed
      /\ UNCHANGED <<clients, on, openPorts, unclosed, CommPort, DisconnectEnabled,
                     ReceivingClosed>>
      /\ ~DisconnectEnabled => openPorts \subseteq unclosed
  BY DEF User, ConnectButton_Click, DisconnectButton_Click, ResetMessage, FormClosing,
         Asked, FormInv, Held
<1>2. \/ DisconnectEnabled /\ ui' = SubSeq(Leaving, 1, 6)
      \/ DisconnectEnabled /\ ui' = SubSeq(Restarting, 1, 8)
      \/ DisconnectEnabled /\ ui' = SubSeq(Closing, 1, 10)
      \/ ~DisconnectEnabled /\ ui' = SubSeq(Restarting, 6, 8)
      \/ ~DisconnectEnabled /\ ui' = SubSeq(Closing, 6, 10)
  BY Requests DEF User, ConnectButton_Click, DisconnectButton_Click, ResetMessage,
                  FormClosing, Asked
<1>3. Planned'
  BY <1>1, <1>2, Plans DEF Planned, LeavingAt, RestartingAt, ClosingAt, From
<1>4. Held'
  BY <1>1 DEF FormInv, Held, Doing
<1> QED
  BY <1>3, <1>4 DEF FormInv

(* The rest leaves the form alone.                                         *)
LEMMA FormLeftAlone ==
  ASSUME FormInv, on' \in Clients \cup {null},
         UNCHANGED <<ui, clients, openPorts, unclosed, CommPort, DisconnectEnabled,
                     ReceivingClosed>>
  PROVE  FormInv'
<1>1. Planned'
  BY DEF FormInv, Planned, LeavingAt, RestartingAt, ClosingAt, OpeningAt, ResumingAt, From
<1>2. Held'
  BY DEF FormInv, Held, Doing
<1> QED
  BY <1>1, <1>2 DEF FormInv

(* Every step of the gateway keeps the plan and what it holds.             *)
LEMMA FormInvStep == FormInv /\ [SerialNext]_serialVars => FormInv'
<1> SUFFICES ASSUME FormInv, [SerialNext]_serialVars PROVE FormInv'
  OBVIOUS
<1>1. CASE Form
  <2>1. CASE CallerSteps /\ UNCHANGED <<port, serial, echoing, budget>>
    BY <2>1, ConnectCallKeeps, NewSendingKeeps, NewReceivingKeeps, ResumeKeeps,
       CloseSendingKeeps, CloseReceivingKeeps, InterruptReceiverKeeps, InactiveKeeps,
       JoinKeeps DEF CallerSteps
  <2> QED
    BY <1>1, <2>1, NewPortKeeps, OpenPortKeeps, ClosePortKeeps, NullPortKeeps, ButtonsKeeps
    DEF Form
<1>2. CASE User
  BY <1>2, AskedKeeps
<1>3. CASE BoardSends \/ commPort_DataReceived \/ SendPackets
  BY <1>3, FormLeftAlone DEF BoardSends, commPort_DataReceived, SendPackets, FormInv, Held
<1>4. CASE DatagramArrives
  BY <1>4, FormLeftAlone DEF DatagramArrives, ReceiveReturns, FormInv, Held
<1>5. CASE ReceivingThread
  <2>1. on' \in Clients \cup {null}
    BY <1>5 DEF ReceivingThread, ReceiverSteps, While, Flag, WaitOne, Receive, ReceiveThrows,
                TestPort, WritePacket, FormInv, Held
  <2>2. UNCHANGED <<ui, clients, openPorts, unclosed, CommPort, DisconnectEnabled,
                    ReceivingClosed>>
    BY <1>5 DEF ReceivingThread, ReceiverSteps, While, Flag, WaitOne, Receive, ReceiveThrows,
                TestPort, WritePacket
  <2> QED
    BY <2>1, <2>2, FormLeftAlone
<1>6. CASE UNCHANGED serialVars
  BY <1>6, FormLeftAlone DEF serialVars, FormInv, Held
<1> QED
  BY <1>1, <1>2, <1>3, <1>4, <1>5, <1>6 DEF SerialNext

(* NothingLeaks: whatever fails in a Connect, every open client and port   *)
(* stays within reach of the form, but the ports whose Close threw, and    *)
(* closing the form leaves nothing else open.                              *)
THEOREM FormHolds == SerialSpec => []NothingLeaks
<1>1. SerialInit => FormInv
  BY DEF SerialInit, CommunicatorInit, FormInv, Planned, Held, Doing
<1>2. FormInv => NothingLeaks
  BY DEF FormInv, Held, NothingLeaks
<1> QED
  BY <1>1, <1>2, FormInvStep, PTL DEF SerialSpec

-----------------------------------------------------------------------------
(* A parser that keeps the bytes that remained goes on where the scan of   *)
(* the stream stopped.                                                     *)
Remainder(bytes) == SubSeq(bytes, Scan(bytes).rest, Len(bytes))

(* What a scan leaves are bytes of its stream.                             *)
LEMMA RemainderType ==
  ASSUME NEW a \in Seq(Byte)
  PROVE  /\ Scan(a).rest \in 1 .. Len(a) + 1 /\ Scan(a).floats \in Seq(Seq(Byte))
         /\ Remainder(a) \in Seq(Byte)
<1>1. Len(a) \in Nat
  OBVIOUS
<1>2. Scan(a) \in [floats : Seq(Seq(Byte)), rest : 1 .. Len(a) + 1]
  BY <1>1, ScanUnfolds, ScanType
<1>3. Scan(a).rest \in 1 .. Len(a) + 1 /\ Scan(a).floats \in Seq(Seq(Byte))
  BY <1>2
<1> QED
  BY <1>3, Lemmas!SuffixProperties DEF Remainder

(* ParseBytes goes on where the scan of the stream stopped.                *)
LEMMA ParseContinues ==
  ASSUME NEW a \in Seq(Byte), NEW b \in Seq(Byte)
  PROVE  /\ Scan(a \o b).floats = Scan(a).floats \o ParseBytes(Remainder(a), b).floats
         /\ Remainder(a \o b) = ParseBytes(Remainder(a), b).remaining
<1> DEFINE c == a \o b
           r == Scan(a).rest
           d == SubSeq(c, r, Len(c))
           scan == ScanOf(c)[r]
<1>0. r \in 1 .. Len(a) + 1
  BY RemainderType
<1> HIDE DEF r
<1>1. /\ c \in Seq(Byte) /\ Len(c) = Len(a) + Len(b) /\ Len(a) \in Nat /\ Len(b) \in Nat
  OBVIOUS
<1>2. Remainder(a) \o b = d
  BY <1>0, Lemmas!SuffixAppended DEF Remainder, r
<1>4. Scan(c) = Continued(Scan(a), scan)
  <2>1. 1 \in 1 .. Len(a) + 1
    BY <1>1
  <2>2. ScanOf(a \o b)[1] = Continued(ScanOf(a)[1], ScanOf(a \o b)[ScanOf(a)[1].rest])
    BY <2>1, ScanSplits, Zenon
  <2>3. Scan(a) = ScanOf(a)[1]
    BY ScanUnfolds, Zenon
  <2>4. Scan(c) = ScanOf(c)[1]
    <3> HIDE DEF c
    <3> QED
      BY <1>1, ScanUnfolds, Zenon
  <2> QED
    BY <2>2, <2>3, <2>4, Zenon DEF c, r, scan
<1> HIDE DEF c
<1>r. r \in 1 .. Len(c) + 1
  BY <1>0, <1>1
<1>3. scan \in [floats : Seq(Seq(Byte)), rest : r .. Len(c) + 1]
  BY <1>1, <1>r, ScanType
<1>d. d \in Seq(Byte) /\ Len(d) = Len(c) - r + 1
  BY <1>1, <1>r, Lemmas!SuffixProperties
<1>5. Scan(d) = Moved(scan, r - 1)
  <2>1. 1 \in 1 .. Len(c) - r + 2 /\ 1 + r - 1 = r
    BY <1>1, <1>r
  <2>2. ScanOf(d)[1] = Moved(ScanOf(c)[1 + r - 1], r - 1)
    BY <1>1, <1>r, <2>1, ScanMoves
  <2>3. Scan(d) = ScanOf(d)[1]
    BY <1>d, ScanUnfolds
  <2> QED
    BY <2>1, <2>2, <2>3
<1> DEFINE m == scan.rest
           n == Scan(d).rest
<1>6. ParseBytes(Remainder(a), b) = [floats |-> Scan(d).floats,
                                     remaining |-> SubSeq(d, n, Len(d))]
  BY <1>2, Zenon DEF ParseBytes
<1>7. /\ Scan(c).floats = Scan(a).floats \o scan.floats
      /\ Scan(c).rest = m
  <2> HIDE DEF scan
  <2> QED
    BY <1>4, ContinuedParts
<1>8. Scan(d).floats = scan.floats /\ n = m - (r - 1)
  BY <1>5 DEF Moved
<1>9. m \in r .. Len(c) + 1
  BY <1>3
<1> HIDE DEF m, n, scan
<1>10. SubSeq(d, n, Len(d)) = SubSeq(c, m, Len(c))
  <2>1. n \in 1 .. Len(d) + 1 /\ n + (r - 1) = m
    BY <1>1, <1>8, <1>9, <1>d, <1>r
  <2> HIDE DEF d
  <2> QED
    BY <1>1, <1>r, <2>1, Lemmas!SuffixOfSuffix DEF d
<1>11. Remainder(c) = SubSeq(d, n, Len(d))
  BY <1>7, <1>10, Zenon DEF Remainder
<1> DEFINE p == ParseBytes(Remainder(a), b)
<1>12. p.floats = Scan(d).floats /\ p.remaining = SubSeq(d, n, Len(d))
  <2> DEFINE x == Scan(d).floats
             y == SubSeq(d, n, Len(d))
  <2>1. p = [floats |-> x, remaining |-> y]
    BY <1>6
  <2> HIDE DEF p, x, y
  <2>2. p.floats = x /\ p.remaining = y
    BY <2>1
  <2> QED
    BY <2>2 DEF x, y
<1> HIDE DEF p, d
<1>13. Scan(c).floats = Scan(a).floats \o p.floats /\ Remainder(c) = p.remaining
  BY <1>7, <1>8, <1>11, <1>12
<1> QED
  BY <1>13 DEF c, p

(* The packets that ParseBytes returns are sequences of bytes.             *)
LEMMA ParsedFloats ==
  ASSUME NEW a \in Seq(Byte), NEW b \in Seq(Byte)
  PROVE  ParseBytes(Remainder(a), b).floats \in Seq(Seq(Byte))
<1>1. Remainder(a) \o b \in Seq(Byte)
  BY RemainderType
<1> DEFINE c == Remainder(a) \o b
           x == Scan(c).floats
           y == SubSeq(c, Scan(c).rest, Len(c))
<1>2. x \in Seq(Seq(Byte))
  <2> HIDE DEF c
  <2>1. c \in Seq(Byte)
    BY <1>1 DEF c
  <2> QED
    BY <2>1, RemainderType
<1>3. ParseBytes(Remainder(a), b) = [floats |-> x, remaining |-> y]
  BY Zenon DEF ParseBytes
<1> HIDE DEF x, y
<1> QED
  BY <1>2, <1>3

(* The first element of one sequence goes to the end of another.           *)
LEMMA HandOver ==
  ASSUME NEW S, NEW p \in Seq(S), NEW q \in Seq(S), q # <<>>
  PROVE  /\ Append(p, Head(q)) \in Seq(S) /\ Tail(q) \in Seq(S)
         /\ Append(p, Head(q)) \o Tail(q) = p \o q
<1>1. /\ Head(q) \in S /\ Tail(q) \in Seq(S) /\ Append(p, Head(q)) \in Seq(S)
      /\ <<Head(q)>> \in Seq(S) /\ Append(p, Head(q)) = p \o <<Head(q)>>
  OBVIOUS
<1>2. <<Head(q)>> \o Tail(q) = q
  <2>1. SubSeq(q, 1, Len(q)) = q
    BY SubSeqFull
  <2>2. 1 \in 1 .. Len(q) /\ Len(q) \in 1 .. Len(q) /\ Head(q) = q[1]
    OBVIOUS
  <2>3. SubSeq(q, 1, Len(q)) = <<q[1]>> \o SubSeq(q, 1 + 1, Len(q))
    BY <2>2, SubSeqRecursiveFirst
  <2>4. Tail(q) = SubSeq(q, 2, Len(q))
    BY TailIsSubSeq
  <2> QED
    BY <2>1, <2>2, <2>3, <2>4
<1>3. (p \o <<Head(q)>>) \o Tail(q) = p \o (<<Head(q)>> \o Tail(q))
  BY <1>1, ConcatAssociative
<1> QED
  BY <1>1, <1>2, <1>3

(* The floats that were handed over, and then those at hand, are those     *)
(* that the scan of the stream finds.                                      *)
ParserInv ==
  /\ stream \in Seq(Byte) /\ received \in Seq(Byte) /\ next \in Nat \ {0}
  /\ handed \in Seq(Seq(Byte)) /\ batch \in Seq(Seq(Byte))
  /\ handed \o batch = Scan(stream).floats /\ RemainingBytes = Remainder(stream)

(* While no Close has thrown, packets at hand are those of the open port,  *)
(* and then none is without a client that was not refused.                 *)
HandlerInv ==
  unclosed = {} => /\ batch # <<>> => CommPort \in openPorts
                   /\ ~refused => unsent \subseteq {"threw"}

(* The steps that change what the serial side keeps.                       *)
LEMMA SerialSteps ==
  ASSUME [SerialNext]_serialVars
  PROVE  ClosePort \/ BoardSends \/ commPort_DataReceived \/ SendPackets \/ UNCHANGED serial
<1>1. Form => ClosePort \/ UNCHANGED serial
  BY DEF Form, NewPort, OpenPort, NullPort, Buttons
<1>2. User => UNCHANGED serial
  BY DEF User, ConnectButton_Click, DisconnectButton_Click, ResetMessage, FormClosing, Asked
<1>3. DatagramArrives \/ ReceivingThread => UNCHANGED serial
  BY DEF DatagramArrives, ReceivingThread, TestPort, WritePacket
<1>4. UNCHANGED serialVars => UNCHANGED serial
  BY DEF serialVars
<1> QED
  BY <1>1, <1>2, <1>3, <1>4 DEF SerialNext

(* Every step of the gateway keeps what was handed over, and is to be, in  *)
(* line with the scan.                                                     *)
LEMMA ParserInvStep == ParserInv /\ [SerialNext]_serialVars => ParserInv'
<1> SUFFICES ASSUME ParserInv, [SerialNext]_serialVars PROVE ParserInv'
  OBVIOUS
<1>1. CASE UNCHANGED serial
  BY <1>1 DEF ParserInv, handler
<1>2. CASE ClosePort
  BY <1>2 DEF ClosePort, ParserInv, handler
<1>3. CASE BoardSends
  <2>1. Script[next] \in Byte
    <3>1. next \in 1 .. Len(Script)
      BY <1>3, SerialAssumption DEF BoardSends, ParserInv
    <3> QED
      BY <3>1, SerialAssumption
  <2>2. received' \in Seq(Byte)
    BY <1>3, <2>1 DEF BoardSends, ParserInv
  <2> QED
    BY <1>3, <2>2 DEF BoardSends, ParserInv, handler
<1>4. CASE commPort_DataReceived
  <2> DEFINE parsed == ParseBytes(RemainingBytes, received)
  <2>2. /\ received' = <<>> /\ stream' = stream \o received /\ next' = next
        /\ RemainingBytes' = parsed.remaining
        /\ batch = <<>> /\ batch' = parsed.floats /\ handed' = handed
    BY <1>4 DEF commPort_DataReceived
  <2>3. /\ Scan(stream \o received).floats = Scan(stream).floats \o parsed.floats
        /\ Remainder(stream \o received) = parsed.remaining
    BY ParseContinues DEF ParserInv
  <2>4. stream' \in Seq(Byte) /\ received' \in Seq(Byte) /\ next' \in Nat \ {0}
    BY <2>2 DEF ParserInv
  <2>5. parsed.floats \in Seq(Seq(Byte))
    BY ParsedFloats DEF ParserInv
  <2> HIDE DEF parsed
  <2>6. handed = Scan(stream).floats
    BY <2>2 DEF ParserInv
  <2> QED
    BY <2>2, <2>3, <2>4, <2>5, <2>6 DEF ParserInv, Remainder
<1>5. CASE SendPackets
  <2>1. /\ batch # <<>> /\ batch' = Tail(batch) /\ handed' = Append(handed, Head(batch))
        /\ UNCHANGED <<stream, received, next, RemainingBytes>>
    BY <1>5 DEF SendPackets
  <2>2. handed \in Seq(Seq(Byte)) /\ batch \in Seq(Seq(Byte))
    BY DEF ParserInv
  <2>h. /\ Append(handed, Head(batch)) \in Seq(Seq(Byte)) /\ Tail(batch) \in Seq(Seq(Byte))
        /\ Append(handed, Head(batch)) \o Tail(batch) = handed \o batch
    BY <2>1, <2>2, HandOver, Zenon
  <2>3. /\ handed' \in Seq(Seq(Byte)) /\ batch' \in Seq(Seq(Byte))
        /\ handed' \o batch' = handed \o batch
    BY <2>1, <2>h, Zenon
  <2> QED
    BY <2>1, <2>3 DEF ParserInv
<1> QED
  BY <1>1, <1>2, <1>3, <1>4, <1>5, SerialSteps

(* A port is replaced or forgotten only with nothing at hand.              *)
LEMMA HandlerInvStep == HandlerInv /\ FormInv /\ [SerialNext]_serialVars => HandlerInv'
<1> SUFFICES ASSUME HandlerInv, FormInv, [SerialNext]_serialVars, unclosed' = {}
             PROVE  /\ batch' # <<>> => CommPort' \in openPorts'
                    /\ ~refused' => unsent' \subseteq {"threw"}
  BY DEF HandlerInv
<1>0. unclosed = {} /\ (refused => refused')
  <2>1. Form => unclosed \subseteq unclosed' /\ (refused => refused')
    <3>1. NewPort \/ OpenPort \/ ClosePort \/ NullPort \/ Buttons
            => unclosed \subseteq unclosed' /\ UNCHANGED refused
      BY DEF NewPort, OpenPort, ClosePort, NullPort, Buttons
    <3>2. ConnectCall \/ NewSending \/ NewReceiving \/ Resume => (refused => refused')
      BY DEF ConnectCall, NewSending, NewReceiving, Resume
    <3>3. CloseSending \/ CloseReceiving \/ InterruptReceiver \/ Inactive \/ Join
            => UNCHANGED refused
      BY DEF CloseSending, CloseReceiving, InterruptReceiver, Inactive, Join
    <3> QED
      BY <3>1, <3>2, <3>3 DEF Form, CallerSteps
  <2>2. User \/ BoardSends \/ commPort_DataReceived \/ SendPackets \/ DatagramArrives
          => UNCHANGED <<unclosed, refused>>
    BY DEF User, ConnectButton_Click, DisconnectButton_Click, ResetMessage, FormClosing, Asked,
           BoardSends, commPort_DataReceived, SendPackets, DatagramArrives, ReceiveReturns
  <2>3. ReceivingThread => UNCHANGED <<unclosed, refused>>
    BY DEF ReceivingThread, ReceiverSteps, While, Flag, WaitOne, Receive, ReceiveThrows,
           TestPort, WritePacket
  <2>4. UNCHANGED serialVars => UNCHANGED <<unclosed, refused>>
    BY DEF serialVars
  <2> QED
    BY <2>1, <2>2, <2>3, <2>4 DEF SerialNext
<1>1. /\ batch # <<>> => CommPort \in openPorts
      /\ ~refused => unsent \subseteq {"threw"}
  BY <1>0 DEF HandlerInv
<1>2. CASE NewPort \/ NullPort \/ OpenPort
  <2>1. openPorts \subseteq unclosed
    BY <1>2, Positions DEF FormInv, NewPort, NullPort, OpenPort, LeavingAt, RestartingAt,
                           ClosingAt, OpeningAt, ResumingAt
  <2>2. batch = <<>>
    BY <1>0, <1>1, <2>1
  <2> QED
    BY <1>0, <1>1, <1>2, <2>2 DEF NewPort, NullPort, OpenPort, handler
<1>3. CASE ClosePort
  BY <1>0, <1>1, <1>3 DEF ClosePort, handler
<1>4. CASE commPort_DataReceived
  BY <1>0, <1>1, <1>4 DEF commPort_DataReceived
<1>5. CASE SendPackets
  <2>1. CommPort \in openPorts \ unclosed
    BY <1>0, <1>1, <1>5 DEF SendPackets
  <2>2. ~refused' => udpSendingClient # null
    BY <1>0, <2>1 DEF FormInv, Held
  <2> QED
    BY <1>0, <1>1, <1>5, <2>1, <2>2 DEF SendPackets, Send
<1>6. CASE UNCHANGED <<handler, CommPort, openPorts>>
  BY <1>0, <1>1, <1>6 DEF handler
<1>7. \/ NewPort \/ NullPort \/ OpenPort \/ ClosePort \/ commPort_DataReceived \/ SendPackets
      \/ UNCHANGED <<handler, CommPort, openPorts>>
  <2>1. Form => \/ NewPort \/ NullPort \/ OpenPort \/ ClosePort
                \/ UNCHANGED <<handler, CommPort, openPorts>>
    BY DEF Form, Buttons
  <2>2. User \/ BoardSends \/ DatagramArrives => UNCHANGED <<handler, CommPort, openPorts>>
    BY DEF User, ConnectButton_Click, DisconnectButton_Click, ResetMessage, FormClosing, Asked,
           BoardSends, DatagramArrives
  <2>3. ReceivingThread => UNCHANGED <<handler, CommPort, openPorts>>
    BY DEF ReceivingThread, TestPort, WritePacket
  <2>4. UNCHANGED serialVars => UNCHANGED <<handler, CommPort, openPorts>>
    BY DEF serialVars
  <2> QED
    BY <2>1, <2>2, <2>3, <2>4 DEF SerialNext
<1> QED
  BY <1>2, <1>3, <1>4, <1>5, <1>6, <1>7

(* SerialToUdp: wherever the port cut the board's bytes, the values handed *)
(* over for sending are those of the packets that count in the stream, in  *)
(* order, and a Send that threw is the only loss after a Connect that got  *)
(* its client.                                                             *)
THEOREM StreamIsSaid == SerialSpec => []SerialToUdp
<1>1. SerialInit => ParserInv /\ FormInv /\ HandlerInv
  <2> SUFFICES ASSUME SerialInit PROVE ParserInv /\ FormInv /\ HandlerInv
    OBVIOUS
  <2>1. FormInv /\ HandlerInv
    BY DEF SerialInit, CommunicatorInit, FormInv, Planned, Held, Doing, HandlerInv
  <2>2. <<>> \in Seq(Byte) /\ Len(<<>>) = 0 /\ 1 \in 1 .. 0 + 1
    OBVIOUS
  <2>3. Scan(<<>>) = [floats |-> <<>>, rest |-> 1]
    <3>1. Scan(<<>>) = ScanStep(<<>>, ScanOf(<<>>), 1)
      BY <2>2, ScanUnfolds
    <3>2. 0 - 1 + 1 < EASYLAB_PACKET_SIZE
      BY StreamParserAssumption DEF EASYLAB_PACKET_SIZE
    <3> QED
      BY <2>2, <3>1, <3>2 DEF ScanStep
  <2>4. Remainder(<<>>) = <<>>
    BY <2>2, <2>3 DEF Remainder
  <2>5. <<>> \in Seq(Seq(Byte)) /\ <<>> \o <<>> = <<>>
    OBVIOUS
  <2> QED
    BY <2>1, <2>2, <2>3, <2>4, <2>5 DEF SerialInit, ParserInv
<1>2. ParserInv /\ HandlerInv => SerialToUdp
  BY ScanSays DEF ParserInv, HandlerInv, SerialToUdp
<1> QED
  BY <1>1, <1>2, ParserInvStep, FormInvStep, HandlerInvStep, PTL DEF SerialSpec

-----------------------------------------------------------------------------
(* A packet that EncodeBytes makes of a chunk is one that ParseBytes reads *)
(* exactly if the byte after the floats is zero.                           *)
Chunks  == {c \in Seq(Byte) : Len(c) = FLOATS + 1}
Encoded == {[packet |-> EncodeChunk(c), of |-> c] : c \in Chunks}

(* The parts of a chunk.                                                   *)
LEMMA ChunkEnds ==
  ASSUME NEW c \in Chunks
  PROVE  /\ SubSeq(c, 1, FLOATS) \in Seq(Byte) /\ Len(SubSeq(c, 1, FLOATS)) = FLOATS
         /\ c[FLOATS + 1] \in Byte
         /\ Append(SubSeq(c, 1, FLOATS), c[FLOATS + 1]) = SubSeq(c, 1, FLOATS + 1)
<1> DEFINE s == SubSeq(c, 1, FLOATS)
           t == SubSeq(c, 1, FLOATS + 1)
           e == c[FLOATS + 1]
           u == Append(s, e)
<1>0. FLOATS \in Nat \ {0} /\ c \in Seq(Byte) /\ Len(c) = FLOATS + 1
  BY StreamParserAssumption DEF Chunks
<1>1. e \in Byte /\ \A n \in 1 .. FLOATS + 1 : c[n] \in Byte
  BY <1>0, ElementOfSeq
<1>2. /\ s \in Seq(Byte) /\ Len(s) = FLOATS /\ \A n \in 1 .. FLOATS : s[n] = c[n]
  BY <1>0, <1>1
<1>3. /\ t \in Seq(Byte) /\ Len(t) = FLOATS + 1 /\ \A n \in 1 .. FLOATS + 1 : t[n] = c[n]
  BY <1>0, <1>1
<1> HIDE DEF s, t
<1>4. /\ u \in Seq(Byte) /\ Len(u) = FLOATS + 1 /\ u[FLOATS + 1] = e
      /\ \A n \in 1 .. FLOATS : u[n] = s[n]
  <2> HIDE DEF e
  <2> QED
    BY <1>0, <1>1, <1>2
<1> HIDE DEF u
<1>5. \A n \in 1 .. FLOATS + 1 : u[n] = t[n]
  BY <1>0, <1>2, <1>3, <1>4
<1>6. u = t
  BY <1>3, <1>4, <1>5, SeqEqual
<1> QED
  BY <1>1, <1>2, <1>6 DEF s, t, u, e

(* An encoded chunk reads back if and only if the byte after it is zero.   *)
LEMMA EncodedReads ==
  ASSUME NEW c \in Chunks
  PROVE  ParseBytes(<<>>, EncodeChunk(c)).floats = <<SubSeq(c, 1, FLOATS)>>
           <=> c[FLOATS + 1] = 0
<1> DEFINE s == SubSeq(c, 1, FLOATS)
           e == c[FLOATS + 1]
           x == Crc(SubSeq(c, 1, FLOATS + 1))
           b == EncodeChunk(c)
           f == ScanOf(b)
<1>0. FLOATS \in Nat \ {0} /\ EASYLAB_PACKET_SIZE = FLOATS + 2 /\ Start \in Byte
  BY StreamParserAssumption DEF EASYLAB_PACKET_SIZE
<1>1. /\ s \in Seq(Byte) /\ Len(s) = FLOATS /\ e \in Byte
      /\ x = Xor(Crc(s), e) /\ Crc(s) \in Byte
  BY ChunkEnds, CrcAppend
<1>2. x \in Byte /\ (x = Crc(s) <=> e = 0)
  BY <1>1, StreamParserAssumption
<1>3. b = <<Start>> \o s \o <<x>>
  BY DEF EncodeChunk
<1> HIDE DEF b, s, x, e
<1>4. /\ b \in Seq(Byte) /\ Len(b) = FLOATS + 2
      /\ b[1] = Start /\ b[FLOATS + 2] = x
      /\ \A n \in 1 .. FLOATS : b[n + 1] = s[n]
  <2> DEFINE p == <<Start>> \o s
  <2>1. /\ p \in Seq(Byte) /\ Len(p) = FLOATS + 1 /\ p[1] = Start
        /\ \A n \in 1 .. FLOATS : p[n + 1] = s[n]
    BY <1>0, <1>1
  <2>2. b = p \o <<x>>
    BY <1>3
  <2> HIDE DEF p
  <2>3. /\ b \in Seq(Byte) /\ Len(b) = FLOATS + 2 /\ b[FLOATS + 2] = x
        /\ \A n \in 1 .. FLOATS + 1 : b[n] = p[n]
    BY <1>0, <1>2, <2>1, <2>2
  <2>4. 1 \in 1 .. FLOATS + 1 /\ \A n \in 1 .. FLOATS : n + 1 \in 1 .. FLOATS + 1
    BY <1>0
  <2> QED
    BY <2>1, <2>3, <2>4
<1>5. SubSeq(b, 1 + 1, 1 + FLOATS) = s
  <2> DEFINE t == SubSeq(b, 1 + 1, 1 + FLOATS)
  <2>1. \A n \in 1 + 1 .. 1 + FLOATS : b[n] \in Byte
    BY <1>0, <1>4, ElementOfSeq
  <2>2. /\ t \in Seq(Byte) /\ Len(t) = FLOATS
        /\ \A n \in 1 .. FLOATS : t[n] = b[n + 1]
    <3>1. \A n \in 1 .. FLOATS : (1 + 1) + n - 1 = n + 1
      BY <1>0
    <3> QED
      BY <1>0, <2>1, <3>1, SubSeqProperties
  <2> HIDE DEF t
  <2>3. \A n \in 1 .. FLOATS : t[n] = s[n]
    BY <1>4, <2>2
  <2>4. t = s
    BY <1>1, <2>2, <2>3, SeqEqual
  <2> QED
    BY <2>4 DEF t
<1>6. ValidPacket(b, 1) <=> e = 0
  <2>1. 1 + FLOATS + 1 = FLOATS + 2
    BY <1>0
  <2> QED
    BY <1>2, <1>4, <1>5, <2>1 DEF ValidPacket
<1>7. /\ ParseBytes(<<>>, b).floats = f[1].floats
      /\ \A j \in 1 .. FLOATS + 3 : f[j] = ScanStep(b, f, j)
  <2>1. <<>> \o b = b
    BY <1>4
  <2>2. Scan(b) = f[1] /\ \A j \in 1 .. FLOATS + 3 : f[j] = ScanStep(b, f, j)
    BY <1>0, <1>4, ScanUnfolds
  <2> DEFINE v == Scan(b).floats
             w == SubSeq(b, Scan(b).rest, Len(b))
  <2>3. ParseBytes(<<>>, b) = [floats |-> v, remaining |-> w]
    BY <2>1, Zenon DEF ParseBytes
  <2> HIDE DEF v, w
  <2>4. ParseBytes(<<>>, b).floats = v
    BY <2>3
  <2> QED
    BY <2>2, <2>4 DEF v
<1> HIDE DEF f
<1>8. CASE e = 0
  <2>1. f[FLOATS + 3] = [floats |-> <<>>, rest |-> FLOATS + 3]
    <3>1. FLOATS + 3 \in 1 .. FLOATS + 3 /\ Len(b) - (FLOATS + 3) + 1 < EASYLAB_PACKET_SIZE
      BY <1>0, <1>4
    <3> QED
      BY <1>7, <3>1 DEF ScanStep
  <2>2. f[1] = [floats |-> <<s>> \o f[FLOATS + 3].floats, rest |-> f[FLOATS + 3].rest]
    <3>1. /\ 1 \in 1 .. FLOATS + 3 /\ ~(Len(b) - 1 + 1 < EASYLAB_PACKET_SIZE)
          /\ 1 + EASYLAB_PACKET_SIZE = FLOATS + 3
      BY <1>0, <1>4
    <3> QED
      BY <1>5, <1>6, <1>7, <1>8, <3>1 DEF ScanStep
  <2>3. f[1] = [floats |-> <<s>> \o <<>>, rest |-> FLOATS + 3]
    BY <2>1, <2>2
  <2>4. f[1].floats = <<s>> \o <<>>
    BY <2>3
  <2>5. <<s>> \o <<>> = <<s>>
    BY <1>1
  <2> QED
    BY <1>7, <1>8, <2>4, <2>5 DEF b, s, e
<1>9. CASE e # 0
  <2>1. f[1] = f[1 + 1]
    <3>1. 1 \in 1 .. FLOATS + 3 /\ ~(Len(b) - 1 + 1 < EASYLAB_PACKET_SIZE)
      BY <1>0, <1>4
    <3> QED
      BY <1>6, <1>7, <1>9, <3>1 DEF ScanStep
  <2>2. f[1 + 1] = [floats |-> <<>>, rest |-> 1 + 1]
    <3>1. 1 + 1 \in 1 .. FLOATS + 3 /\ Len(b) - (1 + 1) + 1 < EASYLAB_PACKET_SIZE
      BY <1>0, <1>4
    <3> QED
      BY <1>7, <3>1 DEF ScanStep
  <2>3. f[1].floats = <<>>
    BY <2>1, <2>2
  <2>4. <<>> # <<s>>
    OBVIOUS
  <2> QED
    BY <1>7, <1>9, <2>3, <2>4 DEF b, s, e
<1> QED
  BY <1>8, <1>9

(* The packets at hand, and the last one written, are encoded chunks, and  *)
(* there is one when the thread is about to write it.                      *)
EchoInv ==
  /\ packets \in Seq(Encoded) /\ echo \in Encoded \cup {NoEcho}
  /\ receiver = "write" => packets # <<>>

(* Every step of the gateway keeps what it echoes an encoded chunk.        *)
LEMMA EchoInvStep == EchoInv /\ [SerialNext]_serialVars => EchoInv'
<1> SUFFICES ASSUME EchoInv, [SerialNext]_serialVars PROVE EchoInv'
  OBVIOUS
<1>1. CASE UNCHANGED <<packets, echo>> /\ (receiver' = "write" => receiver = "write")
  BY <1>1 DEF EchoInv
<1>2. CASE DatagramArrives
  <2>1. PICK d \in Datagrams : packets' = [n \in DOMAIN d |-> [packet |-> EncodeBytes(d)[n],
                                                              of |-> d[n]]]
    BY <1>2 DEF DatagramArrives
  <2>2. d \in Seq(Seq(Byte)) /\ \A n \in DOMAIN d : Len(d[n]) = FLOATS + 1
    BY SerialAssumption
  <2>3. DOMAIN d = 1 .. Len(d) /\ Len(d) \in Nat /\ \A n \in 1 .. Len(d) : d[n] \in Chunks
    BY <2>2 DEF Chunks
  <2>4. \A n \in 1 .. Len(d) : EncodeBytes(d)[n] = EncodeChunk(d[n])
    BY <2>3 DEF EncodeBytes
  <2>5. \A n \in 1 .. Len(d) : [packet |-> EncodeBytes(d)[n], of |-> d[n]] \in Encoded
    BY <2>3, <2>4 DEF Encoded
  <2> HIDE DEF Encoded
  <2>6. packets' \in [1 .. Len(d) -> Encoded]
    BY <2>1, <2>3, <2>5
  <2>7. packets' \in Seq(Encoded)
    BY <2>3, <2>6
  <2>8. receiver' = "handler" /\ echo' = echo
    BY <1>2 DEF DatagramArrives, ReceiveReturns, Receiver
  <2> QED
    BY <2>7, <2>8 DEF EchoInv
<1>3. CASE TestPort
  <2>1. CASE LocalPort \in openPorts /\ packets # <<>>
    BY <1>3, <2>1 DEF TestPort, EchoInv
  <2>2. CASE ~(LocalPort \in openPorts /\ packets # <<>>)
    <3>1. packets' = <<>> /\ echo' = NoEcho /\ receiver' = "while"
      BY <1>3, <2>2 DEF TestPort, Receiver
    <3> QED
      BY <3>1 DEF EchoInv
  <2> QED
    BY <2>1, <2>2
<1>4. CASE WritePacket
  <2>1. /\ packets' = Tail(packets) /\ echo' \in {echo, Head(packets)}
        /\ receiver = "write" /\ receiver' = "handler"
    BY <1>4 DEF WritePacket, Receiver
  <2>2. packets \in Seq(Encoded) /\ packets # <<>> /\ echo \in Encoded \cup {NoEcho}
    BY <2>1 DEF EchoInv
  <2>3. Tail(packets) \in Seq(Encoded) /\ Head(packets) \in Encoded
    BY <2>2
  <2> QED
    BY <2>1, <2>2, <2>3 DEF EchoInv
<1>5. \/ DatagramArrives \/ TestPort \/ WritePacket
      \/ UNCHANGED <<packets, echo>> /\ (receiver' = "write" => receiver = "write")
  <2>1. Form => UNCHANGED echoing /\ receiver' \in {receiver, "while"}
    BY DEF Form, NewPort, OpenPort, ClosePort, NullPort, Buttons, CallerSteps, ConnectCall,
           NewSending, NewReceiving, Resume, CloseSending, CloseReceiving, InterruptReceiver,
           Inactive, Join
  <2>2. User \/ BoardSends \/ commPort_DataReceived \/ SendPackets
          => UNCHANGED <<echoing, receiver>>
    BY DEF User, ConnectButton_Click, DisconnectButton_Click, ResetMessage, FormClosing, Asked,
           BoardSends, commPort_DataReceived, SendPackets
  <2>3. ReceivingThread => \/ TestPort \/ WritePacket
                           \/ UNCHANGED echoing /\ receiver' # "write"
    BY DEF ReceivingThread, ReceiverSteps, While, Flag, WaitOne, Receive, ReceiveThrows, Receiver
  <2>4. UNCHANGED serialVars => UNCHANGED <<echoing, receiver>>
    BY DEF serialVars
  <2>5. UNCHANGED echoing => UNCHANGED <<packets, echo>>
    OBVIOUS
  <2> QED
    BY <2>1, <2>2, <2>3, <2>4, <2>5 DEF SerialNext
<1> QED
  BY <1>1, <1>2, <1>3, <1>4, <1>5

(* UdpToSerial: of the packets that are written to the port, ParseBytes    *)
(* reads those whose chunk has a zero after its floats, and no other.      *)
THEOREM EchoIsRead == SerialSpec => []UdpToSerial
<1>1. SerialInit => EchoInv
  BY DEF SerialInit, CommunicatorInit, EchoInv
<1>2. EchoInv => UdpToSerial
  <2> SUFFICES ASSUME EchoInv, echo # NoEcho
               PROVE  ParseBytes(<<>>, echo.packet).floats = <<SubSeq(echo.of, 1, FLOATS)>>
                        <=> echo.of[FLOATS + 1] = 0
    BY DEF UdpToSerial
  <2>1. PICK c \in Chunks : echo = [packet |-> EncodeChunk(c), of |-> c]
    BY DEF EchoInv, Encoded
  <2>2. echo.packet = EncodeChunk(c) /\ echo.of = c
    BY <2>1
  <2> QED
    BY <2>2, EncodedReads
<1> QED
  BY <1>1, <1>2, EchoInvStep, PTL DEF SerialSpec
=============================================================================
