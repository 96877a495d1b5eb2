-------------------------- MODULE Pic18Bridge_proofs --------------------------
(***************************************************************************)
(* Proofs about the bridge firmware (Pic18Bridge), for any number of       *)
(* packets in each direction.                                              *)
(***************************************************************************)
EXTENDS Pic18Bridge, TLAPS

USE DEF global_stat, buffers, dspic, pc_side

-----------------------------------------------------------------------------
(* Every variable of the bridge, and of its two sides, keeps its type.     *)
THEOREM BridgeTyping == Spec => []TypeOK
<1> USE DEF Report, Nothing
<1>1. Init => TypeOK
  <2> SUFFICES ASSUME Init PROVE TypeOK
    OBVIOUS
  <2>1. /\ usb_rx_buffer \in [kind : Kinds, n : Nat]
        /\ ep_out \in [kind : Kinds, n : Nat]
    BY DEF Init, Kinds
  <2> QED
    BY <2>1 DEF Init, TypeOK
<1>2. TypeOK /\ [Next]_vars => TypeOK'
  <2> SUFFICES ASSUME TypeOK, [Next]_vars PROVE TypeOK'
    OBVIOUS
  <2> USE DEF TypeOK, Kinds
  <2>1. CASE USBDriverService
    <3>1. discarded' \subseteq Nat
      BY <2>1 DEF USBDriverService, HIDInitEP, InEndpoint
    <3>2. ep_out' \in [kind : Kinds, n : Nat] /\ ep_in' \in Nat
      BY <2>1 DEF USBDriverService, HIDInitEP
    <3> QED
      BY <2>1, <3>1, <3>2 DEF USBDriverService
  <2>2. CASE ExchangeSpi
    <3>1. delivered' \subseteq Nat
      BY <2>2 DEF ExchangeSpi, SentSpi
    <3>2. /\ usb_tx_buffer' \in Nat /\ request' \in BOOLEAN
          /\ to_send_usb' \in BOOLEAN /\ rejected' \subseteq Nat
      BY <2>2 DEF ExchangeSpi, ReadSpi
    <3>3. /\ place' = "rx" /\ to_send_spi' = FALSE
          /\ UNCHANGED <<connected, usb_rx_buffer, ep_out, ep_in, offered, pc_side>>
      BY <2>2 DEF ExchangeSpi
    <3>4. /\ usb_rx_buffer' \in [kind : Kinds, n : Nat]
          /\ ep_out' \in [kind : Kinds, n : Nat] /\ ep_in' \in Nat
          /\ connected' \in BOOLEAN /\ to_send_spi' \in BOOLEAN /\ offered' \in Nat
      BY <3>3
    <3>5. /\ discarded' \subseteq Nat /\ written' \in Nat /\ got' \in Nat
          /\ setup' \in BOOLEAN /\ abandoned' \in BOOLEAN
          /\ host' \in {"closed", "configure", "open", "closing"}
      BY <3>3 DEF pc_side
    <3> QED
      BY <3>1, <3>2, <3>3, <3>4, <3>5, Zenon
  <2>3. CASE TakeReport
    BY <2>3 DEF TakeReport
  <2>4. CASE SendReport
    <3>1. ep_in' \in Nat /\ to_send_usb' \in BOOLEAN
      BY <2>4 DEF SendReport
    <3> QED
      BY <2>4, <3>1 DEF SendReport
  <2>5. CASE Offer
    BY <2>5 DEF Offer
  <2>6. CASE HostConfigure \/ HostConfigureFails \/ HostDies
    BY <2>6 DEF HostConfigure, HostConfigureFails, HostDies, firmware
  <2>7. CASE HostConnect \/ HostDisconnect
    <3>1. ep_out' \in [kind : Kinds, n : Nat]
      BY <2>7 DEF HostConnect, HostDisconnect
    <3> QED
      BY <2>7, <3>1 DEF HostConnect, HostDisconnect, firmware
  <2>8. CASE HostWrite
    BY <2>8 DEF HostWrite, firmware
  <2>9. CASE HostPoll \/ HostDrain
    <3>1. got' \in Nat /\ ep_in' \in Nat
      BY <2>9 DEF HostPoll, HostDrain
    <3>2. /\ host' \in {host, "closed"}
          /\ UNCHANGED <<firmware, ep_out, setup, abandoned, written>>
      BY <2>9 DEF HostPoll, HostDrain
    <3> QED
      BY <3>1, <3>2, SMTT(30) DEF firmware
  <2>10. CASE UNCHANGED vars
    BY <2>10 DEF vars
  <2> QED
    BY <2>1, <2>2, <2>3, <2>4, <2>5, <2>6, <2>7, <2>8, <2>9, <2>10
       DEF Next, MainLoop, Host
<1> QED
  BY <1>1, <1>2, PTL DEF Spec

-----------------------------------------------------------------------------
(* No packet is ahead of those offered, and the one that the dsPIC         *)
(* requests to send is newer than all that are on their way.               *)
Newest ==
  /\ got <= offered /\ ep_in <= offered /\ usb_tx_buffer <= offered
  /\ request => /\ got < offered /\ ep_in < offered
                /\ to_send_usb => usb_tx_buffer < offered

(* A packet is rejected when it is read, never before.                     *)
RejectedOnce ==
  /\ 0 \notin rejected /\ \A n \in Nat : n > offered => n \notin rejected
  /\ request => offered \notin rejected

Up == UpInOrder /\ OnlySound /\ Newest /\ RejectedOnce

(* The way up: order and soundness from one invariant, as a packet that is *)
(* withdrawn must be none of those that go on.                             *)
LEMMA UpInv == Spec => []Up
<1> USE DEF Up, UpInOrder, OnlySound, Newest, RejectedOnce
<1>1. Init => Up
  BY DEF Init
<1>2. TypeOK /\ Up /\ [Next]_vars => Up'
  <2> SUFFICES ASSUME got \in Nat, ep_in \in Nat, usb_tx_buffer \in Nat, offered \in Nat,
                      Up, [Next]_vars
               PROVE  Up'
    BY DEF TypeOK
  <2>1. CASE USBDriverService
    BY <2>1 DEF USBDriverService, HIDInitEP
  <2>2. CASE ExchangeSpi
    <3>1. CASE request
      BY <2>2, <3>1 DEF ExchangeSpi, ReadSpi
    <3>2. CASE ~request
      BY <2>2, <3>2 DEF ExchangeSpi
    <3> QED
      BY <3>1, <3>2
  <2>3. CASE TakeReport
    BY <2>3 DEF TakeReport
  <2>4. CASE SendReport
    BY <2>4 DEF SendReport, ToSend
  <2>5. CASE Offer
    BY <2>5 DEF Offer
  <2>6. CASE HostPoll \/ HostDrain
    BY <2>6 DEF HostPoll, HostDrain, firmware
  <2>7. CASE HostConfigure \/ HostConfigureFails \/ HostDies
    BY <2>7 DEF HostConfigure, HostConfigureFails, HostDies, firmware
  <2>8. CASE HostConnect \/ HostWrite \/ HostDisconnect
    BY <2>8 DEF HostConnect, HostWrite, HostDisconnect, firmware
  <2>9. CASE UNCHANGED vars
    BY <2>9 DEF vars
  <2> QED
    BY <2>1, <2>2, <2>3, <2>4, <2>5, <2>6, <2>7, <2>8, <2>9 DEF Next, MainLoop, Host
<1> QED
  BY <1>1, <1>2, BridgeTyping, PTL DEF Spec

(* The PC gets each packet of the dsPIC at most once and in order.         *)
THEOREM UpstreamOrder == Spec => []UpInOrder
BY UpInv, PTL DEF Up

(* No packet with a wrong checksum goes to the PC.                         *)
THEOREM UpstreamSound == Spec => []OnlySound
BY UpInv, PTL DEF Up

-----------------------------------------------------------------------------
(* A session that has sent its DISCONNECT is over, or about to be: if the  *)
(* firmware still takes itself for connected then the report is waiting.   *)
LastReport ==
  (host \in {"closing", "closed"} \/ setup) /\ ~abandoned =>
    /\ ep_out \in {Nothing, Report("disconnect", 0)}
    /\ connected => ep_out = Report("disconnect", 0)

(* ... and once flex_usb_close has emptied the IN endpoint, what the main  *)
(* loop is about to send finds it free.                                    *)
LastPacket ==
  (host = "closed" \/ setup) /\ ~abandoned /\ connected /\ place = "send" => ep_in = 0

Ended == (setup => host = "configure") /\ LastReport /\ LastPacket

(* The inductive invariant of a session's end.                             *)
LEMMA EndedInv == Spec => []Ended
<1> USE DEF Ended, LastReport, LastPacket, Report, Nothing
<1>1. Init => Ended
  BY DEF Init
<1>2. TypeOK /\ Ended /\ [Next]_vars => Ended'
  <2> SUFFICES ASSUME connected \in BOOLEAN, setup \in BOOLEAN, abandoned \in BOOLEAN,
                      Ended, [Next]_vars
               PROVE  Ended'
    BY DEF TypeOK
  <2>1. CASE USBDriverService
    BY <2>1 DEF USBDriverService, HIDInitEP
  <2>2. CASE ExchangeSpi
    BY <2>2 DEF ExchangeSpi
  <2>3. CASE TakeReport
    BY <2>3 DEF TakeReport
  <2>4. CASE SendReport
    BY <2>4 DEF SendReport
  <2>5. CASE Offer
    BY <2>5 DEF Offer
  <2>6. CASE HostPoll \/ HostDrain \/ HostDies
    BY <2>6 DEF HostPoll, HostDrain, HostDies, firmware
  <2>7. CASE HostConfigure \/ HostConfigureFails \/ HostConnect
    BY <2>7 DEF HostConfigure, HostConfigureFails, HostConnect, firmware
  <2>8. CASE HostWrite
    BY <2>8 DEF HostWrite, firmware
  <2>9. CASE HostDisconnect
    BY <2>9 DEF HostDisconnect, firmware
  <2>10. CASE UNCHANGED vars
    BY <2>10 DEF vars
  <2> QED
    BY <2>1, <2>2, <2>3, <2>4, <2>5, <2>6, <2>7, <2>8, <2>9, <2>10
       DEF Next, MainLoop, Host
<1> QED
  BY <1>1, <1>2, BridgeTyping, PTL DEF Spec

(* After a session whose DISCONNECT was delivered the main loop does not   *)
(* wait for the PC, and so serves the configuration of the next session.   *)
THEOREM SessionReleasesBridge == Spec => []ClosedBridgeFree
<1>1. Ended => ClosedBridgeFree
  BY DEF Ended, LastPacket, ClosedBridgeFree, Blocked, ToSend
<1> QED
  BY <1>1, EndedInv, PTL

-----------------------------------------------------------------------------
(* To refill usb_rx_buffer is safe as the SPI exchange comes first.        *)
SpiServed == place \in {"rx", "send"} => SentSpi = {}

(* Where the PC's packets are, by number. *)
Placed ==
  /\ delivered \cup discarded \cup SentSpi \cup InEndpoint = 1 .. written
  /\ discarded \cap (delivered \cup SentSpi \cup InEndpoint) = {}
  /\ \A d \in delivered : \A n \in SentSpi \cup InEndpoint : d < n
  /\ \A n \in SentSpi : \A m \in InEndpoint : n < m

(* A step of the bridge or of the PC moves numbers from one of these sets  *)
(* to the next, or adds the next number to the endpoint's.                 *)
LEMMA Down == Spec => [](SpiServed /\ Placed)
<1> USE DEF SpiServed, Placed
<1>1. Init => SpiServed /\ Placed
  BY DEF Init, SentSpi, InEndpoint, Report, Nothing
<1>2. TypeOK /\ SpiServed /\ Placed /\ [Next]_vars => (SpiServed /\ Placed)'
  <2> SUFFICES ASSUME written \in Nat, SpiServed, Placed, [Next]_vars
               PROVE  (SpiServed /\ Placed)'
    BY DEF TypeOK
  <2>1. ASSUME UNCHANGED <<delivered, discarded, SentSpi, InEndpoint, written>>,
               place' \in {"rx", "send"} => place \in {"rx", "send"}
        PROVE  (SpiServed /\ Placed)'
    BY <2>1
  <2>2. CASE USBDriverService
    <3>1. /\ place' = "spi" /\ SentSpi' = SentSpi
          /\ UNCHANGED <<delivered, written>>
      BY <2>2 DEF USBDriverService, SentSpi
    <3>2. CASE setup
      <4>1. InEndpoint' = {} /\ discarded' = discarded \cup InEndpoint
        BY <2>2, <3>2 DEF USBDriverService, HIDInitEP, InEndpoint, Report, Nothing
      <4> QED
        BY <3>1, <4>1
    <3>3. CASE ~setup
      BY <2>1, <2>2, <3>1, <3>3 DEF USBDriverService, InEndpoint
    <3> QED
      BY <3>2, <3>3
  <2>3. CASE ExchangeSpi
    <3>1. /\ delivered' = delivered \cup SentSpi /\ SentSpi' = {}
          /\ InEndpoint' = InEndpoint /\ UNCHANGED <<discarded, written>>
      BY <2>3 DEF ExchangeSpi, SentSpi, InEndpoint
    <3> QED
      BY <3>1
  <2>4. CASE TakeReport
    <3>1. SentSpi = {} /\ UNCHANGED <<delivered, discarded, written>>
      BY <2>4 DEF TakeReport
    <3>2. InEndpoint' = {}
      BY <2>4 DEF TakeReport, InEndpoint, Report, Nothing
    <3>3. ~to_send_spi
      BY <3>1 DEF SentSpi
    <3>4. CASE ep_out.kind = "data"
      <4>1. ep_out # Nothing
        BY <3>4 DEF Report, Nothing
      <4>2. usb_rx_buffer' = ep_out /\ to_send_spi' /\ place' = "service"
        BY <2>4, <3>4, <4>1 DEF TakeReport
      <4>3. SentSpi' = InEndpoint
        BY <3>4, <4>2 DEF SentSpi, InEndpoint
      <4> QED
        BY <3>1, <3>2, <4>2, <4>3
    <3>5. CASE ep_out.kind # "data"
      <4>1. SentSpi' = {} /\ InEndpoint = {}
        BY <2>4, <3>3, <3>5 DEF TakeReport, SentSpi, InEndpoint
      <4> QED
        BY <3>1, <3>2, <4>1
    <3> QED
      BY <3>4, <3>5
  <2>5. CASE SendReport
    BY <2>1, <2>5 DEF SendReport, SentSpi, InEndpoint
  <2>6. CASE Offer
    BY <2>1, <2>6 DEF Offer, SentSpi, InEndpoint
  <2>7. CASE HostWrite
    <3>1. /\ InEndpoint = {} /\ SentSpi' = SentSpi
          /\ UNCHANGED <<place, delivered, discarded>>
      BY <2>7 DEF HostWrite, firmware, SentSpi, InEndpoint, Report, Nothing
    <3>2. CASE written' = written + 1 /\ ep_out' = Report("data", written + 1)
      <4>1. InEndpoint' = {written + 1}
        BY <3>2 DEF InEndpoint, Report
      <4> QED
        BY <3>1, <3>2, <4>1
    <3>3. CASE written' = written /\ \E k \in {"ack", "other", "bad"} : ep_out' = Report(k, 0)
      <4>1. InEndpoint' = {}
        BY <3>3 DEF InEndpoint, Report
      <4> QED
        BY <3>1, <3>3, <4>1
    <3> QED
      BY <2>7, <3>2, <3>3 DEF HostWrite
  <2>8. CASE HostConfigure \/ HostConfigureFails \/ HostPoll \/ HostDrain \/ HostDies
    BY <2>1, <2>8
    DEF HostConfigure, HostConfigureFails, HostPoll, HostDrain, HostDies, firmware,
        SentSpi, InEndpoint
  <2>9. CASE HostConnect \/ HostDisconnect
    <3>1. InEndpoint' = InEndpoint
      BY <2>9 DEF HostConnect, HostDisconnect, InEndpoint, Report, Nothing
    <3> QED
      BY <2>1, <2>9, <3>1 DEF HostConnect, HostDisconnect, firmware, SentSpi
  <2>10. CASE UNCHANGED vars
    BY <2>1, <2>10 DEF vars, SentSpi, InEndpoint
  <2> QED
    BY <2>2, <2>3, <2>4, <2>5, <2>6, <2>7, <2>8, <2>9, <2>10 DEF Next, MainLoop, Host
<1> QED
  BY <1>1, <1>2, BridgeTyping, PTL DEF Spec

(* Every data packet that the PC's endpoint took gets to the dsPIC once    *)
(* and in order, through the one buffer that TakeReport refills, or is     *)
(* discarded from the endpoint by the SET_CONFIGURATION after a session    *)
(* whose DISCONNECT was not delivered.                                     *)
THEOREM DownstreamExact == Spec => []DownExact
<1>1. Placed /\ Ended => DownExact
  BY DEF Placed, Ended, LastReport, DownExact, InEndpoint, Report, Nothing
<1> QED
  BY <1>1, Down, EndedInv, PTL
=============================================================================
