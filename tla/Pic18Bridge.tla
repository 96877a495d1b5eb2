----------------------------- MODULE Pic18Bridge -----------------------------
(***************************************************************************)
(* The bridge firmware (pic18/src/main.c): a PIC18 that forwards 64-byte   *)
(* packets between the PC, on two HID endpoints, and the dsPIC, on an SPI  *)
(* bus that it masters.  One packet per direction is buffered.  The main   *)
(* loop runs alone; the endpoints are filled and emptied by the hardware   *)
(* while it runs.  The PC side is what flex_usb.c does to the endpoints;   *)
(* the dsPIC raises a line when it has a packet.  Data packets are numbered *)
(* in each direction, from 1; the number is all that is left of a payload. *)
(***************************************************************************)
EXTENDS Integers

CONSTANT MaxPackets   \* bound on the packets sent in each direction

ASSUME BridgeAssumption == MaxPackets \in Nat

VARIABLES
  place,                       \* where the main loop is
  connected, to_send_spi, to_send_usb,                  \* global_stat
  usb_rx_buffer, usb_tx_buffer,
  ep_out,        \* the report in the OUT endpoint; Nothing: the hardware may
                 \* put one there
  ep_in,         \* the packet in the IN endpoint; 0: the firmware may put one
  setup,         \* a SET_CONFIGURATION waits to be served
  request,       \* USB_DSPIC_REQ
  offered,       \* number of the last packet of the dsPIC
  rejected,      \* those that did not pass the checksum
  got,           \* the last one that the PC got
  host,          \* where the PC is in its session
  abandoned,     \* the last session ended with no DISCONNECT delivered
  written,       \* number of the PC's last packet that the endpoint took
  delivered,     \* numbers of those that the dsPIC got
  discarded      \* numbers of those that went with the OUT endpoint's report

global_stat == <<connected, to_send_spi, to_send_usb>>
buffers == <<usb_rx_buffer, usb_tx_buffer>>
dspic   == <<request, offered, rejected, delivered>>
pc_side == <<setup, got, host, abandoned, written, discarded>>

vars == <<place, global_stat, buffers, ep_out, ep_in, dspic, pc_side>>

Kinds == {"none", "data", "ack", "connect", "disconnect", "other", "bad"}
Report(k, n) == [kind |-> k, n |-> n]
Nothing == Report("none", 0)

Init ==
  /\ place = "service"
  /\ connected = FALSE /\ to_send_spi = FALSE /\ to_send_usb = FALSE
  /\ usb_rx_buffer = Report("other", 0) /\ usb_tx_buffer = 0
  /\ ep_out = Nothing /\ ep_in = 0
  /\ request = FALSE /\ offered = 0 /\ rejected = {} /\ delivered = {}
  /\ setup = FALSE /\ got = 0 /\ host = "closed" /\ abandoned = FALSE
  /\ written = 0 /\ discarded = {}

-----------------------------------------------------------------------------
(* The number of the data packet in the OUT endpoint, if there is one, and *)
(* of the one in usb_rx_buffer that goes with the next SPI exchange.       *)
InEndpoint == IF ep_out.kind = "data" THEN {ep_out.n} ELSE {}
SentSpi    == IF to_send_spi THEN {usb_rx_buffer.n} ELSE {}

(* HIDInitEP, when SET_CONFIGURATION is served: both endpoints lose what   *)
(* is in them, a report that the PC counts as written included.            *)
HIDInitEP ==
  /\ ep_out' = Nothing /\ ep_in' = 0
  /\ discarded' = discarded \cup InEndpoint

(* USBDriverService, after and before each flex_usb_process. *)
USBDriverService ==
  /\ place = "service"
  /\ place' = "spi"
  /\ setup' = FALSE
  /\ IF setup THEN HIDInitEP ELSE UNCHANGED <<ep_out, ep_in, discarded>>
  /\ UNCHANGED <<global_stat, buffers, dspic, got, host, abandoned, written>>

(* The SPI exchange of flex_usb_process writes usb_rx_buffer if            *)
(* to_send_spi, reads usb_tx_buffer if the dsPIC requests it; a packet     *)
(* that fails its checksum withdraws the one it has overwritten.           *)
ReadSpi_unchecked ==                                                 \* mutant
  /\ usb_tx_buffer' = offered /\ request' = FALSE
  /\ \/ to_send_usb' = TRUE /\ UNCHANGED rejected
     \/ rejected' = rejected \cup {offered} /\ UNCHANGED to_send_usb

ReadSpi ==
  /\ usb_tx_buffer' = offered /\ request' = FALSE
  /\ \/ to_send_usb' = TRUE /\ UNCHANGED rejected
     \/ to_send_usb' = FALSE /\ rejected' = rejected \cup {offered}

ExchangeSpi_either ==                                                \* mutant
  /\ place = "spi" /\ place' = "rx"
  /\ IF request THEN ReadSpi /\ UNCHANGED <<to_send_spi, delivered>>
     ELSE /\ to_send_spi' = FALSE
          /\ delivered' = delivered \cup SentSpi
          /\ UNCHANGED <<usb_tx_buffer, request, to_send_usb, rejected>>
  /\ UNCHANGED <<connected, usb_rx_buffer, ep_out, ep_in, offered, pc_side>>

ExchangeSpi ==
  /\ place = "spi" /\ place' = "rx"
  /\ to_send_spi' = FALSE
  /\ delivered' = delivered \cup SentSpi
  /\ IF request THEN ReadSpi
     ELSE UNCHANGED <<usb_tx_buffer, request, to_send_usb, rejected>>
  /\ UNCHANGED <<connected, usb_rx_buffer, ep_out, ep_in, offered, pc_side>>

(* HIDRxReport copies the report of the OUT endpoint, if there is one, to  *)
(* usb_rx_buffer and arms the endpoint.  What flex_usb_process makes of it *)
(* may end the call before it sends anything to the PC.                    *)
TakeReport ==
  /\ place = "rx"
  /\ ep_out' = Nothing
  /\ usb_rx_buffer' = IF ep_out = Nothing THEN usb_rx_buffer ELSE ep_out
  /\ to_send_spi' = (to_send_spi \/ ep_out.kind = "data")
  /\ connected' = \/ ep_out.kind = "connect"
                  \/ connected /\ ep_out.kind \notin {"disconnect", "bad"}
  /\ place' = IF ep_out.kind \in {"data", "ack", "bad"} THEN "service" ELSE "send"
  /\ UNCHANGED <<to_send_usb, usb_tx_buffer, ep_in, dspic, pc_side>>

(* Then, in a connection, it waits for the IN endpoint and sends.          *)
ToSend == connected /\ to_send_usb

SendReport_repeated ==                                               \* mutant
  /\ place = "send" /\ place' = "service"
  /\ IF ToSend THEN ep_in = 0 /\ ep_in' = usb_tx_buffer ELSE UNCHANGED ep_in
  /\ UNCHANGED <<global_stat, buffers, ep_out, dspic, pc_side>>

SendReport_busy ==                                                   \* mutant
  /\ place = "send" /\ place' = "service"
  /\ IF ToSend THEN ep_in # 0 /\ ep_in' = usb_tx_buffer /\ to_send_usb' = FALSE
     ELSE UNCHANGED <<ep_in, to_send_usb>>
  /\ UNCHANGED <<connected, to_send_spi, buffers, ep_out, dspic, pc_side>>

SendReport ==
  /\ place = "send" /\ place' = "service"
  /\ IF ToSend THEN ep_in = 0 /\ ep_in' = usb_tx_buffer /\ to_send_usb' = FALSE
     ELSE UNCHANGED <<ep_in, to_send_usb>>
  /\ UNCHANGED <<connected, to_send_spi, buffers, ep_out, dspic, pc_side>>

-----------------------------------------------------------------------------
(* The dsPIC offers a packet and keeps its line up until it has been read. *)
Offer ==
  /\ ~request /\ offered < MaxPackets
  /\ request' = TRUE /\ offered' = offered + 1
  /\ UNCHANGED <<place, global_stat, buffers, ep_out, ep_in, rejected, delivered,
                 pc_side>>

-----------------------------------------------------------------------------
firmware == <<place, global_stat, buffers, dspic, discarded>>

(* flex_usb_init sets the configuration, and fails if that is not served   *)
(* in time; ...                                                            *)
HostConfigure ==
  /\ host = "closed"
  /\ host' = "configure" /\ setup' = TRUE
  /\ UNCHANGED <<firmware, ep_out, ep_in, got, abandoned, written>>

HostConfigureFails ==
  /\ host = "configure" /\ setup
  /\ host' = "closed" /\ setup' = FALSE
  /\ UNCHANGED <<firmware, ep_out, ep_in, got, abandoned, written>>

(* ... then it sends CONNECT. *)
HostConnect ==
  /\ host = "configure" /\ ~setup /\ ep_out = Nothing
  /\ ep_out' = Report("connect", 0)
  /\ host' = "open" /\ abandoned' = FALSE
  /\ UNCHANGED <<firmware, ep_in, setup, got, written>>

(* flex_usb_write; another program may send other reports. *)
HostWrite ==
  /\ host = "open" /\ ep_out = Nothing
  /\ \/ /\ written < MaxPackets
        /\ written' = written + 1 /\ ep_out' = Report("data", written + 1)
     \/ /\ \E k \in {"ack", "other", "bad"} : ep_out' = Report(k, 0)
        /\ UNCHANGED written
  /\ UNCHANGED <<firmware, ep_in, setup, got, host, abandoned>>

(* The bulk read of reader_thread. *)
HostPoll ==
  /\ host = "open" /\ ep_in # 0
  /\ got' = ep_in /\ ep_in' = 0
  /\ UNCHANGED <<firmware, ep_out, setup, host, abandoned, written>>

(* flex_usb_close sends DISCONNECT, in vain if the endpoint is not free    *)
(* within five seconds, ...                                                *)
HostDisconnect ==
  /\ host = "open" /\ host' = "closing"
  /\ abandoned' = (ep_out # Nothing)
  /\ ep_out' = IF ep_out = Nothing THEN Report("disconnect", 0) ELSE ep_out
  /\ UNCHANGED <<firmware, ep_in, setup, got, written>>

(* ... and takes a packet from the device, if there is one.                *)
HostDrain_none ==                                                    \* mutant
  /\ host = "closing" /\ host' = "closed"
  /\ UNCHANGED <<firmware, ep_out, ep_in, setup, got, abandoned, written>>

HostDrain ==
  /\ host = "closing" /\ host' = "closed"
  /\ got' = (IF ep_in = 0 THEN got ELSE ep_in) /\ ep_in' = 0
  /\ UNCHANGED <<firmware, ep_out, setup, abandoned, written>>

(* The program on the PC may be killed. *)
HostDies ==
  /\ host # "closed" /\ host' = "closed"
  /\ setup' = FALSE /\ abandoned' = TRUE
  /\ UNCHANGED <<firmware, ep_out, ep_in, got, written>>

-----------------------------------------------------------------------------
MainLoop == USBDriverService \/ ExchangeSpi \/ TakeReport \/ SendReport

Host ==
  \/ HostConfigure \/ HostConfigureFails \/ HostConnect \/ HostWrite
  \/ HostPoll \/ HostDisconnect \/ HostDrain \/ HostDies

Next == MainLoop \/ Offer \/ Host

Spec == Init /\ [][Next]_vars

(* The firmware runs; the reader thread of an open session polls.          *)
FairSpec == Spec /\ WF_vars(MainLoop) /\ WF_vars(HostPoll)

-----------------------------------------------------------------------------
TypeOK ==
  /\ place \in {"service", "spi", "rx", "send"}
  /\ connected \in BOOLEAN /\ to_send_spi \in BOOLEAN /\ to_send_usb \in BOOLEAN
  /\ usb_rx_buffer \in [kind : Kinds, n : Nat] /\ usb_tx_buffer \in Nat
  /\ ep_out \in [kind : Kinds, n : Nat] /\ ep_in \in Nat
  /\ request \in BOOLEAN /\ offered \in Nat /\ rejected \subseteq Nat
  /\ delivered \subseteq Nat /\ discarded \subseteq Nat
  /\ written \in Nat /\ got \in Nat
  /\ setup \in BOOLEAN /\ abandoned \in BOOLEAN
  /\ host \in {"closed", "configure", "open", "closing"}

(* Every data packet that the PC's endpoint took reaches the dsPIC, once   *)
(* and in order, although one buffer is refilled as soon as the endpoint   *)
(* has something; or SET_CONFIGURATION discards it from the endpoint,      *)
(* which befalls only a session that ended with no DISCONNECT delivered.   *)
DownExact ==
  /\ delivered \cup discarded \cup SentSpi \cup InEndpoint = 1 .. written
  /\ discarded \cap (delivered \cup SentSpi \cup InEndpoint) = {}
  /\ \A d \in delivered : \A n \in SentSpi \cup InEndpoint : d < n
  /\ \A n \in SentSpi : \A m \in InEndpoint : n < m
  /\ setup /\ ~abandoned => InEndpoint = {}

(* The PC gets each packet of the dsPIC at most once, and in order: what   *)
(* waits in the endpoint is newer than what it got, what is to be sent is  *)
(* newer than both.                                                        *)
UpInOrder ==
  /\ ep_in # 0 => got < ep_in
  /\ to_send_usb => got < usb_tx_buffer /\ ep_in < usb_tx_buffer

(* No packet that failed its checksum goes to the PC, although it has      *)
(* taken the place of one that was to be sent.                             *)
OnlySound ==
  /\ got \notin rejected /\ ep_in \notin rejected
  /\ to_send_usb => usb_tx_buffer \notin rejected

(* The main loop waits for the IN endpoint. *)
Blocked == place = "send" /\ ToSend /\ ep_in # 0

(* After a session whose DISCONNECT was delivered the main loop does not   *)
(* wait for a PC that no longer reads, and so will serve the next          *)
(* SET_CONFIGURATION: the packet that flex_usb_close takes after           *)
(* DISCONNECT is the one that may be in the way.                           *)
ClosedBridgeFree == (host = "closed" \/ setup) /\ ~abandoned => ~Blocked

(* In an open session each data packet of the PC that has not been         *)
(* discarded gets to the dsPIC: the polls of the reader thread keep the    *)
(* main loop from waiting for ever.                                        *)
DownDelivered ==
  \A n \in 1 .. MaxPackets :
    (n <= written /\ n \notin discarded /\ host = "open") ~>
      (n \in delivered \/ host # "open")
=============================================================================
