---------------------------- MODULE UsbDevice_proofs ----------------------------
(***************************************************************************)
(* Proofs about the control transfers of the bridge (UsbDevice), for any   *)
(* size of packet, descriptors, registers and address, and any number of   *)
(* events that disturb the bus.                                            *)
(***************************************************************************)
EXTENDS UsbDevice, SequenceTheorems, TLAPS

USE DEF power, device, ctrl, ep0, bus, known, transfer, host, firmware

-----------------------------------------------------------------------------
(* What a request is.                                                      *)
LEMMA RequestFacts ==
  ASSUME NEW q \in Requests
  PROVE  /\ q.name \in {"get_dsc", "get", "set", "set_adr"}
         /\ q.value \in {0, 1, Address} /\ q.wLength \in Nat
         /\ q.name = "set_adr" => q.of = "adr" /\ q.value = Address
         /\ q.name = "set" => q.of \in Registers /\ q.value \in {0, 1}
         /\ q.name = "get" => q.of \in Registers
         /\ q.name = "get_dsc" => q.of \in DOMAIN Descriptors \cup Unsupported
         /\ q.name \in {"get", "get_dsc"} => q.value = 0
         /\ q.of \in Unsupported => q.name = "get_dsc"
BY UsbDeviceAssumption
   DEF UsbDeviceAssumption, Requests, GetDsc, GetReg, SetReg, SetAdr

(* No request at all counts as one.                                        *)
LEMMA NoRequestType == NoRequest \in Requests
BY UsbDeviceAssumption DEF UsbDeviceAssumption, NoRequest, Requests

(* Cutting what is sent into packets loses nothing.                        *)
LEMMA Cuts ==
  ASSUME NEW s \in Seq(Nat), NEW n \in Nat
  PROVE  /\ First(s, n) \in Seq(Nat) /\ After(s, n) \in Seq(Nat)
         /\ First(s, n) \o After(s, n) = s
         /\ Len(First(s, n)) <= n
         /\ Len(First(s, n)) < n => After(s, n) = <<>>
<1> DEFINE m == MinOf(n, Len(s))
<1>1. Len(s) \in Nat /\ \A i \in 1 .. Len(s) : s[i] \in Nat
  BY LenProperties, ElementOfSeq
<1>2. m \in 0 .. Len(s) /\ m <= n /\ (m = n \/ m = Len(s))
  BY <1>1 DEF MinOf
<1> HIDE DEF m
<1>3. First(s, n) = SubSeq(s, 1, m)
  BY DEF First, m
<1>4. SubSeq(s, 1, m) \in Seq(Nat) /\ Len(SubSeq(s, 1, m)) = m
  <2>1. \A i \in 1 .. m : s[i] \in Nat
    BY <1>1, <1>2
  <2> QED
    BY <1>2, <2>1, SubSeqProperties
<1>5. After(s, n) = SubSeq(s, m + 1, Len(s)) /\ (m < n => After(s, n) = <<>>)
  <2>1. CASE m = n
    BY <2>1 DEF After
  <2>2. CASE m = Len(s) /\ m < n
    <3>1. /\ SubSeq(s, n + 1, Len(s)) = <<>>
          /\ SubSeq(s, m + 1, Len(s)) = <<>>
      BY <1>1, <2>2, SubSeqEmpty
    <3> QED
      BY <2>2, <3>1 DEF After
  <2> QED
    BY <1>1, <1>2, <2>1, <2>2
<1>6. SubSeq(s, m + 1, Len(s)) \in Seq(Nat)
  <2>1. \A i \in m + 1 .. Len(s) : s[i] \in Nat
    BY <1>1, <1>2
  <2> QED
    BY <1>1, <1>2, <2>1, SubSeqProperties
<1>7. SubSeq(s, 1, m) \o SubSeq(s, m + 1, Len(s)) = s
  <2>1. SubSeq(s, 1, m) \o SubSeq(s, m + 1, Len(s)) = SubSeq(s, 1, Len(s))
    <3>1. 1 \in 1 .. Len(s) + 1 /\ m \in 1 - 1 .. Len(s) /\ Len(s) \in m .. Len(s)
      BY <1>1, <1>2
    <3> QED
      BY <3>1, ConcatAdjacentSubSeq
  <2> QED
    BY <2>1, SubSeqFull
<1> QED
  BY <1>2, <1>3, <1>4, <1>5, <1>6, <1>7

(* The beginning of what is due, and what is still to come.                *)
LEMMA Prefixes ==
  ASSUME NEW s \in Seq(Nat), NEW t \in Seq(Nat)
  PROVE  /\ s \o t \in Seq(Nat) /\ Len(s \o t) = Len(s) + Len(t)
         /\ Len(s) \in Nat /\ Len(t) \in Nat /\ (Len(t) = 0 <=> t = <<>>)
         /\ Len(s) <= Len(s \o t) /\ s = SubSeq(s \o t, 1, Len(s))
         /\ s \o <<>> = s /\ <<>> \o s = s
<1>1. s \o t \in Seq(Nat) /\ Len(s \o t) = Len(s) + Len(t)
  BY ConcatProperties
<1>2. /\ Len(s) \in Nat /\ Len(t) \in Nat
      /\ Len(<<>>) = 0 /\ (t # <<>> => Len(t) \in Nat \ {0})
  BY LenProperties, EmptySeq
<1>3. s \o <<>> = s /\ <<>> \o s = s
  BY ConcatEmptySeq
<1>4. s = SubSeq(s \o t, 1, Len(s))
  <2>1. CASE s = <<>>
    BY <1>2, <2>1, SubSeqEmpty
  <2>2. CASE s # <<>>
    <3>1. 1 \in 1 .. Len(s) /\ Len(s) \in 1 .. Len(s)
      BY <2>2, EmptySeq
    <3> QED
      BY <3>1, SubSeqOfConcat1, SubSeqFull
  <2> QED
    BY <2>1, <2>2
<1> QED
  BY <1>1, <1>2, <1>3, <1>4

(* What is sent in three parts.                                            *)
LEMMA Associates ==
  ASSUME NEW s \in Seq(Nat), NEW t \in Seq(Nat), NEW u \in Seq(Nat)
  PROVE  (s \o t) \o u = s \o (t \o u)
BY ConcatAssociative, SMTT(30)

(* The queue of completed transactions holds two at most.                  *)
Kinds == {"setup", "in", "out"}

(* The queue with one transaction in it,                                   *)
LEMMA TakesOne ==
  ASSUME NEW x \in Kinds
  PROVE  /\ Append(<<>>, x) = <<x>> /\ <<x>> # <<>> /\ <<x>> \in Seq(Kinds)
         /\ Head(<<x>>) = x /\ Tail(<<x>>) = <<>>
<1>1. <<>> \in Seq(Kinds) /\ Append(<<>>, x) = <<x>>
  OBVIOUS
<1>2. Head(Append(<<>>, x)) = x /\ Tail(Append(<<>>, x)) = <<>>
  BY <1>1, HeadTailAppend
<1>3. Append(<<>>, x) # <<>> /\ Append(<<>>, x) \in Seq(Kinds)
  BY <1>1, AppendProperties
<1> QED
  BY <1>1, <1>2, <1>3

(* and with two.                                                           *)
LEMMA TakesTwo ==
  ASSUME NEW x \in Kinds, NEW y \in Kinds
  PROVE  /\ Append(<<x>>, y) = <<x, y>> /\ <<x, y>> # <<>> /\ <<x, y>> # <<x>>
         /\ Head(<<x, y>>) = x /\ Tail(<<x, y>>) = <<y>>
<1>1. /\ <<x>> \in Seq(Kinds) /\ <<x>> # <<>> /\ Len(<<x>>) = 1
      /\ Head(<<x>>) = x /\ Tail(<<x>>) = <<>> /\ Append(<<>>, y) = <<y>>
  BY TakesOne
<1>2. Append(<<x>>, y) = <<x, y>>
  <2>1. /\ <<x, y>> \in Seq(Kinds) /\ Len(<<x, y>>) = 2
        /\ <<x, y>>[1] = x /\ <<x, y>>[2] = y /\ <<x>>[1] = x
    OBVIOUS
  <2>2. /\ Append(<<x>>, y) \in Seq(Kinds) /\ Len(Append(<<x>>, y)) = 2
        /\ Append(<<x>>, y)[1] = x /\ Append(<<x>>, y)[2] = y
    <3>1. \A i \in 1 .. Len(<<x>>) : Append(<<x>>, y)[i] = <<x>>[i]
      BY <1>1, AppendProperties
    <3> QED
      BY <1>1, <2>1, <3>1, AppendProperties
  <2>3. \A i \in 1 .. Len(Append(<<x>>, y)) : Append(<<x>>, y)[i] = <<x, y>>[i]
    BY <2>1, <2>2
  <2> QED
    BY <2>1, <2>2, <2>3, SeqEqual
<1>3. /\ Head(Append(<<x>>, y)) = x
      /\ Tail(Append(<<x>>, y)) = <<y>>
  BY <1>1, HeadTailAppend
<1>4. Append(<<x>>, y) # <<>> /\ Len(Append(<<x>>, y)) = 2
  BY <1>1, AppendProperties
<1> QED
  BY <1>1, <1>2, <1>3, <1>4

(* The queues of the invariant differ in their first transaction.          *)
LEMMA Queues ==
  /\ Append(<<>>, "setup") = <<"setup">> /\ Append(<<>>, "in") = <<"in">>
  /\ Append(<<>>, "out") = <<"out">> /\ Append(<<"in">>, "out") = <<"in", "out">>
  /\ <<"setup">> # <<>> /\ <<"in">> # <<>> /\ <<"out">> # <<>> /\ <<"in", "out">> # <<>>
  /\ Head(<<"setup">>) = "setup" /\ Head(<<"in">>) = "in" /\ Head(<<"out">>) = "out"
  /\ Head(<<"in", "out">>) = "in" /\ Tail(<<"in", "out">>) = <<"out">>
  /\ Tail(<<"setup">>) = <<>> /\ Tail(<<"in">>) = <<>> /\ Tail(<<"out">>) = <<>>
<1>1. "setup" \in Kinds /\ "in" \in Kinds /\ "out" \in Kinds
  BY DEF Kinds
<1> QED
  BY <1>1, TakesOne, TakesTwo, Zenon

(* What a transfer is, step by step, once the host takes the device for    *)
(* ready.  Nothing is under way, the host has sent a SETUP or not yet:     *)
Settled == UADDR = addr /\ usb_device_state # "ADR_PENDING" /\ reg["cfg"] = cfg
Turning == at # "complete" /\ ~PKTDIS

Idle ==
  /\ fifo = <<>> /\ Turning /\ ctrl_trf_state = "WAIT_SETUP" /\ Settled
  /\ ep0Bo = Out(TRUE, "setup") /\ ~ep0Bi.own
  /\ stage \in {"none", "setup"}

(* ... the SIE has taken it and answers nothing more,                      *)
Asking == SetupPkt = req /\ stage = (IF IsRead(req) THEN "data" ELSE "status_in")

Requested ==
  /\ fifo = <<"setup">> /\ at # "complete" /\ PKTDIS
  /\ ~ep0Bo.own /\ ~ep0Bi.own
  /\ Settled /\ Asking
  /\ due = Reply(req) /\ got = <<>> /\ toggle = 1

(* ... the firmware has obeyed it, and the SIE owns no descriptor,         *)
Obeyed ==
  /\ UADDR = addr
  /\ usb_device_state = "ADR_PENDING" <=> SetupPkt.name = "set_adr"
  /\ reg["cfg"] = IF SetupPkt.name = "set" /\ SetupPkt.of = "cfg" THEN SetupPkt.value
                  ELSE cfg

Checked ==
  /\ fifo = <<"setup">> /\ at = "complete" /\ ~PKTDIS
  /\ ctrl_trf_state = "WAIT_SETUP"
  /\ ~ep0Bo.own /\ ~ep0Bi.own
  /\ Obeyed /\ Asking /\ got = <<>> /\ toggle = 1
  /\ claimed <=> req.of \notin Unsupported
  /\ IF claimed THEN IsRead(req) => due = First(todo, req.wLength) ELSE due = <<>>

(* ... and then a read sends what is due, packet by packet,                *)
Rest == IF ep0Bi.own /\ ep0Bi.dts = toggle THEN ep0Bi.data \o todo ELSE todo

Sending ==
  /\ ep0Bo = Out(TRUE, "any")
  /\ stage \in {"data", "status_out"}
  /\ due = got \o Rest /\ Len(due) <= req.wLength
  /\ stage = "status_out" => got = due
  /\ \/ /\ fifo = <<>> /\ ep0Bi.own /\ ~ep0Bi.stall
        /\ Len(ep0Bi.data) < EP0_BUFF_SIZE => todo = <<>>
     \/ fifo = <<"in">> /\ ~ep0Bi.own /\ ep0Bi.dts # toggle

Sent ==
  /\ fifo \in {<<"in", "out">>, <<"out">>}
  /\ ~ep0Bo.own
  /\ stage \in {"none", "setup"}

Reading == ctrl_trf_state = "CTRL_TRF_TX" /\ Turning /\ Settled /\ (Sending \/ Sent)

(* ... a write has its status to send, or has sent it,                     *)
Acknowledging ==
  /\ fifo = <<>> /\ ep0Bi.own /\ ~ep0Bi.stall /\ ep0Bi.dts = 1
  /\ ~IsRead(req) /\ Asking /\ Obeyed

Concluded ==
  /\ stage \in {"none", "setup"} /\ reg["cfg"] = cfg
  /\ IF usb_device_state = "ADR_PENDING" THEN UADDR = 0 /\ addr = Address ELSE UADDR = addr

Acknowledged == fifo = <<"in">> /\ ~ep0Bi.own /\ Concluded

(* and may not know that the host has got it,                              *)
Unheard == fifo = <<>> /\ ep0Bi.own /\ ~ep0Bi.stall /\ Concluded

Writing ==
  /\ ctrl_trf_state = "CTRL_TRF_RX" /\ Turning /\ ep0Bo = Out(TRUE, "data")
  /\ Acknowledging \/ Acknowledged \/ Unheard

(* ... and a request that nobody knows stalls the endpoint.                *)
Stalling ==
  /\ fifo = <<>> /\ Turning /\ ctrl_trf_state = "WAIT_SETUP" /\ Settled
  /\ ep0Bo = Out(TRUE, "stall") /\ ep0Bi.own /\ ep0Bi.stall
  /\ stage \in {"data", "none", "setup"}
  /\ stage = "data" => got = due

Phase == Idle \/ Requested \/ Checked \/ Reading \/ Writing \/ Stalling

(* The host's rules: it configures what it has given an address to.        *)
HostRules ==
  /\ addr = 0 => cfg = 0
  /\ stage # "none" => /\ req.name = "set_adr" => addr = 0
                       /\ req.name = "set" => addr # 0

(* All this once the host takes the device for ready, or is about to: the  *)
(* reset that it has signalled has been served.                            *)
Up == link = "ready" \/ (link = "recovery" /\ "URST" \notin UIR)

InPhase ==
  Up => /\ Phase /\ HostRules
        /\ usb_device_state = "CONFIGURED" <=> reg["cfg"] # 0
        /\ "STALL" \in UIR => Stalling /\ stage # "data"

(* What the module and the bus are, ready or not.                          *)
Attached ==
  /\ ~USBEN => usb_device_state = "DETACHED" /\ at = "bus"
  /\ plugged <=> link # "off"
  /\ link \in {"reset", "recovery", "ready"} =>
       USBEN /\ usb_device_state \notin {"DETACHED", "ATTACHED"}
  /\ stage # "none" => link = "ready"
  /\ link # "ready" => addr = 0 /\ cfg = 0
  /\ link = "ready" => "URST" \notin UIR
  /\ at = "complete" => fifo # <<>>
  /\ usb_device_state = "ADR_PENDING" => SetupPkt.name = "set_adr"

-----------------------------------------------------------------------------
(* The types, in groups.                                                   *)
FirmwareTypes ==
  /\ at \in {"bus", "activity", "reset", "events", "transaction", "complete"}
  /\ usb_device_state \in DeviceStates
  /\ UADDR \in {0, Address} /\ reg \in [Registers -> {0, 1}]
  /\ UIE \subseteq {"URST", "IDLE", "ACTV", "STALL", "TRN"}
  /\ ctrl_trf_state \in {"WAIT_SETUP", "CTRL_TRF_TX", "CTRL_TRF_RX"}
  /\ SetupPkt \in Requests /\ todo \in Seq(Nat) /\ claimed \in BOOLEAN

OutBuffers == [own : BOOLEAN, mode : {"setup", "any", "data", "stall"}]
InBuffers  == [own : BOOLEAN, stall : BOOLEAN, dts : {0, 1}, data : Seq(Nat)]

SieTypes ==
  /\ USBEN \in BOOLEAN /\ SUSPND \in BOOLEAN /\ PKTDIS \in BOOLEAN
  /\ UIR \subseteq {"URST", "IDLE", "ACTV", "STALL"}
  /\ fifo \in Seq(Kinds)

BufferTypes == ep0Bo \in OutBuffers /\ ep0Bi \in InBuffers

HostTypes ==
  /\ addr \in {0, Address} /\ cfg \in {0, 1}
  /\ req \in Requests /\ due \in Seq(Nat) /\ got \in Seq(Nat)
  /\ plugged \in BOOLEAN /\ line \in {"busy", "idle"}
  /\ link \in {"off", "attached", "reset", "recovery", "ready"}
  /\ stage \in {"none", "setup", "data", "status_out", "status_in"}
  /\ toggle \in {0, 1} /\ budget \in 0 .. Budget

Typed == FirmwareTypes /\ SieTypes /\ BufferTypes /\ HostTypes

(* The types, by the part of the system they belong to.                    *)
LEMMA Types == TypeOK <=> Typed
BY DEF TypeOK, Typed, FirmwareTypes, SieTypes, BufferTypes, HostTypes, Kinds, OutBuffers,
       InBuffers

(* A buffer descriptor that is written, or given back, is one.             *)
LEMMA Buffers ==
  /\ \A b \in BOOLEAN, m \in {"setup", "any", "data", "stall"} :
       /\ Out(b, m) \in OutBuffers /\ Out(b, m).own = b /\ Out(b, m).mode = m
  /\ \A b, s \in BOOLEAN, d \in {0, 1}, x \in Seq(Nat) :
       /\ In(b, s, d, x) \in InBuffers
       /\ In(b, s, d, x).own = b /\ In(b, s, d, x).stall = s
       /\ In(b, s, d, x).dts = d /\ In(b, s, d, x).data = x
  /\ \A o \in OutBuffers :
       /\ [o EXCEPT !.own = FALSE] \in OutBuffers
       /\ [o EXCEPT !.own = FALSE].own = FALSE /\ [o EXCEPT !.own = FALSE].mode = o.mode
       /\ o.own \in BOOLEAN
  /\ \A i \in InBuffers :
       /\ [i EXCEPT !.own = FALSE] \in InBuffers
       /\ [i EXCEPT !.own = FALSE].own = FALSE /\ [i EXCEPT !.own = FALSE].stall = i.stall
       /\ [i EXCEPT !.own = FALSE].dts = i.dts /\ [i EXCEPT !.own = FALSE].data = i.data
       /\ i.own \in BOOLEAN /\ i.stall \in BOOLEAN /\ i.dts \in {0, 1} /\ i.data \in Seq(Nat)
<1>1. /\ \A b \in BOOLEAN, m \in {"setup", "any", "data", "stall"} :
           /\ Out(b, m) \in OutBuffers /\ Out(b, m).own = b /\ Out(b, m).mode = m
      /\ \A o \in OutBuffers :
           /\ [o EXCEPT !.own = FALSE] \in OutBuffers
           /\ [o EXCEPT !.own = FALSE].own = FALSE /\ [o EXCEPT !.own = FALSE].mode = o.mode
           /\ o.own \in BOOLEAN
  BY DEF Out, OutBuffers
<1>2. \A b, s \in BOOLEAN, d \in {0, 1}, x \in Seq(Nat) :
        /\ In(b, s, d, x) \in InBuffers
        /\ In(b, s, d, x).own = b /\ In(b, s, d, x).stall = s
        /\ In(b, s, d, x).dts = d /\ In(b, s, d, x).data = x
  BY DEF In, InBuffers
<1>3. \A i \in InBuffers :
        /\ [i EXCEPT !.own = FALSE] \in InBuffers
        /\ [i EXCEPT !.own = FALSE].own = FALSE /\ [i EXCEPT !.own = FALSE].stall = i.stall
        /\ [i EXCEPT !.own = FALSE].dts = i.dts /\ [i EXCEPT !.own = FALSE].data = i.data
        /\ i.own \in BOOLEAN /\ i.stall \in BOOLEAN /\ i.dts \in {0, 1} /\ i.data \in Seq(Nat)
  BY DEF InBuffers
<1> QED
  BY <1>1, <1>2, <1>3, Zenon

(* The queue stays a queue of kinds of transaction.                        *)
LEMMA FifoType ==
  ASSUME NEW s \in Seq(Kinds), NEW x \in Kinds
  PROVE  Append(s, x) \in Seq(Kinds) /\ (s # <<>> => Tail(s) \in Seq(Kinds))
BY AppendProperties, HeadTailProperties

(* Every request is due a sequence of numbers.                             *)
LEMMA ReplyType ==
  ASSUME reg \in [Registers -> {0, 1}], NEW q \in Requests
  PROVE  /\ q.name = "get" => <<reg[q.of]>> \in Seq(Nat)
         /\ q.name = "get_dsc" /\ q.of \notin Unsupported => Descriptors[q.of] \in Seq(Nat)
         /\ Reply(q) \in Seq(Nat)
<1>1. <<>> \in Seq(Nat) /\ q.wLength \in Nat /\ (IsRead(q) => q.name \in {"get_dsc", "get"})
  BY RequestFacts DEF IsRead
<1>2. q.name = "get" => <<reg[q.of]>> \in Seq(Nat)
  <2>1. q.name = "get" => reg[q.of] \in Nat
    <3>1. q.name = "get" => q.of \in Registers
      BY RequestFacts
    <3> QED
      BY <3>1
  <2> QED
    BY <2>1
<1>3. q.name = "get_dsc" /\ q.of \notin Unsupported => Descriptors[q.of] \in Seq(Nat)
  BY RequestFacts, UsbDeviceAssumption DEF UsbDeviceAssumption
<1> QED
  BY <1>1, <1>2, <1>3, Cuts DEF Reply

(* The types hold at the start.                                            *)
LEMMA InitTypes == Init => Typed
<1> SUFFICES ASSUME Init PROVE Typed
  OBVIOUS
<1>1. NoRequest \in Requests /\ <<>> \in Seq(Nat) /\ <<>> \in Seq(Kinds)
  BY NoRequestType
<1>2. Budget \in 0 .. Budget
  BY UsbDeviceAssumption DEF UsbDeviceAssumption
<1>3. FirmwareTypes
  BY <1>1 DEF Init, FirmwareTypes, DeviceStates
<1>4. SieTypes /\ BufferTypes
  BY <1>1, Buffers DEF Init, SieTypes, BufferTypes, InOfCpu
<1>5. HostTypes
  BY <1>1, <1>2 DEF Init, HostTypes
<1> QED
  BY <1>3, <1>4, <1>5 DEF Typed

(* The firmware's steps keep the types, *)
LEMMA FirmwareTyped ==
  ASSUME Typed, Attached, Firmware
  PROVE  Typed'
<1> USE DEF DeviceStates
<1>0. /\ "cfg" \in Registers /\ "wakeup" \in Registers /\ EP0_BUFF_SIZE \in Nat
      /\ Address \in Nat /\ FirmwareTypes /\ SieTypes /\ BufferTypes /\ HostTypes
      /\ "setup" \in Kinds /\ "in" \in Kinds /\ "out" \in Kinds
      /\ ep0Bo \in OutBuffers /\ ep0Bi \in InBuffers
      /\ todo \in Seq(Nat) /\ SetupPkt \in Requests /\ fifo \in Seq(Kinds)
      /\ reg \in [Registers -> {0, 1}] /\ <<>> \in Seq(Nat) /\ plugged \in BOOLEAN
      /\ <<>> \in Seq(Kinds)
  BY UsbDeviceAssumption
     DEF UsbDeviceAssumption, Typed, FirmwareTypes, SieTypes, BufferTypes, HostTypes, Kinds
<1>100. /\ SetupPkt.wLength \in Nat /\ SetupPkt.value \in {0, 1, Address}
        /\ usb_device_state = "ADR_PENDING" => SetupPkt.value = Address
        /\ SetupPkt.name = "set" => SetupPkt.value \in {0, 1}
  BY <1>0, RequestFacts DEF Attached
<1>101. /\ Out(TRUE, "setup") \in OutBuffers /\ Out(TRUE, "stall") \in OutBuffers
        /\ Out(TRUE, "any") \in OutBuffers /\ Out(TRUE, "data") \in OutBuffers
        /\ [ep0Bi EXCEPT !.own = FALSE] \in InBuffers
        /\ [ep0Bo EXCEPT !.own = FALSE] \in OutBuffers
  BY <1>0, Buffers
<1>1. ASSUME USBCheckBusStatus PROVE Typed'
  <2>1. FirmwareTypes'
    BY <1>0, <1>1 DEF USBCheckBusStatus, FirmwareTypes
  <2>2. SieTypes'
    BY <1>0, <1>1 DEF USBCheckBusStatus, SieTypes
  <2>3. HostTypes'
    BY <1>0, <1>1 DEF USBCheckBusStatus, HostTypes
  <2>9. BufferTypes'
    BY <1>0, <1>1 DEF USBCheckBusStatus, BufferTypes
  <2> QED
    BY <2>1, <2>2, <2>3, <2>9 DEF Typed
<1>2. ASSUME USBWakeFromSuspend PROVE Typed'
  <2>1. FirmwareTypes'
    BY <1>0, <1>2 DEF USBWakeFromSuspend, FirmwareTypes
  <2>2. SieTypes'
    BY <1>0, <1>2 DEF USBWakeFromSuspend, SieTypes
  <2>3. HostTypes'
    BY <1>0, <1>2 DEF USBWakeFromSuspend, HostTypes
  <2>9. BufferTypes'
    BY <1>0, <1>2 DEF USBWakeFromSuspend, BufferTypes
  <2> QED
    BY <2>1, <2>2, <2>3, <2>9 DEF Typed
<1>3. ASSUME ServeReset PROVE Typed'
  <2>1. FirmwareTypes'
    BY <1>0, <1>3
       DEF ServeReset, USBProtocolResetHandler, USBPrepareForNextSetupTrf, FirmwareTypes
  <2>2. SieTypes'
    BY <1>0, <1>3 DEF ServeReset, USBProtocolResetHandler, USBPrepareForNextSetupTrf, SieTypes
  <2>3. HostTypes'
    BY <1>0, <1>3 DEF ServeReset, USBProtocolResetHandler, USBPrepareForNextSetupTrf, HostTypes
  <2>9. BufferTypes'
    BY <1>0, <1>3, <1>101
       DEF ServeReset, USBProtocolResetHandler, USBPrepareForNextSetupTrf, BufferTypes
  <2> QED
    BY <2>1, <2>2, <2>3, <2>9 DEF Typed
<1>4. ASSUME ServeEvents PROVE Typed'
  <2>1. FirmwareTypes'
    BY <1>0, <1>4 DEF ServeEvents, USBPrepareForNextSetupTrf, FirmwareTypes
  <2>2. SieTypes'
    BY <1>0, <1>4 DEF ServeEvents, USBPrepareForNextSetupTrf, SieTypes
  <2>3. HostTypes'
    BY <1>0, <1>4 DEF ServeEvents, USBPrepareForNextSetupTrf, HostTypes
  <2>9. BufferTypes'
    BY <1>0, <1>4, <1>101 DEF ServeEvents, USBPrepareForNextSetupTrf, BufferTypes
  <2> QED
    BY <2>1, <2>2, <2>3, <2>9 DEF Typed
<1>5. ASSUME NothingToServe PROVE Typed'
  <2>1. FirmwareTypes'
    BY <1>0, <1>5 DEF NothingToServe, FirmwareTypes
  <2>2. SieTypes'
    BY <1>0, <1>5 DEF NothingToServe, SieTypes
  <2>3. HostTypes'
    BY <1>0, <1>5 DEF NothingToServe, HostTypes
  <2>9. BufferTypes'
    BY <1>0, <1>5 DEF NothingToServe, BufferTypes
  <2> QED
    BY <2>1, <2>2, <2>3, <2>9 DEF Typed
<1>6. ASSUME ServeSetup PROVE Typed'
  <2>1. FirmwareTypes'
    <3>1. todo' \in Seq(Nat)
      BY <1>0, <1>6, ReplyType, RequestFacts DEF ServeSetup, CheckRequest, IsRead
    <3>2. usb_device_state' \in DeviceStates /\ reg' \in [Registers -> {0, 1}]
      BY <1>0, <1>6, <1>100
         DEF ServeSetup, CheckRequest, SetRegister, USBStdSetCfgHandler, FirmwareTypes
    <3> QED
      BY <1>0, <1>6, <3>1, <3>2 DEF ServeSetup, CheckRequest, FirmwareTypes
  <2>2. SieTypes'
    BY <1>0, <1>6 DEF ServeSetup, CheckRequest, SieTypes
  <2>3. HostTypes'
    BY <1>0, <1>6 DEF ServeSetup, CheckRequest, HostTypes
  <2>9. BufferTypes'
    BY <1>0, <1>6 DEF ServeSetup, CheckRequest, BufferTypes
  <2> QED
    BY <2>1, <2>2, <2>3, <2>9 DEF Typed
<1>7. ASSUME USBCtrlEPServiceComplete PROVE Typed'
  <2>0. /\ First(First(todo, SetupPkt.wLength), EP0_BUFF_SIZE) \in Seq(Nat)
        /\ After(First(todo, SetupPkt.wLength), EP0_BUFF_SIZE) \in Seq(Nat)
        /\ Tail(fifo) \in Seq(Kinds)
    BY <1>0, <1>7, <1>100, Cuts, FifoType DEF USBCtrlEPServiceComplete, Attached
  <2>1. FirmwareTypes'
    BY <1>0, <2>0, <1>7 DEF USBCtrlEPServiceComplete, TxService, FirmwareTypes
  <2>2. SieTypes'
    BY <1>0, <2>0, <1>7 DEF USBCtrlEPServiceComplete, TxService, SieTypes
  <2>3. HostTypes'
    BY <1>0, <2>0, <1>7 DEF USBCtrlEPServiceComplete, TxService, HostTypes
  <2>4. /\ In(TRUE, TRUE, 0, <<>>) \in InBuffers /\ In(TRUE, FALSE, 1, <<>>) \in InBuffers
        /\ In(TRUE, FALSE, 1, First(First(todo, SetupPkt.wLength), EP0_BUFF_SIZE))
             \in InBuffers
    BY <1>0, <2>0, Buffers
  <2>9. BufferTypes'
    BY <1>7, <1>101, <2>4 DEF USBCtrlEPServiceComplete, TxService, BufferTypes
  <2> QED
    BY <2>1, <2>2, <2>3, <2>9 DEF Typed
<1>8. ASSUME ServeIn PROVE Typed'
  <2>0. /\ First(todo, EP0_BUFF_SIZE) \in Seq(Nat) /\ After(todo, EP0_BUFF_SIZE) \in Seq(Nat)
        /\ Tail(fifo) \in Seq(Kinds)
    BY <1>0, <1>8, Cuts, FifoType DEF ServeIn, Serving
  <2>4. ep0Bi.dts \in {0, 1}
    BY <1>0, Buffers
  <2>5. In(TRUE, FALSE, 1 - ep0Bi.dts, First(todo, EP0_BUFF_SIZE)) \in InBuffers
    <3>1. 1 - ep0Bi.dts \in {0, 1}
      BY <2>4
    <3> QED
      BY <2>0, <3>1, Buffers
  <2>1. FirmwareTypes'
    BY <1>0, <1>100, <2>0, <1>8
       DEF ServeIn, TxService, USBPrepareForNextSetupTrf, CheckAdrPending, FirmwareTypes
  <2>2. SieTypes'
    BY <1>0, <2>0, <1>8
       DEF ServeIn, TxService, USBPrepareForNextSetupTrf, CheckAdrPending, SieTypes
  <2>3. HostTypes'
    BY <1>0, <1>8 DEF ServeIn, TxService, USBPrepareForNextSetupTrf, CheckAdrPending, HostTypes
  <2>9. BufferTypes'
    BY <1>0, <1>8, <1>101, <2>5
       DEF ServeIn, TxService, USBPrepareForNextSetupTrf, CheckAdrPending, BufferTypes
  <2> QED
    BY <2>1, <2>2, <2>3, <2>9 DEF Typed
<1>9. ASSUME ServeOut PROVE Typed'
  <2>0. Tail(fifo) \in Seq(Kinds)
    BY <1>0, <1>9, FifoType DEF ServeOut, Serving
  <2>1. FirmwareTypes'
    BY <1>0, <1>9 DEF ServeOut, USBPrepareForNextSetupTrf, FirmwareTypes
  <2>2. SieTypes'
    BY <1>0, <2>0, <1>9 DEF ServeOut, USBPrepareForNextSetupTrf, SieTypes
  <2>3. HostTypes'
    BY <1>0, <1>9 DEF ServeOut, USBPrepareForNextSetupTrf, HostTypes
  <2>9. BufferTypes'
    BY <1>0, <1>9, <1>101 DEF ServeOut, USBPrepareForNextSetupTrf, BufferTypes
  <2> QED
    BY <2>1, <2>2, <2>3, <2>9 DEF Typed
<1> QED
  BY <1>1, <1>2, <1>3, <1>4, <1>5, <1>6, <1>7, <1>8, <1>9 DEF Firmware

(* ... and so do those of the host and the SIE.                            *)
LEMMA BusTyped ==
  ASSUME Typed, Attached,
         HostRequest \/ Transactions \/ Signalling \/ Disturbances \/ UNCHANGED vars
  PROVE  Typed'
<1>0. /\ FirmwareTypes /\ SieTypes /\ BufferTypes /\ HostTypes
      /\ "setup" \in Kinds /\ "in" \in Kinds /\ "out" \in Kinds
      /\ ep0Bo \in OutBuffers /\ ep0Bi \in InBuffers
      /\ req \in Requests /\ fifo \in Seq(Kinds) /\ <<>> \in Seq(Nat)
      /\ reg \in [Registers -> {0, 1}]
  BY DEF Typed, FirmwareTypes, SieTypes, BufferTypes, HostTypes, Kinds
<1>100. /\ budget > 0 => budget - 1 \in 0 .. Budget
        /\ toggle \in {0, 1} /\ 1 - toggle \in {0, 1}
  BY <1>0, UsbDeviceAssumption DEF UsbDeviceAssumption, HostTypes
<1>1. ASSUME HostRequest PROVE Typed'
  <2>1. FirmwareTypes'
    BY <1>0, <1>1 DEF HostRequest, FirmwareTypes
  <2>2. SieTypes'
    BY <1>0, <1>1 DEF HostRequest, SieTypes
  <2>3. HostTypes'
    BY <1>0, <1>1 DEF HostRequest, HostTypes
  <2>9. BufferTypes'
    BY <1>0, <1>1 DEF HostRequest, BufferTypes
  <2> QED
    BY <2>1, <2>2, <2>3, <2>9 DEF Typed
<1>2. ASSUME HostSetup PROVE Typed'
  <2>0. Append(fifo, "setup") \in Seq(Kinds) /\ Reply(req) \in Seq(Nat)
    BY <1>0, FifoType, ReplyType
  <2>1. FirmwareTypes'
    BY <1>0, <2>0, <1>2 DEF HostSetup, FirmwareTypes
  <2>2. SieTypes'
    BY <1>0, <2>0, <1>2 DEF HostSetup, SieTypes
  <2>3. HostTypes'
    BY <1>0, <2>0, <1>2 DEF HostSetup, HostTypes
  <2>9. BufferTypes'
    BY <1>0, <2>0, <1>2, Buffers DEF HostSetup, BufferTypes
  <2> QED
    BY <2>1, <2>2, <2>3, <2>9 DEF Typed
<1>3. ASSUME HostIn PROVE Typed'
  <2>0. Append(fifo, "in") \in Seq(Kinds) /\ got \o ep0Bi.data \in Seq(Nat)
    <3>1. got \in Seq(Nat) /\ ep0Bi.data \in Seq(Nat)
      BY <1>0, Buffers DEF HostTypes
    <3> QED
      BY <1>0, <3>1, FifoType, ConcatProperties
  <2>1. FirmwareTypes'
    BY <1>0, <1>3 DEF HostIn, TakeData, FirmwareTypes
  <2>2. SieTypes'
    BY <1>0, <2>0, <1>3 DEF HostIn, TakeData, SieTypes
  <2>3. HostTypes'
    BY <1>0, <1>100, <2>0, <1>3 DEF HostIn, TakeData, HostTypes
  <2>9. BufferTypes'
    BY <1>0, <2>0, <1>3, Buffers DEF HostIn, TakeData, BufferTypes
  <2> QED
    BY <2>1, <2>2, <2>3, <2>9 DEF Typed
<1>4. ASSUME HostStatusOut PROVE Typed'
  <2>0. Append(fifo, "out") \in Seq(Kinds)
    BY <1>0, FifoType
  <2>1. FirmwareTypes'
    BY <1>0, <2>0, <1>4 DEF HostStatusOut, FirmwareTypes
  <2>2. SieTypes'
    BY <1>0, <2>0, <1>4 DEF HostStatusOut, SieTypes
  <2>3. HostTypes'
    BY <1>0, <2>0, <1>4 DEF HostStatusOut, HostTypes
  <2>9. BufferTypes'
    BY <1>0, <2>0, <1>4, Buffers DEF HostStatusOut, BufferTypes
  <2> QED
    BY <2>1, <2>2, <2>3, <2>9 DEF Typed
<1>5. ASSUME HostStatusIn PROVE Typed'
  <2>0. Append(fifo, "in") \in Seq(Kinds)
    BY <1>0, FifoType
  <2>4. addr' \in {0, Address} /\ cfg' \in {0, 1}
    <3>1. /\ addr \in {0, Address} /\ cfg \in {0, 1}
          /\ req.name = "set_adr" => req.value = Address /\ req.of = "adr"
          /\ req.name \in {"get_dsc", "get"} => req.value = 0
          /\ req.name = "set" => req.value \in {0, 1}
          /\ req.name \in {"get_dsc", "get", "set", "set_adr"}
      BY <1>0, RequestFacts DEF HostTypes
    <3> QED
      BY <1>5, <3>1 DEF HostStatusIn
  <2>5. ep0Bi.data \in Seq(Nat)
    BY <1>0, Buffers
  <2>1. FirmwareTypes'
    BY <1>0, <2>0, <2>4, <2>5, <1>5 DEF HostStatusIn, FirmwareTypes
  <2>2. SieTypes'
    BY <1>0, <2>0, <2>4, <2>5, <1>5 DEF HostStatusIn, SieTypes
  <2>3. HostTypes'
    BY <1>0, <1>100, <2>0, <2>4, <2>5, <1>5 DEF HostStatusIn, HostTypes
  <2>9. BufferTypes'
    BY <1>0, <2>0, <2>4, <2>5, <1>5, Buffers DEF HostStatusIn, BufferTypes
  <2> QED
    BY <2>1, <2>2, <2>3, <2>9 DEF Typed
<1>6. ASSUME HostStalled PROVE Typed'
  <2>1. FirmwareTypes'
    BY <1>0, <1>6 DEF HostStalled, FirmwareTypes
  <2>2. SieTypes'
    BY <1>0, <1>6 DEF HostStalled, SieTypes
  <2>3. HostTypes'
    BY <1>0, <1>6 DEF HostStalled, HostTypes
  <2>9. BufferTypes'
    BY <1>0, <1>6 DEF HostStalled, BufferTypes
  <2> QED
    BY <2>1, <2>2, <2>3, <2>9 DEF Typed
<1>7. ASSUME Signalling PROVE Typed'
  <2>1. FirmwareTypes'
    BY <1>0, <1>7 DEF Signalling, SieReset, HostRecovered, HostTimesOut, ResetsDevice,
           Forget, NoTransfer, Wakes, Unacknowledged, SieSame, FirmwareTypes
  <2>2. SieTypes'
    BY <1>0, <1>7 DEF Signalling, SieReset, HostRecovered, HostTimesOut, ResetsDevice,
           Forget, NoTransfer, Wakes, Unacknowledged, SieSame, SieTypes
  <2>3. HostTypes'
    BY <1>0, <1>7 DEF Signalling, SieReset, HostRecovered, HostTimesOut, ResetsDevice,
           Forget, NoTransfer, Wakes, Unacknowledged, SieSame, HostTypes
  <2>9. BufferTypes'
    BY <1>0, <1>7 DEF Signalling, SieReset, HostRecovered, HostTimesOut, ResetsDevice,
           Forget, NoTransfer, Wakes, Unacknowledged, SieSame, BufferTypes
  <2> QED
    BY <2>1, <2>2, <2>3, <2>9 DEF Typed
<1>8. ASSUME Disturbances PROVE Typed'
  <2>1. FirmwareTypes'
    BY <1>0, <1>100, <1>8 DEF Disturbances, Plug, Unplug, LineIdle, LineBusy, HostReset, ResetsDevice, Forget,
           NoTransfer, Disturbs, SieSame, Wakes, FirmwareTypes
  <2>2. SieTypes'
    BY <1>0, <1>100, <1>8 DEF Disturbances, Plug, Unplug, LineIdle, LineBusy, HostReset, ResetsDevice, Forget,
           NoTransfer, Disturbs, SieSame, Wakes, SieTypes
  <2>3. HostTypes'
    <3>1. budget' \in 0 .. Budget
      BY <1>0, <1>100, <1>8 DEF Disturbances, Plug, Unplug, LineIdle, LineBusy, HostReset,
             Disturbs, HostTypes
    <3>2. CASE Plug \/ Unplug
      BY <1>0, <3>1, <3>2 DEF Plug, Unplug, Forget, NoTransfer, HostTypes
    <3>3. CASE LineIdle \/ LineBusy
      BY <1>0, <3>1, <3>3 DEF LineIdle, LineBusy, HostTypes
    <3>4. CASE HostReset
      BY <1>0, <3>1, <3>4 DEF HostReset, ResetsDevice, Forget, NoTransfer, HostTypes
    <3> QED
      BY <1>8, <3>2, <3>3, <3>4 DEF Disturbances
  <2>9. BufferTypes'
    BY <1>0, <1>100, <1>8 DEF Disturbances, Plug, Unplug, LineIdle, LineBusy, HostReset, ResetsDevice, Forget,
           NoTransfer, Disturbs, SieSame, Wakes, BufferTypes
  <2> QED
    BY <2>1, <2>2, <2>3, <2>9 DEF Typed
<1>9. ASSUME UNCHANGED vars PROVE Typed'
  <2>1. FirmwareTypes'
    BY <1>0, <1>9 DEF vars, FirmwareTypes
  <2>2. SieTypes'
    BY <1>0, <1>9 DEF vars, SieTypes
  <2>3. HostTypes'
    BY <1>0, <1>9 DEF vars, HostTypes
  <2>9. BufferTypes'
    BY <1>0, <1>9 DEF vars, BufferTypes
  <2> QED
    BY <2>1, <2>2, <2>3, <2>9 DEF Typed
<1> QED
  BY <1>1, <1>2, <1>3, <1>4, <1>5, <1>6, <1>7, <1>8, <1>9 DEF Transactions

-----------------------------------------------------------------------------
(* The module, the bus and the host go together.                           *)
LEMMA InitAttached == Init => Attached
BY NoRequestType, RequestFacts DEF Init, Attached

(* The firmware keeps what is known of a cable that is in or out,          *)
LEMMA FirmwareAttached ==
  ASSUME Typed, Attached, Firmware
  PROVE  Attached'
<1>0. /\ plugged \in BOOLEAN /\ USBEN \in BOOLEAN
      /\ SetupPkt.name \in {"get_dsc", "get", "set", "set_adr"}
      /\ link \in {"off", "attached", "reset", "recovery", "ready"}
  BY RequestFacts DEF Typed, FirmwareTypes, SieTypes, HostTypes
<1> USE DEF Attached
<1>1. CASE USBCheckBusStatus
  BY <1>0, <1>1 DEF USBCheckBusStatus
<1>2. CASE USBWakeFromSuspend
  BY <1>0, <1>2 DEF USBWakeFromSuspend
<1>3. CASE ServeReset
  BY <1>0, <1>3 DEF ServeReset, USBProtocolResetHandler, USBPrepareForNextSetupTrf
<1>4. CASE ServeEvents
  BY <1>0, <1>4 DEF ServeEvents, USBPrepareForNextSetupTrf
<1>5. CASE NothingToServe
  BY <1>0, <1>5 DEF NothingToServe
<1>6. CASE ServeSetup
  <2>1. /\ usb_device_state' \in {usb_device_state, "ADDRESS", "CONFIGURED", "ADR_PENDING"}
        /\ usb_device_state' = "ADR_PENDING" /\ usb_device_state # "ADR_PENDING"
             => SetupPkt.name = "set_adr"
    BY <1>0, <1>6 DEF ServeSetup, CheckRequest, SetRegister, USBStdSetCfgHandler
  <2> QED
    BY <1>0, <1>6, <2>1 DEF ServeSetup, Serving
<1>7. CASE USBCtrlEPServiceComplete
  BY <1>0, <1>7 DEF USBCtrlEPServiceComplete
<1>8. CASE ServeIn
  BY <1>0, <1>8 DEF ServeIn, Serving, CheckAdrPending
<1>9. CASE ServeOut
  BY <1>0, <1>9 DEF ServeOut, Serving
<1> QED
  BY <1>1, <1>2, <1>3, <1>4, <1>5, <1>6, <1>7, <1>8, <1>9 DEF Firmware

(* and so do the bus and the host.                                         *)
LEMMA BusAttached ==
  ASSUME Typed, Attached, InPhase,
         HostRequest \/ Transactions \/ Signalling \/ Disturbances \/ UNCHANGED vars
  PROVE  Attached'
<1>0. /\ plugged \in BOOLEAN /\ USBEN \in BOOLEAN
      /\ link \in {"off", "attached", "reset", "recovery", "ready"}
      /\ Append(fifo, "setup") # <<>> /\ Append(fifo, "in") # <<>>
      /\ Append(fifo, "out") # <<>>
  <2>1. "setup" \in Kinds /\ "in" \in Kinds /\ "out" \in Kinds /\ fifo \in Seq(Kinds)
    BY DEF Typed, SieTypes, Kinds
  <2>2. /\ Append(fifo, "setup") # <<>> /\ Append(fifo, "in") # <<>>
        /\ Append(fifo, "out") # <<>>
    BY <2>1, AppendProperties
  <2> QED
    BY <2>2 DEF Typed, SieTypes, HostTypes
<1>1. CASE HostRequest
  BY <1>1 DEF HostRequest, Attached
<1>2. CASE HostSetup
  <2>1. usb_device_state # "ADR_PENDING"
    <3>1. Phase /\ stage = "setup" /\ ep0Bo.own /\ ep0Bo.mode \in {"setup", "any"}
      BY <1>2 DEF HostSetup, Answering, InPhase, Up
    <3> QED
      BY <3>1 DEF Phase, Idle, Requested, Checked, Reading, Writing, Stalling, Settled,
                  Asking, Sending, Sent, Acknowledging, Acknowledged, Unheard, Concluded, Out
  <2> QED
    BY <1>0, <1>2, <2>1 DEF HostSetup, Answering, Attached
<1>3. CASE HostIn
  BY <1>0, <1>3 DEF HostIn, TakeData, Answering, Attached
<1>4. CASE HostStatusOut
  BY <1>0, <1>4 DEF HostStatusOut, Answering, Attached
<1>5. CASE HostStatusIn
  BY <1>0, <1>5 DEF HostStatusIn, Answering, Attached
<1>6. CASE HostStalled
  BY <1>0, <1>6 DEF HostStalled, Answering, Attached
<1>7. CASE Signalling
  BY <1>0, <1>7 DEF Signalling, SieReset, HostRecovered, HostTimesOut, ResetsDevice,
           Forget, NoTransfer, Wakes, Unacknowledged, SieSame, Attached
<1>8. CASE Disturbances
  BY <1>0, <1>8 DEF Disturbances, Plug, Unplug, LineIdle, LineBusy, HostReset, ResetsDevice, Forget,
                    NoTransfer, Disturbs, SieSame, Wakes, Attached
<1>9. CASE UNCHANGED vars
  BY <1>9 DEF vars, Attached
<1> QED
  BY <1>1, <1>2, <1>3, <1>4, <1>5, <1>6, <1>7, <1>8, <1>9 DEF Transactions

-----------------------------------------------------------------------------
(* A step that touches neither the transfer nor what the host knows leaves *)
(* the phase as it is.                                                     *)
conversation == <<fifo, ctrl_trf_state, SetupPkt, todo, claimed, ep0Bo, ep0Bi, PKTDIS,
                  UADDR, usb_device_state, reg, addr, cfg, stage, req, due, got, toggle>>

(* The phase of a transfer stays if nothing that it speaks of changes.     *)
LEMMA Kept ==
  ASSUME InPhase, UNCHANGED conversation,
         at' = "complete" <=> at = "complete",
         Up' => Up, "STALL" \in UIR' => "STALL" \in UIR
  PROVE  InPhase'
<1>1. UNCHANGED <<Idle, Requested, Checked, Reading, Writing, Stalling, HostRules>>
  <2> USE DEF conversation, Settled, Turning, Asking
  <2>1. UNCHANGED Idle
    BY DEF Idle, Out
  <2>2. UNCHANGED Requested
    BY DEF Requested, Reply, IsRead, First, MinOf
  <2>3. UNCHANGED Checked
    BY DEF Checked, Obeyed, IsRead, First, MinOf
  <2>4. UNCHANGED Reading
    BY DEF Reading, Sending, Sent, Rest, Out
  <2>5. UNCHANGED Writing
    BY DEF Writing, Acknowledging, Acknowledged, Unheard, Concluded, Obeyed, IsRead, Out
  <2>6. UNCHANGED Stalling
    BY DEF Stalling, Out
  <2>7. UNCHANGED HostRules
    BY DEF HostRules
  <2> QED
    BY <2>1, <2>2, <2>3, <2>4, <2>5, <2>6, <2>7
<1> QED
  BY <1>1 DEF InPhase, Phase, conversation

(* A reset that has been served leaves nothing under way.                  *)
LEMMA ResetIdle ==
  ASSUME Typed, Attached, InPhase, ServeReset
  PROVE  InPhase'
<1>1. CASE Due("URST")
  <2> SUFFICES ASSUME Up' PROVE InPhase'
    BY DEF InPhase
  <2>1. link # "ready" /\ stage = "none" /\ addr = 0 /\ cfg = 0
    BY <1>1 DEF Due, Attached
  <2>2. /\ "cfg" \in Registers /\ reg \in [Registers -> {0, 1}] /\ ep0Bi \in InBuffers
    BY UsbDeviceAssumption DEF UsbDeviceAssumption, Typed, FirmwareTypes, BufferTypes
  <2>3. /\ UIR' = {} /\ UADDR' = 0 /\ fifo' = <<>> /\ PKTDIS' = FALSE /\ at' = "events"
        /\ ctrl_trf_state' = "WAIT_SETUP" /\ ep0Bo' = Out(TRUE, "setup")
        /\ ep0Bi' = [ep0Bi EXCEPT !.own = FALSE]
        /\ reg' = [reg EXCEPT !["wakeup"] = 0, !["cfg"] = 0]
        /\ usb_device_state' = "DEFAULT"
        /\ UNCHANGED <<addr, cfg, stage, req>>
    BY <1>1 DEF ServeReset, USBProtocolResetHandler, USBPrepareForNextSetupTrf
  <2>4. reg'["cfg"] = 0 /\ ~ep0Bi'.own
    BY <2>2, <2>3, Buffers
  <2>5. Idle'
    BY <2>1, <2>3, <2>4 DEF Idle, Turning, Settled, Out
  <2>6. HostRules'
    BY <2>1, <2>3 DEF HostRules
  <2> QED
    BY <2>3, <2>4, <2>5, <2>6 DEF InPhase, Phase
<1>2. CASE ~Due("URST")
  <2>1. /\ UNCHANGED conversation /\ UNCHANGED <<link, UIR>>
        /\ at # "complete" /\ at' # "complete"
    BY <1>2 DEF ServeReset, conversation
  <2> QED
    BY <2>1, Kept DEF Up
<1> QED
  BY <1>1, <1>2

(* A turn of the main loop that has nothing to serve.                      *)
LEMMA TurnsInPhase ==
  ASSUME Typed, Attached, InPhase,
         USBCheckBusStatus \/ USBWakeFromSuspend \/ NothingToServe
  PROVE  InPhase'
<1>0. UNCHANGED <<link, fifo, ctrl, ep0, UADDR, reg, host>> /\ at # "complete" /\ at' # "complete"
  BY DEF USBCheckBusStatus, USBWakeFromSuspend, NothingToServe
<1>1. CASE USBWakeFromSuspend \/ NothingToServe
  <2>1. /\ UNCHANGED conversation
        /\ "URST" \in UIR => "URST" \in UIR'
        /\ "STALL" \in UIR' => "STALL" \in UIR
    BY <1>1 DEF USBWakeFromSuspend, NothingToServe, conversation
  <2> QED
    BY <1>0, <2>1, Kept DEF Up
<1>2. CASE USBCheckBusStatus
  <2>1. link \in {"recovery", "ready"} =>
          plugged = TRUE /\ USBEN = TRUE /\ usb_device_state \notin {"DETACHED", "ATTACHED"}
    BY DEF Attached, Typed, HostTypes, SieTypes
  <2>2. PKTDIS \in BOOLEAN
    BY DEF Typed, SieTypes
  <2>3. link \in {"recovery", "ready"} =>
          UNCHANGED <<usb_device_state, PKTDIS, UIR>>
    BY <1>2, <2>1, <2>2 DEF USBCheckBusStatus
  <2>4. CASE link \in {"recovery", "ready"}
    BY <1>0, <2>3, <2>4, Kept DEF Up, conversation
  <2>5. CASE link \notin {"recovery", "ready"}
    BY <1>0, <2>5 DEF Up, InPhase
  <2> QED
    BY <2>4, <2>5
<1> QED
  BY <1>1, <1>2

(* A stall is answered by making ready for the next SETUP.                 *)
LEMMA EventsInPhase ==
  ASSUME Typed, Attached, InPhase, ServeEvents
  PROVE  InPhase'
<1>0. /\ UNCHANGED <<link, fifo, SetupPkt, todo, claimed, PKTDIS, device, host>>
      /\ at # "complete" /\ at' # "complete"
      /\ "URST" \in UIR <=> "URST" \in UIR'
  BY DEF ServeEvents
<1>1. CASE Due("STALL") /\ Up
  <2>1. /\ Stalling /\ stage # "data" /\ HostRules
        /\ usb_device_state = "CONFIGURED" <=> reg["cfg"] # 0
    BY <1>1 DEF Due, InPhase
  <2>2. /\ ctrl_trf_state' = "WAIT_SETUP" /\ ep0Bo' = Out(TRUE, "setup")
        /\ ep0Bi' = [ep0Bi EXCEPT !.own = FALSE] /\ "STALL" \notin UIR'
    BY <1>1 DEF ServeEvents, USBPrepareForNextSetupTrf
  <2>3. ~ep0Bi'.own
    BY <2>2, Buffers DEF Typed, BufferTypes
  <2>4. Idle'
    BY <1>0, <2>1, <2>2, <2>3 DEF Idle, Stalling, Turning, Settled, Out
  <2>5. HostRules'
    BY <1>0, <2>1 DEF HostRules
  <2> QED
    BY <1>0, <2>1, <2>2, <2>4, <2>5 DEF InPhase, Phase
<1>2. CASE ~Due("STALL")
  <2>1. UNCHANGED conversation /\ ("STALL" \in UIR' => "STALL" \in UIR)
    BY <1>0, <1>2 DEF ServeEvents, conversation
  <2> QED
    BY <1>0, <2>1, Kept DEF Up
<1>3. CASE ~Up
  BY <1>0, <1>3 DEF Up, InPhase
<1> QED
  BY <1>1, <1>2, <1>3

(* What is at the head of the queue tells the phase.                       *)
LEMMA QueueOfPhase ==
  /\ Idle => fifo = <<>>
  /\ Requested => fifo = <<"setup">> /\ at # "complete"
  /\ Checked => fifo = <<"setup">> /\ at = "complete"
  /\ Reading => /\ fifo \in {<<>>, <<"in">>, <<"in", "out">>, <<"out">>}
                /\ at # "complete"
  /\ Sending => fifo \in {<<>>, <<"in">>}
  /\ Sent => fifo \in {<<"in", "out">>, <<"out">>}
  /\ Writing => fifo \in {<<>>, <<"in">>} /\ at # "complete"
  /\ Acknowledging => fifo = <<>>
  /\ Acknowledged => fifo = <<"in">>
  /\ Unheard => fifo = <<>>
  /\ Stalling => fifo = <<>>
<1>1. Idle => fifo = <<>>
  BY DEF Idle
<1>2. /\ Requested => fifo = <<"setup">> /\ at # "complete"
      /\ Checked => fifo = <<"setup">> /\ at = "complete"
  BY DEF Requested, Checked
<1>3. Sending => fifo \in {<<>>, <<"in">>}
  BY Zenon DEF Sending
<1>4. Sent => fifo \in {<<"in", "out">>, <<"out">>}
  BY Zenon DEF Sent
<1>5. Acknowledging => fifo = <<>>
  BY DEF Acknowledging
<1>6. (Acknowledged => fifo = <<"in">>) /\ (Unheard => fifo = <<>>)
  BY DEF Acknowledged, Unheard
<1>7. Stalling => fifo = <<>>
  BY DEF Stalling
<1>8. /\ Reading => at # "complete" /\ (Sending \/ Sent)
      /\ Writing => at # "complete" /\ (Acknowledging \/ Acknowledged \/ Unheard)
  BY DEF Reading, Writing, Turning
<1> QED
  BY <1>1, <1>2, <1>3, <1>4, <1>5, <1>6, <1>7, <1>8, Zenon

(* What the first transaction of the queue says of the phase.              *)
LEMMA Heads ==
  ASSUME Phase, fifo # <<>>
  PROVE  /\ Head(fifo) = "setup" =>
              fifo = <<"setup">> /\ ((Requested /\ at # "complete") \/ Checked)
         /\ Head(fifo) = "in" =>
              \/ fifo = <<"in">> /\ ((Reading /\ Sending) \/ (Writing /\ Acknowledged))
              \/ fifo = <<"in", "out">> /\ Reading /\ Sent
         /\ Head(fifo) = "out" => fifo = <<"out">> /\ Reading /\ Sent
<1> DEFINE h == Head(fifo)
<1>1. /\ fifo = <<"setup">> => h = "setup"
      /\ fifo = <<"in">> => h = "in"
      /\ fifo = <<"in", "out">> => h = "in"
      /\ fifo = <<"out">> => h = "out"
  BY Queues, Zenon
<1> HIDE DEF h
<1>2. CASE Requested \/ Checked
  <2>1. fifo = <<"setup">> /\ h = "setup"
    BY <1>1, <1>2, QueueOfPhase, Zenon
  <2> QED
    BY <1>2, <2>1, QueueOfPhase DEF h
<1>3. CASE Reading
  <2>1. CASE Sending
    <3>1. fifo = <<"in">> /\ h = "in"
      BY <1>1, <2>1, QueueOfPhase
    <3> QED
      BY <1>3, <2>1, <3>1 DEF h
  <2>2. CASE Sent
    <3>1. (fifo = <<"in", "out">> /\ h = "in") \/ (fifo = <<"out">> /\ h = "out")
      BY <1>1, <2>2, QueueOfPhase, Zenon
    <3> QED
      BY <1>3, <2>2, <3>1 DEF h
  <2> QED
    BY <1>3, <2>1, <2>2 DEF Reading
<1>4. CASE Writing
  <2>1. Acknowledged /\ fifo = <<"in">> /\ h = "in"
    BY <1>1, <1>4, QueueOfPhase, Zenon DEF Writing
  <2> QED
    BY <1>4, <2>1 DEF h
<1>5. ~(Idle \/ Stalling)
  BY QueueOfPhase
<1> QED
  BY <1>2, <1>3, <1>4, <1>5 DEF Phase

(* A SETUP that is served has been sent by the host, and is obeyed at once. *)
LEMMA SetupInPhase ==
  ASSUME Typed, Attached, InPhase, ServeSetup
  PROVE  InPhase'
<1> SUFFICES ASSUME Up' PROVE InPhase'
  BY DEF InPhase
<1>0. /\ Up /\ at = "transaction" /\ fifo # <<>> /\ Head(fifo) = "setup"
      /\ CheckRequest(SetupPkt)
      /\ at' = "complete" /\ ctrl_trf_state' = "WAIT_SETUP" /\ PKTDIS' = FALSE
      /\ UNCHANGED <<UADDR, UIR, SetupPkt, ep0, fifo, host>>
  BY DEF ServeSetup, Serving, Up
<1>1. Requested /\ HostRules /\ (usb_device_state = "CONFIGURED" <=> reg["cfg"] # 0)
  BY <1>0, Heads, QueueOfPhase DEF InPhase
<1>2. "STALL" \notin UIR
  BY <1>0, <1>1, Queues DEF InPhase, Stalling, Requested
<1>3. /\ SetupPkt = req /\ req \in Requests
      /\ "cfg" \in Registers /\ reg \in [Registers -> {0, 1}]
      /\ due = Reply(req) /\ stage # "none"
  BY <1>1, UsbDeviceAssumption
     DEF Requested, Asking, IsRead, Typed, FirmwareTypes, HostTypes, UsbDeviceAssumption
<1>4. /\ req.name \in {"get_dsc", "get", "set", "set_adr"}
      /\ req.of \in Unsupported => req.name = "get_dsc"
      /\ req.name = "set" => req.value \in {0, 1}
  BY <1>3, RequestFacts
<1>5. /\ Obeyed' /\ (usb_device_state' = "CONFIGURED" <=> reg'["cfg"] # 0)
  <2>1. CASE req.name = "set_adr"
    <3>1. usb_device_state' = "ADR_PENDING" /\ reg' = reg
      BY <1>0, <1>3, <2>1 DEF CheckRequest
    <3>2. reg["cfg"] = 0 /\ UADDR = addr /\ reg["cfg"] = cfg
      BY <1>1, <1>3, <2>1 DEF HostRules, Requested, Settled
    <3> QED
      BY <1>0, <1>3, <2>1, <3>1, <3>2 DEF Obeyed
  <2>2. CASE req.name = "set" /\ req.of = "cfg"
    <3>1. /\ reg'["cfg"] = req.value
          /\ usb_device_state' = IF req.value = 0 THEN "ADDRESS" ELSE "CONFIGURED"
      BY <1>0, <1>3, <2>2 DEF CheckRequest, SetRegister, USBStdSetCfgHandler
    <3> QED
      BY <1>0, <1>1, <1>3, <2>2, <3>1 DEF Obeyed, Requested, Settled
  <2>3. CASE req.name # "set_adr" /\ ~(req.name = "set" /\ req.of = "cfg")
    <3>1. usb_device_state' = usb_device_state /\ reg'["cfg"] = reg["cfg"]
      BY <1>0, <1>3, <1>4, <2>3 DEF CheckRequest, SetRegister
    <3> QED
      BY <1>0, <1>1, <1>3, <2>3, <3>1 DEF Obeyed, Requested, Settled
  <2> QED
    BY <2>1, <2>2, <2>3
<1>6. /\ claimed' <=> req.of \notin Unsupported
      /\ claimed' => (IsRead(req) => due = First(todo', req.wLength))
      /\ ~claimed' => due = <<>>
  BY <1>0, <1>3, <1>4 DEF CheckRequest, Reply, IsRead
<1>7. Checked'
  BY <1>0, <1>1, <1>3, <1>5, <1>6 DEF Checked, Requested, Asking, IsRead, First, MinOf
<1>8. HostRules'
  BY <1>0, <1>1 DEF HostRules
<1> QED
  BY <1>0, <1>2, <1>5, <1>7, <1>8 DEF InPhase, Phase

(* What is due is what is sent: the first packet, ...                      *)
LEMMA CompleteInPhase ==
  ASSUME Typed, Attached, InPhase, USBCtrlEPServiceComplete
  PROVE  InPhase'
<1> SUFFICES ASSUME Up' PROVE InPhase'
  BY DEF InPhase
<1>0. /\ Up /\ at = "complete" /\ at' = "bus" /\ fifo # <<>> /\ fifo' = Tail(fifo)
      /\ UNCHANGED <<device, PKTDIS, UIR, SetupPkt, claimed, host>>
  BY DEF USBCtrlEPServiceComplete, Up, Attached
<1>1. /\ Checked /\ HostRules /\ (usb_device_state = "CONFIGURED" <=> reg["cfg"] # 0)
      /\ "STALL" \notin UIR
  BY <1>0, QueueOfPhase, Queues DEF InPhase, Phase, Idle, Stalling, Turning
<1>2. /\ fifo' = <<>> /\ Turning' /\ SetupPkt = req /\ req \in Requests
      /\ todo \in Seq(Nat) /\ HostRules'
  <2>1. fifo' = <<>>
    BY <1>0, <1>1, QueueOfPhase, Queues, Zenon
  <2> QED
    BY <1>0, <1>1, <2>1
       DEF Checked, Turning, Asking, IsRead, Typed, FirmwareTypes, HostTypes, HostRules
<1>3. /\ req.of \in Unsupported => req.name = "get_dsc"
      /\ req.name = "set_adr" => req.of = "adr"
      /\ req.name = "set" => req.of \in Registers /\ req.value \in {0, 1}
      /\ req.name \in {"get_dsc", "get", "set", "set_adr"} /\ req.wLength \in Nat
      /\ EP0_BUFF_SIZE \in Nat
  BY <1>2, RequestFacts, UsbDeviceAssumption DEF UsbDeviceAssumption
<1>4. IsRead(req) => Settled /\ Settled' /\ stage = "data"
  BY <1>0, <1>1, <1>2 DEF Checked, Obeyed, Asking, IsRead, Settled
<1>5. CASE ~claimed
  <2>1. IsRead(req) /\ due = <<>> /\ got = <<>>
    BY <1>1, <1>3, <1>5 DEF Checked, IsRead
  <2>2. /\ ep0Bo' = Out(TRUE, "stall") /\ ep0Bi' = In(TRUE, TRUE, 0, <<>>)
        /\ ctrl_trf_state' = "WAIT_SETUP"
    BY <1>1, <1>5 DEF USBCtrlEPServiceComplete, Checked
  <2>3. ep0Bi'.own /\ ep0Bi'.stall
    BY <2>2 DEF In
  <2>4. Stalling'
    BY <1>0, <1>2, <1>4, <2>1, <2>2, <2>3 DEF Stalling, Out
  <2> QED
    BY <1>0, <1>1, <1>2, <2>4 DEF InPhase, Phase
<1>6. CASE claimed /\ IsRead(req)
  <2> DEFINE answer == First(todo, req.wLength)
  <2>1. /\ ep0Bi' = In(TRUE, FALSE, 1, First(answer, EP0_BUFF_SIZE))
        /\ todo' = After(answer, EP0_BUFF_SIZE)
        /\ ctrl_trf_state' = "CTRL_TRF_TX" /\ ep0Bo' = Out(TRUE, "any")
    BY <1>2, <1>6 DEF USBCtrlEPServiceComplete, TxService
  <2>2. due = answer /\ got = <<>> /\ toggle = 1
    BY <1>1, <1>6 DEF Checked
  <2>3. answer \in Seq(Nat) /\ Len(answer) <= req.wLength
    BY <1>2, <1>3, Cuts
  <2> HIDE DEF answer
  <2>4. /\ First(answer, EP0_BUFF_SIZE) \o After(answer, EP0_BUFF_SIZE) = answer
        /\ Len(First(answer, EP0_BUFF_SIZE)) < EP0_BUFF_SIZE
             => After(answer, EP0_BUFF_SIZE) = <<>>
        /\ <<>> \o answer = answer
    BY <1>3, <2>3, Cuts, Prefixes
  <2>5. /\ ep0Bi'.own /\ ~ep0Bi'.stall /\ ep0Bi'.dts = 1
        /\ ep0Bi'.data = First(answer, EP0_BUFF_SIZE)
    BY <2>1 DEF In
  <2>6. Rest' = answer
    BY <1>0, <2>1, <2>2, <2>4, <2>5 DEF Rest
  <2>7. due' = got' \o Rest' /\ Len(due') <= req'.wLength
    BY <1>0, <2>2, <2>3, <2>4, <2>6
  <2>8. stage' = "data" /\ Len(ep0Bi'.data) < EP0_BUFF_SIZE => todo' = <<>>
    BY <2>1, <2>4, <2>5
  <2>9. Sending'
    BY <1>0, <1>2, <1>4, <1>6, <2>1, <2>5, <2>7, <2>8 DEF Sending, Out
  <2> QED
    BY <1>0, <1>1, <1>2, <1>4, <1>6, <2>1, <2>9 DEF InPhase, Phase, Reading
<1>7. CASE claimed /\ ~IsRead(req)
  <2>1. /\ ep0Bi' = In(TRUE, FALSE, 1, <<>>)
        /\ ctrl_trf_state' = "CTRL_TRF_RX" /\ ep0Bo' = Out(TRUE, "data")
    BY <1>2, <1>7 DEF USBCtrlEPServiceComplete
  <2>2. ep0Bi'.own /\ ~ep0Bi'.stall /\ ep0Bi'.dts = 1
    BY <2>1 DEF In
  <2>3. Acknowledging'
    BY <1>0, <1>1, <1>2, <1>7, <2>1, <2>2 DEF Acknowledging, Checked, Asking, Obeyed, IsRead
  <2> QED
    BY <1>0, <1>1, <1>2, <2>1, <2>3 DEF InPhase, Phase, Writing, Out
<1> QED
  BY <1>1, <1>5, <1>6, <1>7 DEF Checked

(* ... and the packets that follow; and the status of a write, after which *)
(* a new address is the device's.                                          *)
LEMMA InInPhase ==
  ASSUME Typed, Attached, InPhase, ServeIn
  PROVE  InPhase'
<1> SUFFICES ASSUME Up' PROVE InPhase'
  BY DEF InPhase
<1>0. /\ Up /\ at = "transaction" /\ at' = "bus"
      /\ fifo # <<>> /\ Head(fifo) = "in" /\ fifo' = Tail(fifo)
      /\ UNCHANGED <<reg, PKTDIS, UIR, SetupPkt, claimed, host>>
      /\ Phase /\ HostRules /\ (usb_device_state = "CONFIGURED" <=> reg["cfg"] # 0)
  BY DEF ServeIn, Serving, Up, InPhase
<1>1. \/ fifo = <<"in">> /\ ((Reading /\ Sending) \/ (Writing /\ Acknowledged))
      \/ fifo = <<"in", "out">> /\ Reading /\ Sent
  BY <1>0, Heads
<1>2. /\ "STALL" \notin UIR /\ HostRules'
      /\ todo \in Seq(Nat) /\ EP0_BUFF_SIZE \in Nat /\ ep0Bi \in InBuffers
  BY <1>0, QueueOfPhase, UsbDeviceAssumption
     DEF InPhase, HostRules, Typed, FirmwareTypes, BufferTypes, UsbDeviceAssumption
<1>3. CASE Reading
  <2>1. /\ ctrl_trf_state = "CTRL_TRF_TX" /\ Turning /\ Settled
        /\ ctrl_trf_state' = "CTRL_TRF_TX" /\ Turning'
        /\ ep0Bi' = In(TRUE, FALSE, 1 - ep0Bi.dts, First(todo, EP0_BUFF_SIZE))
        /\ todo' = After(todo, EP0_BUFF_SIZE) /\ ep0Bo' = ep0Bo
        /\ UNCHANGED <<UADDR, usb_device_state>> /\ Settled'
    BY <1>0, <1>3 DEF Reading, Settled, Turning, ServeIn, TxService, CheckAdrPending
  <2>2. CASE fifo = <<"in">> /\ Sending
    <3>1. /\ First(todo, EP0_BUFF_SIZE) \o After(todo, EP0_BUFF_SIZE) = todo
          /\ Len(First(todo, EP0_BUFF_SIZE)) < EP0_BUFF_SIZE
               => After(todo, EP0_BUFF_SIZE) = <<>>
      BY <1>2, Cuts
    <3>2. fifo' = <<>>
      BY <1>0, <2>2, Queues, Zenon
    <3>3. /\ ep0Bi'.own /\ ~ep0Bi'.stall /\ ep0Bi'.dts = 1 - ep0Bi.dts
          /\ ep0Bi'.data = First(todo, EP0_BUFF_SIZE)
      BY <2>1 DEF In
    <3>4. ~ep0Bi.own /\ ep0Bi.dts # toggle
      BY <2>2, Queues DEF Sending
    <3>5. ep0Bi'.dts = toggle
      <4>1. ep0Bi.dts \in {0, 1} /\ toggle \in {0, 1}
        BY <1>2, Buffers DEF Typed, HostTypes
      <4> QED
        BY <3>3, <3>4, <4>1
    <3>6. Rest' = Rest
      BY <1>0, <2>1, <3>1, <3>3, <3>4, <3>5 DEF Rest
    <3>7. Sending'
      BY <1>0, <2>1, <2>2, <3>1, <3>2, <3>3, <3>6 DEF Sending, Out
    <3> QED
      BY <1>0, <1>2, <2>1, <3>7 DEF InPhase, Phase, Reading
  <2>3. CASE fifo = <<"in", "out">> /\ Sent
    <3>1. fifo' = <<"out">>
      BY <1>0, <2>3, Queues, Zenon
    <3>2. Sent'
      BY <1>0, <2>1, <2>3, <3>1 DEF Sent
    <3> QED
      BY <1>0, <1>2, <2>1, <3>2 DEF InPhase, Phase, Reading
  <2> QED
    BY <1>1, <1>3, <2>2, <2>3, QueueOfPhase, Queues DEF Reading, Writing
<1>4. CASE Writing /\ fifo = <<"in">> /\ Acknowledged
  <2>1. /\ ctrl_trf_state' = "WAIT_SETUP" /\ ep0Bo' = Out(TRUE, "setup")
        /\ ep0Bi' = [ep0Bi EXCEPT !.own = FALSE] /\ Turning'
    BY <1>0, <1>4 DEF Writing, Turning, ServeIn, USBPrepareForNextSetupTrf
  <2>2. ~ep0Bi'.own
    BY <1>2, <2>1, Buffers
  <2>3. fifo' = <<>>
    BY <1>0, <1>4, Queues, Zenon
  <2>4. /\ UADDR' = addr /\ usb_device_state' # "ADR_PENDING"
        /\ usb_device_state' = "CONFIGURED" <=> reg["cfg"] # 0
    <3>1. CASE usb_device_state = "ADR_PENDING"
      <4>1. SetupPkt.value = Address /\ Address > 0 /\ addr = Address
        BY <1>4, <3>1, RequestFacts, UsbDeviceAssumption
           DEF Attached, Typed, FirmwareTypes, UsbDeviceAssumption, Acknowledged,
               Concluded
      <4> QED
        BY <1>0, <3>1, <4>1 DEF ServeIn, CheckAdrPending
    <3>2. CASE usb_device_state # "ADR_PENDING"
      BY <1>0, <1>4, <3>2 DEF ServeIn, CheckAdrPending, Acknowledged, Concluded
    <3> QED
      BY <3>1, <3>2
  <2>5. Idle'
    BY <1>0, <1>4, <2>1, <2>2, <2>3, <2>4 
       DEF Idle, Settled, Acknowledged, Concluded, Out
  <2> QED
    BY <1>0, <1>2, <2>4, <2>5 DEF InPhase, Phase
<1> QED
  BY <1>1, <1>3, <1>4

(* A completed OUT transaction is the status of a read.                    *)
LEMMA OutInPhase ==
  ASSUME Typed, Attached, InPhase, ServeOut
  PROVE  InPhase'
<1> SUFFICES ASSUME Up' PROVE InPhase'
  BY DEF InPhase
<1>0. /\ Up /\ at = "transaction" /\ at' = "bus"
      /\ fifo # <<>> /\ Head(fifo) = "out" /\ fifo' = Tail(fifo)
      /\ ctrl_trf_state' = "WAIT_SETUP" /\ ep0Bo' = Out(TRUE, "setup")
      /\ ep0Bi' = [ep0Bi EXCEPT !.own = FALSE]
      /\ UNCHANGED <<device, PKTDIS, UIR, SetupPkt, claimed, host>>
      /\ Phase /\ HostRules /\ (usb_device_state = "CONFIGURED" <=> reg["cfg"] # 0)
  BY DEF ServeOut, Serving, USBPrepareForNextSetupTrf, Up, InPhase
<1>1. fifo = <<"out">> /\ Reading /\ Sent
  BY <1>0, Heads
<1>2. "STALL" \notin UIR /\ HostRules'
  BY <1>0, QueueOfPhase DEF InPhase, HostRules
<1>3. ~ep0Bi'.own
  BY <1>0, Buffers DEF Typed, BufferTypes
<1>4. fifo' = <<>>
  BY <1>0, <1>1, Queues, Zenon
<1>5. Idle'
  BY <1>0, <1>1, <1>3, <1>4 DEF Idle, Reading, Sent, Turning, Settled, Out
<1> QED
  BY <1>0, <1>2, <1>5 DEF InPhase, Phase

(* Every step of the firmware leads from a phase to a phase.               *)
LEMMA FirmwareInPhase ==
  ASSUME Typed, Attached, InPhase, Firmware
  PROVE  InPhase'
BY ResetIdle, TurnsInPhase, EventsInPhase, SetupInPhase, CompleteInPhase, InInPhase,
   OutInPhase
   DEF Firmware

-----------------------------------------------------------------------------
(* The host's side: it asks, *)
LEMMA RequestInPhase ==
  ASSUME Typed, Attached, InPhase, HostRequest
  PROVE  InPhase'
<1>0. /\ Up /\ stage = "none" /\ stage' = "setup" /\ req' \in Requests
      /\ req'.name = "set_adr" => addr = 0
      /\ req'.name = "set" => addr # 0
      /\ UNCHANGED <<firmware, power, PKTDIS, UIR, ep0, fifo, bus, known, due, got, toggle>>
  BY RequestFacts DEF HostRequest, Up
<1>1. HostRules'
  BY <1>0 DEF HostRules, InPhase
<1>2. Idle => Idle'
  BY <1>0 DEF Idle, Settled, Turning, Out
<1>3. Stalling => Stalling'
  BY <1>0 DEF Stalling, Settled, Turning, Out
<1>4. Reading => Reading'
  <2>1. Reading => Sent
    BY <1>0 DEF Reading, Sending
  <2>2. Sent => Sent'
    BY <1>0 DEF Sent
  <2> QED
    BY <1>0, <2>1, <2>2 DEF Reading, Settled, Turning
<1>5. Writing => Writing'
  <2>1. Writing => Acknowledged \/ Unheard
    BY <1>0 DEF Writing, Acknowledging, Asking
  <2>2. (Acknowledged => Acknowledged') /\ (Unheard => Unheard')
    BY <1>0 DEF Acknowledged, Unheard, Concluded
  <2> QED
    BY <1>0, <2>1, <2>2 DEF Writing, Turning, Out
<1>6. ~Requested /\ ~Checked
  BY <1>0 DEF Requested, Checked, Asking
<1>7. Phase'
  BY <1>0, <1>2, <1>3, <1>4, <1>5, <1>6 DEF InPhase, Phase
<1>8. UNCHANGED <<UIR, usb_device_state, reg>>
  BY <1>0
<1> QED
  BY <1>0, <1>1, <1>3, <1>7, <1>8 DEF InPhase

(* its SETUP is taken when nothing is under way, *)
LEMMA TakenInPhase ==
  ASSUME Typed, Attached, InPhase, HostSetup
  PROVE  InPhase'
<1>0. /\ Up /\ stage = "setup" /\ ep0Bo.own /\ ep0Bo.mode \in {"setup", "any"}
      /\ SetupPkt' = req /\ PKTDIS' = TRUE /\ ep0Bo' = [ep0Bo EXCEPT !.own = FALSE]
      /\ fifo' = Append(fifo, "setup")
      /\ stage' = (IF IsRead(req) THEN "data" ELSE "status_in")
      /\ due' = Reply(req) /\ got' = <<>> /\ toggle' = 1
      /\ UNCHANGED <<at, device, UIR, ctrl_trf_state, todo, claimed, ep0Bi, known, req>>
      /\ Phase /\ HostRules /\ (usb_device_state = "CONFIGURED" <=> reg["cfg"] # 0)
  BY DEF HostSetup, Answering, Up, InPhase
<1>1. Idle
  BY <1>0 DEF Phase, Idle, Requested, Checked, Reading, Writing, Stalling, Asking, Sending,
              Sent, Acknowledging, Acknowledged, Unheard, Concluded, Out
<1>2. "STALL" \notin UIR
  BY <1>0, <1>1 DEF InPhase, Stalling, Idle, Out
<1>3. ~ep0Bo'.own /\ ~ep0Bi'.own /\ fifo' = <<"setup">>
  BY <1>0, <1>1, Buffers, Queues DEF Typed, BufferTypes, Idle
<1>4. Reply(req)' = Reply(req) /\ IsRead(req') = IsRead(req)
  BY <1>0 DEF Reply, IsRead, First, MinOf
<1>5. Requested'
  BY <1>0, <1>1, <1>3, <1>4 DEF Requested, Idle, Turning, Settled, Asking
<1>6. HostRules'
  BY <1>0 DEF HostRules
<1> QED
  BY <1>0, <1>2, <1>5, <1>6 DEF InPhase, Phase

(* its IN tokens take the packets of the data stage in turn, *)
LEMMA DataInPhase ==
  ASSUME Typed, Attached, InPhase, HostIn
  PROVE  InPhase'
<1>0. /\ Up /\ stage = "data" /\ ep0Bi.own /\ ~ep0Bi.stall
      /\ UNCHANGED <<firmware, PKTDIS, UIR, ep0Bo, known, req, due>>
      /\ Phase /\ HostRules /\ (usb_device_state = "CONFIGURED" <=> reg["cfg"] # 0)
  BY DEF HostIn, Answering, Up, InPhase
<1>1. Reading /\ Sending
  BY <1>0 DEF Phase, Idle, Requested, Checked, Reading, Writing, Stalling, Asking,
              Sent, Acknowledging, Acknowledged, Unheard, Concluded
<1>2. "STALL" \notin UIR
  BY <1>0 DEF InPhase, Stalling
<1>3. /\ fifo = <<>> /\ due = got \o Rest /\ Len(due) <= req.wLength
      /\ Len(ep0Bi.data) < EP0_BUFF_SIZE => todo = <<>>
  BY <1>0, <1>1 DEF Sending
<1>4. /\ ep0Bi \in InBuffers /\ ep0Bi.data \in Seq(Nat) /\ todo \in Seq(Nat)
      /\ got \in Seq(Nat) /\ ep0Bi.dts \in {0, 1} /\ toggle \in {0, 1}
      /\ req.wLength \in Nat
  BY Buffers, RequestFacts DEF Typed, FirmwareTypes, HostTypes, BufferTypes
<1>5. \/ ep0Bi' = ep0Bi /\ fifo' = <<>>
      \/ ep0Bi' = [ep0Bi EXCEPT !.own = FALSE] /\ fifo' = <<"in">>
  BY <1>3, Queues DEF HostIn
<1>6. /\ \/ ep0Bi'.own /\ fifo' = <<>>
         \/ ~ep0Bi'.own /\ fifo' = <<"in">>
      /\ ep0Bi'.dts = ep0Bi.dts /\ ep0Bi'.data = ep0Bi.data /\ ~ep0Bi'.stall
  <2>1. CASE ep0Bi' = ep0Bi /\ fifo' = <<>>
    BY <1>0, <2>1
  <2>2. CASE ep0Bi' = [ep0Bi EXCEPT !.own = FALSE] /\ fifo' = <<"in">>
    <3>1. /\ ep0Bi'.own = FALSE /\ ep0Bi'.stall = ep0Bi.stall
          /\ ep0Bi'.dts = ep0Bi.dts /\ ep0Bi'.data = ep0Bi.data
      BY <1>4, <2>2, Buffers
    <3> QED
      BY <1>0, <2>2, <3>1
  <2> QED
    BY <1>5, <2>1, <2>2
<1>7. /\ due = got' \o todo /\ ep0Bi.dts # toggle' /\ stage' \in {"data", "status_out"}
      /\ stage' = "status_out" => got' = due
  <2>1. CASE ep0Bi.dts = toggle
    <3>1. /\ got' = got \o ep0Bi.data /\ toggle' = 1 - toggle
          /\ stage' = IF \/ Len(ep0Bi.data) < EP0_BUFF_SIZE
                         \/ Len(got \o ep0Bi.data) >= req.wLength
                      THEN "status_out" ELSE "data"
      BY <2>1 DEF HostIn, TakeData
    <3>2. due = got \o (ep0Bi.data \o todo)
      BY <1>0, <1>3, <2>1 DEF Rest
    <3>3. got' \in Seq(Nat) /\ due = got' \o todo
      <4>1. got \o ep0Bi.data \in Seq(Nat)
        BY <1>4, ConcatProperties
      <4>2. (got \o ep0Bi.data) \o todo = got \o (ep0Bi.data \o todo)
        <5>1. got \in Seq(Nat) /\ ep0Bi.data \in Seq(Nat) /\ todo \in Seq(Nat)
          BY <1>4
        <5> QED
          BY <5>1, Associates
      <4> QED
        BY <3>1, <3>2, <4>1, <4>2, Zenon
    <3>4. /\ Len(due) = Len(got') + Len(todo) /\ Len(got') \in Nat /\ Len(todo) \in Nat
          /\ (Len(todo) = 0 <=> todo = <<>>) /\ got' \o <<>> = got'
      BY <1>4, <3>3, Prefixes
    <3>5. stage' = "status_out" => todo = <<>>
      <4>1. Len(got') >= req.wLength => Len(todo) = 0
        BY <1>3, <1>4, <3>4
      <4> QED
        BY <1>3, <3>1, <3>4, <4>1
    <3>6. ep0Bi.dts # toggle'
      BY <1>4, <2>1, <3>1
    <3> QED
      BY <3>1, <3>3, <3>4, <3>5, <3>6
  <2>2. CASE ep0Bi.dts # toggle
    BY <1>0, <1>3, <2>2 DEF HostIn, Rest
  <2> QED
    BY <2>1, <2>2
<1>8. todo' = todo /\ due' = due /\ req' = req /\ toggle' \in {0, 1}
  <2>1. UNCHANGED <<todo, due, req>>
    BY <1>0
  <2> QED
    BY <1>4, <2>1 DEF HostIn, TakeData
<1>9. Rest' = todo
  BY <1>6, <1>7, <1>8 DEF Rest
<1>10. Sending'
  BY <1>0, <1>1, <1>3, <1>6, <1>7, <1>8, <1>9 DEF Sending, Out
<1>11. HostRules' /\ Settled' /\ Turning' /\ ctrl_trf_state' = "CTRL_TRF_TX"
  BY <1>0, <1>1, <1>7 DEF HostRules, Reading, Settled, Turning
<1> QED
  BY <1>0, <1>2, <1>10, <1>11 DEF InPhase, Phase, Reading

(* and a status ends the transfer, *)
LEMMA StatusOutInPhase ==
  ASSUME Typed, Attached, InPhase, HostStatusOut
  PROVE  InPhase'
<1>0. /\ Up /\ stage = "status_out" /\ ep0Bo.own
      /\ ep0Bo' = [ep0Bo EXCEPT !.own = FALSE] /\ fifo' = Append(fifo, "out")
      /\ stage' = "none"
      /\ UNCHANGED <<firmware, PKTDIS, UIR, ep0Bi, known, req>>
      /\ Phase /\ HostRules /\ (usb_device_state = "CONFIGURED" <=> reg["cfg"] # 0)
  BY DEF HostStatusOut, Answering, Up, InPhase
<1>1. Reading /\ Sending /\ "STALL" \notin UIR
  BY <1>0 DEF Phase, InPhase, Idle, Requested, Checked, Reading, Writing, Stalling, Asking,
              Sent, Acknowledging, Acknowledged, Unheard, Concluded
<1>2. fifo' \in {<<"out">>, <<"in", "out">>}
  <2>1. fifo \in {<<>>, <<"in">>}
    BY <1>1, QueueOfPhase
  <2> QED
    BY <1>0, <2>1, Queues, Zenon
<1>3. ~ep0Bo'.own
  BY <1>0, Buffers DEF Typed, BufferTypes
<1>4. Sent'
  BY <1>0, <1>2, <1>3 DEF Sent
<1>5. HostRules' /\ Settled' /\ Turning' /\ ctrl_trf_state' = "CTRL_TRF_TX"
  BY <1>0, <1>1 DEF HostRules, Reading, Settled, Turning
<1> QED
  BY <1>0, <1>1, <1>4, <1>5 DEF InPhase, Phase, Reading

(* The status of a write, which ends the transfer.                         *)
LEMMA StatusInInPhase ==
  ASSUME Typed, Attached, InPhase, HostStatusIn
  PROVE  InPhase'
<1>0. /\ Up /\ stage = "status_in" /\ ep0Bi.own /\ ~ep0Bi.stall
      /\ UNCHANGED <<firmware, PKTDIS, UIR, ep0Bo, link, req>>
      /\ Phase /\ HostRules /\ (usb_device_state = "CONFIGURED" <=> reg["cfg"] # 0)
  BY DEF HostStatusIn, Answering, Up, InPhase
<1>1. Writing /\ Acknowledging /\ "STALL" \notin UIR
  BY <1>0 DEF Phase, InPhase, Idle, Requested, Checked, Reading, Writing, Stalling,
              Sending, Sent, Acknowledged, Unheard, Concluded
<1>2. \/ fifo' = <<"in">> /\ ~ep0Bi'.own
      \/ fifo' = <<>> /\ ep0Bi'.own /\ ~ep0Bi'.stall
  <2>1. fifo = <<>> /\ ep0Bi \in InBuffers /\ Append(<<>>, "in") = <<"in">>
    BY <1>1, Queues DEF Typed, BufferTypes, Acknowledging
  <2>2. \/ ep0Bi' = [ep0Bi EXCEPT !.own = FALSE] /\ fifo' = Append(fifo, "in")
        \/ ep0Bi' = ep0Bi /\ fifo' = fifo
    BY DEF HostStatusIn
  <2>3. [ep0Bi EXCEPT !.own = FALSE].own = FALSE
    BY <2>1, Buffers
  <2>4. CASE ep0Bi' = [ep0Bi EXCEPT !.own = FALSE] /\ fifo' = Append(fifo, "in")
    BY <2>1, <2>3, <2>4
  <2>5. CASE ep0Bi' = ep0Bi /\ fifo' = fifo
    BY <1>0, <2>1, <2>5
  <2> QED
    BY <2>2, <2>4, <2>5
<1>3. /\ SetupPkt = req /\ req.name \in {"set", "set_adr"}
      /\ req.name = "set_adr" => req.of = "adr" /\ req.value = Address
      /\ Address # 0 /\ addr \in {0, Address}
  <2>1. SetupPkt = req /\ ~IsRead(req)
    BY <1>1 DEF Acknowledging, Asking
  <2> QED
    BY <2>1, RequestFacts, UsbDeviceAssumption
       DEF IsRead, UsbDeviceAssumption, Typed, HostTypes
<1>4. /\ stage' = "none"
      /\ addr' = (IF req.name = "set_adr" THEN Address ELSE addr)
      /\ cfg' = (IF req.of = "cfg" THEN req.value ELSE cfg)
  BY <1>1, <1>3 DEF HostStatusIn, Acknowledging
<1>5. /\ UADDR = addr /\ (usb_device_state = "ADR_PENDING" <=> req.name = "set_adr")
      /\ reg["cfg"] = IF req.name = "set" /\ req.of = "cfg" THEN req.value ELSE cfg
  BY <1>1, <1>3 DEF Acknowledging, Obeyed
<1>6. /\ reg["cfg"] = cfg'
      /\ IF usb_device_state = "ADR_PENDING" THEN UADDR = 0 /\ addr' = Address
         ELSE UADDR = addr'
  BY <1>0, <1>3, <1>4, <1>5 DEF HostRules
<1>7. UNCHANGED <<usb_device_state, UADDR, reg, UIR, ctrl_trf_state, at, PKTDIS, ep0Bo, req>>
  BY <1>0
<1>8. Acknowledged' \/ Unheard'
  BY <1>2, <1>4, <1>6, <1>7 DEF Acknowledged, Unheard, Concluded
<1>9. HostRules'
  BY <1>0, <1>3, <1>4 DEF HostRules
<1>10. Writing'
  BY <1>1, <1>7, <1>8 DEF Writing, Turning, Out
<1> QED
  BY <1>0, <1>1, <1>7, <1>9, <1>10 DEF InPhase, Phase

(* or a stall.                                                             *)
LEMMA StalledInPhase ==
  ASSUME Typed, Attached, InPhase, HostStalled
  PROVE  InPhase'
<1>0. /\ Up /\ stage' = "none" /\ stage \in {"data", "status_in"} /\ ep0Bi.own /\ ep0Bi.stall
      /\ UNCHANGED <<firmware, PKTDIS, ep0, fifo, known, req>>
      /\ Phase /\ HostRules /\ (usb_device_state = "CONFIGURED" <=> reg["cfg"] # 0)
  BY DEF HostStalled, Answering, Up, InPhase
<1>1. Stalling
  BY <1>0 DEF Phase, Idle, Requested, Checked, Reading, Writing, Asking, Sending,
              Sent, Acknowledging, Acknowledged, Unheard, Concluded
<1>2. Stalling' /\ HostRules'
  BY <1>0, <1>1 DEF Stalling, Settled, Turning, HostRules, Out
<1> QED
  BY <1>0, <1>2 DEF InPhase, Phase

(* What disturbs the bus ends the host's trust, or leaves the transfer as  *)
(* it is.                                                                  *)
LEMMA DisturbedInPhase ==
  ASSUME Typed, Attached, InPhase, Signalling \/ Disturbances \/ UNCHANGED vars
  PROVE  InPhase'
<1>1. CASE Plug \/ Unplug \/ HostReset \/ HostTimesOut \/ SieReset
  BY <1>1 DEF Plug, Unplug, HostReset, HostTimesOut, ResetsDevice, SieReset, Forget, Up,
              InPhase
<1>2. CASE LineIdle \/ LineBusy \/ HostRecovered
  <2>1. UNCHANGED conversation /\ UNCHANGED at
    BY <1>2 DEF LineIdle, LineBusy, HostRecovered, SieSame, conversation
  <2>2. (Up' => Up) /\ ("STALL" \in UIR' => "STALL" \in UIR)
    BY <1>2 DEF LineIdle, LineBusy, HostRecovered, Wakes, Up
  <2> QED
    BY <2>1, <2>2, Kept
<1>3. CASE UNCHANGED vars
  BY <1>3, Kept DEF vars, Up, conversation
<1> QED
  BY <1>1, <1>2, <1>3 DEF Signalling, Disturbances

(* Every step of the bus and of the host leads from a phase to a phase.    *)
LEMMA BusInPhase ==
  ASSUME Typed, Attached, InPhase,
         HostRequest \/ Transactions \/ Signalling \/ Disturbances \/ UNCHANGED vars
  PROVE  InPhase'
BY RequestInPhase, TakenInPhase, DataInPhase, StatusOutInPhase, StatusInInPhase,
   StalledInPhase, DisturbedInPhase
   DEF Transactions

-----------------------------------------------------------------------------
(* At the start the cable is out.                                          *)
LEMMA InitInv == Init => Typed /\ Attached /\ InPhase
BY InitTypes, InitAttached DEF Init, InPhase, Up

(* The invariant is inductive,                                             *)
LEMMA StepInv == Typed /\ Attached /\ InPhase /\ [Next]_vars => (Typed /\ Attached /\ InPhase)'
<1> SUFFICES ASSUME Typed, Attached, InPhase, [Next]_vars
             PROVE  (Typed /\ Attached /\ InPhase)'
  OBVIOUS
<1>1. CASE Firmware
  BY <1>1, FirmwareTyped, FirmwareAttached, FirmwareInPhase
<1>2. CASE HostRequest \/ Transactions \/ Signalling \/ Disturbances \/ UNCHANGED vars
  BY <1>2, BusTyped, BusAttached, BusInPhase
<1> QED
  BY <1>1, <1>2 DEF Next

(* and so always holds.                                                    *)
LEMMA Invariance == Spec => [](Typed /\ Attached /\ InPhase)
BY InitInv, StepInv, PTL DEF Spec

(* The variables of the stack, of the SIE and of the host keep their types. *)
THEOREM DeviceTyping == Spec => []TypeOK
<1>1. Typed /\ Attached /\ InPhase => TypeOK
  BY Types
<1> QED
  BY <1>1, Invariance, PTL

(* What the host has got of a transfer is the beginning of what it asked   *)
(* for, and all of it at the end, although acknowledges are lost, packets  *)
(* come twice and resets cut transfers short (usbctrltrf.c).               *)
THEOREM TransfersIntact == Spec => []TransferIntact
<1>1. Typed /\ Attached /\ InPhase => TransferIntact
  <2> SUFFICES ASSUME Typed, Attached, InPhase, stage \in {"data", "status_out"}
               PROVE  /\ Len(got) <= Len(due) /\ got = SubSeq(due, 1, Len(got))
                      /\ stage = "status_out" => got = due
    BY DEF TransferIntact
  <2>1. Phase /\ got \in Seq(Nat) /\ due \in Seq(Nat)
    BY DEF Attached, InPhase, Up, Typed, HostTypes
  <2>2. CASE Reading
    <3>1. Sending
      BY <2>2 DEF Reading, Sent
    <3>2. due = got \o Rest /\ (stage = "status_out" => got = due)
      BY <3>1 DEF Sending
    <3>3. Rest \in Seq(Nat)
      <4>1. ep0Bi.data \in Seq(Nat) /\ todo \in Seq(Nat)
        BY Buffers DEF Typed, BufferTypes, FirmwareTypes
      <4> QED
        BY <4>1, ConcatProperties DEF Rest
    <3> QED
      BY <2>1, <3>2, <3>3, Prefixes
  <2>3. CASE ~Reading
    <3>1. stage = "data" /\ (got = <<>> \/ got = due)
      BY <2>1, <2>3
         DEF Phase, Idle, Requested, Checked, Writing, Stalling, Asking, Acknowledging,
             Acknowledged, Unheard, Concluded, IsRead
    <3>2. CASE got = <<>>
      <4>1. Len(<<>>) = 0 /\ SubSeq(due, 1, 0) = <<>> /\ Len(due) \in Nat
        BY <2>1, SubSeqEmpty, LenProperties
      <4> QED
        BY <3>1, <3>2, <4>1
    <3>3. CASE got = due
      <4>1. SubSeq(due, 1, Len(due)) = due /\ Len(due) \in Nat
        BY <2>1, SubSeqFull, LenProperties
      <4> QED
        BY <3>1, <3>3, <4>1
    <3> QED
      BY <3>1, <3>2, <3>3
  <2> QED
    BY <2>2, <2>3
<1> QED
  BY <1>1, Invariance, PTL

(* Device and host agree on the address and, outside SET_CONFIGURATION, on *)
(* the configuration (usb9.c), whenever the host takes the device for      *)
(* ready, but for an address of which the device does not know yet, or     *)
(* will not, since the acknowledge was lost, that the host has had it.     *)
THEOREM HostAndDeviceAgree == Spec => []HostAgrees
<1>1. Typed /\ Attached /\ InPhase => HostAgrees
  <2> SUFFICES ASSUME Typed, Attached, InPhase, link = "ready"
               PROVE  /\ UADDR = addr \/ (AddressPending /\ UADDR = 0)
                      /\ ~(stage # "none" /\ req.of = "cfg") => reg["cfg"] = cfg
                      /\ (usb_device_state = "CONFIGURED") <=> (reg["cfg"] # 0)
    BY DEF HostAgrees
  <2>1. Phase /\ (usb_device_state = "CONFIGURED" <=> reg["cfg"] # 0)
    BY DEF InPhase, Up
  <2>2. CASE Idle \/ Requested \/ Reading \/ Stalling
    BY <2>1, <2>2 DEF Idle, Requested, Reading, Stalling, Settled
  <2>3. CASE Checked \/ (Writing /\ Acknowledging)
    BY <2>1, <2>3 DEF Checked, Acknowledging, Obeyed, Asking, IsRead
  <2>4. CASE Writing /\ (Acknowledged \/ Unheard)
    <3>1. /\ fifo = <<"in">> \/ Unacknowledged
          /\ reg["cfg"] = cfg
          /\ IF usb_device_state = "ADR_PENDING" THEN UADDR = 0 ELSE UADDR = addr
      BY <2>4 DEF Acknowledged, Unheard, Concluded, Writing, Unacknowledged
    <3>2. usb_device_state = "ADR_PENDING" => AddressPending
      <4>1. "in" \in {fifo[i] : i \in 1 .. Len(fifo)} \/ Unacknowledged
        BY <3>1
      <4> QED
        BY <4>1 DEF AddressPending, Attached
    <3> QED
      BY <2>1, <3>1, <3>2
  <2> QED
    BY <2>1, <2>2, <2>3, <2>4 DEF Phase, Writing
<1> QED
  BY <1>1, Invariance, PTL

=============================================================================
