------------------------------- MODULE UsbDevice -------------------------------
(***************************************************************************)
(* The USB stack of the bridge firmware: usbdrv.c (the bus, the interrupts *)
(* and the device states), usbctrltrf.c (control transfers on endpoint 0)  *)
(* and the requests of usb9.c and hid.c.  The main loop polls; the serial  *)
(* interface engine (SIE) of the chip answers the tokens of the host while *)
(* it does: by the descriptors of the endpoint's two buffers that it owns, *)
(* queueing each transaction it has completed.  What the SIE does is taken *)
(* from the comments of the code; the host obeys the protocol, and gives a *)
(* transfer up only by a reset (see HostReset and HostTimesOut).           *)
(***************************************************************************)
EXTENDS Integers, Sequences

CONSTANTS
  EP0_BUFF_SIZE,   \* bytes of a packet on endpoint 0
  Descriptors,     \* the descriptors by name, each a sequence of bytes
  Unsupported,     \* names of descriptors that no handler knows
  Registers,       \* what GET and SET requests read and write
  Address,         \* the address that the host gives
  Lengths,         \* the wLengths of the reads
  Budget           \* bound on the events that disturb the bus

ASSUME UsbDeviceAssumption ==
  /\ EP0_BUFF_SIZE \in Nat \ {0}
  /\ \A d \in DOMAIN Descriptors : Descriptors[d] \in Seq(Nat)
  /\ Unsupported \cap (DOMAIN Descriptors \cup Registers \cup {"adr"}) = {}
  /\ {"cfg", "wakeup"} \subseteq Registers
  /\ Address \in Nat \ {0}
  /\ Lengths \subseteq Nat \ {0}
  /\ Budget \in Nat

VARIABLES
  at,                                \* where the main loop is
  usb_device_state, UADDR, reg,
  USBEN, SUSPND, PKTDIS,             \* of UCON
  UIR, UIE,                          \* the interrupts raised, those enabled
  ctrl_trf_state, SetupPkt,
  todo,          \* the bytes that pSrc and wCount still have to send
  claimed,       \* ctrl_trf_session_owner is not MUID_NULL
  ep0Bo, ep0Bi,  \* the buffer descriptors of endpoint 0
  fifo,          \* the transactions completed and not yet served (USTAT)
  plugged, line, \* the cable; "busy", or "idle" for 3 ms
  link, addr, cfg,       \* what the host has made of the device
  stage, req, due, got, toggle,      \* its control transfer
  budget

power  == <<USBEN, SUSPND>>
device == <<usb_device_state, UADDR, reg>>
ctrl   == <<ctrl_trf_state, SetupPkt, todo, claimed>>
ep0    == <<ep0Bo, ep0Bi>>
bus    == <<plugged, line>>
known  == <<link, addr, cfg>>
transfer == <<stage, req, due, got, toggle>>
host   == <<known, transfer>>
firmware == <<at, device, ctrl, UIE>>

vars == <<at, device, power, PKTDIS, UIR, UIE, ctrl, ep0, fifo, bus, host, budget>>

DeviceStates == {"DETACHED", "ATTACHED", "POWERED", "DEFAULT", "ADR_PENDING",
                 "ADDRESS", "CONFIGURED"}
BeforeDefault == {"DETACHED", "ATTACHED", "POWERED"}

(* The requests: reads with a wLength, writes with a value. *)
GetDsc(d, n)   == [name |-> "get_dsc", of |-> d, value |-> 0, wLength |-> n]
GetReg(r)      == [name |-> "get", of |-> r, value |-> 0, wLength |-> 1]
SetReg(r, v)   == [name |-> "set", of |-> r, value |-> v, wLength |-> 0]
SetAdr         == [name |-> "set_adr", of |-> "adr", value |-> Address,
                   wLength |-> 0]
Requests ==
  {GetDsc(d, n) : d \in DOMAIN Descriptors \cup Unsupported, n \in Lengths}
    \cup {GetReg(r) : r \in Registers} \cup {SetAdr}
    \cup {SetReg(r, v) : r \in Registers, v \in {0, 1}}

IsRead(q) == q.name \in {"get_dsc", "get"}
NoRequest == SetReg("cfg", 0)

MinOf(a, b) == IF a < b THEN a ELSE b
First(s, n) == SubSeq(s, 1, MinOf(n, Len(s)))
After(s, n) == SubSeq(s, n + 1, Len(s))

(* A descriptor of an IN buffer: owned by the SIE or not, stalled, its data *)
(* toggle and its bytes.  An OUT buffer takes a SETUP only (its toggle is   *)
(* checked), a SETUP or a status, or data.                                  *)
In(own, stall, dts, data) == [own |-> own, stall |-> stall, dts |-> dts, data |-> data]
Out(own, mode) == [own |-> own, mode |-> mode]
InOfCpu == In(FALSE, FALSE, 0, <<>>)

Init ==
  /\ at = "bus" /\ usb_device_state = "DETACHED" /\ UADDR = 0
  /\ reg = [r \in Registers |-> 0]
  /\ USBEN = FALSE /\ SUSPND = FALSE /\ PKTDIS = FALSE
  /\ UIR = {} /\ UIE = {}
  /\ ctrl_trf_state = "WAIT_SETUP" /\ SetupPkt = NoRequest
  /\ todo = <<>> /\ claimed = FALSE
  /\ ep0Bo = Out(FALSE, "setup") /\ ep0Bi = InOfCpu /\ fifo = <<>>
  /\ plugged = FALSE /\ line = "busy"
  /\ link = "off" /\ addr = 0 /\ cfg = 0
  /\ stage = "none" /\ req = NoRequest /\ due = <<>> /\ got = <<>> /\ toggle = 1
  /\ budget = Budget

-----------------------------------------------------------------------------
(* usbdrv.c: one action per task of the main loop's turn.                  *)

(* USBCheckBusStatus, with USBModuleEnable and USBModuleDisable; then the  *)
(* first test of USBDriverService.                                         *)
USBCheckBusStatus ==
  /\ at = "bus"
  /\ USBEN' = plugged
  /\ SUSPND' = (SUSPND /\ USBEN /\ plugged)
  /\ PKTDIS' = (PKTDIS /\ USBEN /\ plugged)
  /\ LET attached == IF plugged = USBEN THEN usb_device_state
                     ELSE IF plugged THEN "ATTACHED" ELSE "DETACHED"
     IN  \/ /\ attached = "ATTACHED"        \* SE0 has ended
            /\ usb_device_state' = "POWERED"
            /\ UIR' = {} /\ UIE' = {"URST", "IDLE"}
         \/ /\ attached # "ATTACHED" \/ usb_device_state # "ATTACHED"
            /\ usb_device_state' = attached
            /\ UIE' = IF plugged = USBEN THEN UIE ELSE {}
            /\ UNCHANGED UIR
  /\ at' = IF usb_device_state' = "DETACHED" THEN "bus" ELSE "activity"
  /\ UNCHANGED <<UADDR, reg, ctrl, ep0, fifo, bus, host, budget>>

Due(i) == i \in UIR /\ i \in UIE

(* Task A, USBWakeFromSuspend. *)
USBWakeFromSuspend ==
  /\ at = "activity"
  /\ IF Due("ACTV")
     THEN SUSPND' = FALSE /\ UIE' = UIE \ {"ACTV"} /\ UIR' = UIR \ {"ACTV"}
     ELSE UNCHANGED <<SUSPND, UIE, UIR>>
  /\ at' = IF SUSPND' THEN "bus" ELSE "reset"
  /\ UNCHANGED <<device, USBEN, PKTDIS, ctrl, ep0, fifo, bus, host, budget>>

(* USBPrepareForNextSetupTrf. *)
USBPrepareForNextSetupTrf ==
  /\ ctrl_trf_state' = "WAIT_SETUP"
  /\ ep0Bo' = Out(TRUE, "setup") /\ ep0Bi' = [ep0Bi EXCEPT !.own = FALSE]

USBProtocolResetHandler_configured ==                                \* mutant
  /\ UIR' = {} /\ UIE' = {"URST", "IDLE", "STALL", "TRN"}
  /\ UADDR' = 0 /\ fifo' = <<>> /\ PKTDIS' = FALSE
  /\ USBPrepareForNextSetupTrf
  /\ reg' = [reg EXCEPT !["wakeup"] = 0]
  /\ usb_device_state' = "DEFAULT"

(* Task B, USBProtocolResetHandler. *)
USBProtocolResetHandler ==
  /\ UIR' = {} /\ UIE' = {"URST", "IDLE", "STALL", "TRN"}
  /\ UADDR' = 0 /\ fifo' = <<>> /\ PKTDIS' = FALSE
  /\ USBPrepareForNextSetupTrf
  /\ reg' = [reg EXCEPT !["wakeup"] = 0, !["cfg"] = 0]
  /\ usb_device_state' = "DEFAULT"

ServeReset ==
  /\ at = "reset" /\ at' = "events"
  /\ IF Due("URST") THEN USBProtocolResetHandler
     ELSE UNCHANGED <<UIR, UIE, device, fifo, PKTDIS, ctrl_trf_state, ep0>>
  /\ UNCHANGED <<power, SetupPkt, todo, claimed, bus, host, budget>>

ServeEvents_cleared ==                                               \* mutant
  /\ at = "events"
  /\ SUSPND' = (SUSPND \/ Due("IDLE"))
  /\ UIE' = IF Due("IDLE") THEN UIE \cup {"ACTV"} ELSE UIE
  /\ UIR' = {i \in UIR : ~Due(i) /\ ~(i = "ACTV" /\ Due("IDLE"))}
  /\ IF Due("STALL") THEN USBPrepareForNextSetupTrf
     ELSE UNCHANGED <<ctrl_trf_state, ep0>>
  /\ at' = IF usb_device_state \in BeforeDefault THEN "bus" ELSE "transaction"
  /\ UNCHANGED <<device, USBEN, PKTDIS, SetupPkt, todo, claimed, fifo, bus, host,
                 budget>>

ServeEvents_stalled ==                                               \* mutant
  /\ at = "events"
  /\ SUSPND' = (SUSPND \/ Due("IDLE"))
  /\ UIE' = IF Due("IDLE") THEN UIE \cup {"ACTV"} ELSE UIE
  /\ UIR' = {i \in UIR : ~(i \in {"IDLE", "STALL"} /\ Due(i))}
  /\ at' = IF usb_device_state \in BeforeDefault THEN "bus" ELSE "transaction"
  /\ UNCHANGED <<device, USBEN, PKTDIS, ctrl, ep0, fifo, bus, host, budget>>

(* Task C, USBSuspend and USBStallHandler: the first may leave the module  *)
(* suspended while the rest of the turn is still done.                     *)
ServeEvents ==
  /\ at = "events"
  /\ SUSPND' = (SUSPND \/ Due("IDLE"))
  /\ UIE' = IF Due("IDLE") THEN UIE \cup {"ACTV"} ELSE UIE
  /\ UIR' = {i \in UIR : ~(i \in {"IDLE", "STALL"} /\ Due(i))}
  /\ IF Due("STALL") THEN USBPrepareForNextSetupTrf
     ELSE UNCHANGED <<ctrl_trf_state, ep0>>
  /\ at' = IF usb_device_state \in BeforeDefault THEN "bus" ELSE "transaction"
  /\ UNCHANGED <<device, USBEN, PKTDIS, SetupPkt, todo, claimed, fifo, bus, host,
                 budget>>

-----------------------------------------------------------------------------
(* usbctrltrf.c and usb9.c: Task D, one completed transaction per turn.    *)

Serving(kind) ==
  /\ at = "transaction" /\ "TRN" \in UIE
  /\ fifo # <<>> /\ Head(fifo) = kind

NothingToServe ==
  /\ at = "transaction" /\ at' = "bus"
  /\ fifo = <<>> \/ "TRN" \notin UIE
  /\ UNCHANGED <<device, power, PKTDIS, UIR, UIE, ctrl, ep0, fifo, bus, host, budget>>

(* The requests that write do so as soon as their SETUP is served.         *)
USBStdSetCfgHandler(v) ==
  /\ reg' = [r \in Registers |-> IF r = "cfg" THEN v
                                 ELSE IF r = "alt" THEN 0 ELSE reg[r]]
  /\ usb_device_state' = IF v = 0 THEN "ADDRESS" ELSE "CONFIGURED"

SetRegister(r, v) ==
  IF r = "cfg" THEN USBStdSetCfgHandler(v)
  ELSE reg' = [reg EXCEPT ![r] = v] /\ UNCHANGED usb_device_state

(* USBCtrlTrfSetupHandler, stages 1 and 2: USBCheckStdRequest and          *)
(* USBCheckHIDRequest find the owner of the request, and what it sends.    *)
CheckRequest(q) ==
  /\ claimed' = (q.of \notin Unsupported)
  /\ todo' = IF ~IsRead(q) \/ q.of \in Unsupported THEN <<>>
             ELSE IF q.name = "get" THEN <<reg[q.of]>> ELSE Descriptors[q.of]
  /\ CASE q.name = "set_adr" -> usb_device_state' = "ADR_PENDING" /\ UNCHANGED reg
       [] q.name = "set"     -> SetRegister(q.of, q.value)
       [] OTHER              -> UNCHANGED <<usb_device_state, reg>>

(* ... and the first statement of stage 3: the SIE answers again, before   *)
(* the descriptors are set.                                                *)
ServeSetup ==
  /\ Serving("setup") /\ at' = "complete"
  /\ ctrl_trf_state' = "WAIT_SETUP"
  /\ CheckRequest(SetupPkt)
  /\ PKTDIS' = FALSE
  /\ UNCHANGED <<UADDR, power, UIR, UIE, SetupPkt, ep0, fifo, bus, host, budget>>

TxService_unpaid(bytes, dts) ==                                      \* mutant
  /\ ep0Bi' = In(TRUE, FALSE, dts, First(bytes, EP0_BUFF_SIZE))
  /\ todo' = bytes

TxService_untoggled(bytes, dts) ==                                   \* mutant
  /\ ep0Bi' = In(TRUE, FALSE, dts + 1, First(bytes, EP0_BUFF_SIZE))
  /\ todo' = After(bytes, EP0_BUFF_SIZE)

(* USBCtrlTrfTxService: the next packet, and what is left.  An answer is   *)
(* cut to wLength before its first packet is.                              *)
TxService(bytes, dts) ==
  /\ ep0Bi' = In(TRUE, FALSE, dts, First(bytes, EP0_BUFF_SIZE))
  /\ todo' = After(bytes, EP0_BUFF_SIZE)

(* The rest of USBCtrlEPServiceComplete.                                   *)
USBCtrlEPServiceComplete ==
  /\ at = "complete" /\ at' = "bus"
  /\ fifo' = Tail(fifo)
  /\ IF ~claimed
     THEN /\ ep0Bo' = Out(TRUE, "stall") /\ ep0Bi' = In(TRUE, TRUE, 0, <<>>)
          /\ UNCHANGED <<todo, ctrl_trf_state>>
     ELSE IF IsRead(SetupPkt)
     THEN /\ TxService(First(todo, SetupPkt.wLength), 1)
          /\ ctrl_trf_state' = "CTRL_TRF_TX" /\ ep0Bo' = Out(TRUE, "any")
     ELSE /\ ep0Bi' = In(TRUE, FALSE, 1, <<>>) /\ UNCHANGED todo
          /\ ctrl_trf_state' = "CTRL_TRF_RX" /\ ep0Bo' = Out(TRUE, "data")
  /\ UNCHANGED <<device, power, PKTDIS, UIR, UIE, SetupPkt, claimed, bus, host, budget>>

(* USBCtrlTrfInHandler, with mUSBCheckAdrPendingState.                     *)
CheckAdrPending ==
  IF usb_device_state = "ADR_PENDING"
  THEN /\ UADDR' = SetupPkt.value
       /\ usb_device_state' = IF SetupPkt.value > 0 THEN "ADDRESS" ELSE "DEFAULT"
  ELSE UNCHANGED <<UADDR, usb_device_state>>

ServeIn ==
  /\ Serving("in") /\ at' = "bus"
  /\ fifo' = Tail(fifo)
  /\ CheckAdrPending
  /\ IF ctrl_trf_state = "CTRL_TRF_TX"
     THEN TxService(todo, 1 - ep0Bi.dts) /\ UNCHANGED <<ctrl_trf_state, ep0Bo>>
     ELSE USBPrepareForNextSetupTrf /\ UNCHANGED todo
  /\ UNCHANGED <<reg, power, PKTDIS, UIR, UIE, SetupPkt, claimed, bus, host, budget>>

(* USBCtrlTrfOutHandler.  The requests served have no data stage towards   *)
(* the device: the OUT transaction is the status of a read.                *)
ServeOut ==
  /\ Serving("out") /\ at' = "bus"
  /\ fifo' = Tail(fifo)
  /\ USBPrepareForNextSetupTrf
  /\ UNCHANGED <<device, power, PKTDIS, UIR, UIE, SetupPkt, todo, claimed, bus, host,
                 budget>>

-----------------------------------------------------------------------------
(* The host and the SIE: one action per transaction on the bus.            *)

(* The SIE answers the tokens for its address.                             *)
Answering ==
  /\ USBEN /\ ~SUSPND /\ ~PKTDIS /\ "URST" \notin UIR
  /\ link = "ready" /\ line = "busy" /\ addr = UADDR

(* Until it has given an address the host does nothing but read            *)
(* descriptors and give it.                                                *)
HostRequest ==
  /\ stage = "none" /\ link = "ready" /\ line = "busy"
  /\ \E q \in Requests :
       /\ (q.name = "set_adr") <=> (addr = 0 /\ q.name # "get_dsc")
       /\ req' = q
  /\ stage' = "setup"
  /\ UNCHANGED <<firmware, power, PKTDIS, UIR, ep0, fifo, bus, known, due, got, toggle,
                 budget>>

(* What a request is due.                                                  *)
Reply(q) ==
  IF ~IsRead(q) \/ q.of \in Unsupported THEN <<>>
  ELSE First(IF q.name = "get" THEN <<reg[q.of]>> ELSE Descriptors[q.of], q.wLength)

HostSetup ==
  /\ stage = "setup" /\ Answering
  /\ ep0Bo.own /\ ep0Bo.mode \in {"setup", "any"}
  /\ SetupPkt' = req /\ PKTDIS' = TRUE
  /\ ep0Bo' = [ep0Bo EXCEPT !.own = FALSE]
  /\ fifo' = Append(fifo, "setup")
  /\ stage' = IF IsRead(req) THEN "data" ELSE "status_in"
  /\ due' = Reply(req) /\ got' = <<>> /\ toggle' = 1
  /\ UNCHANGED <<at, device, power, UIR, UIE, ctrl_trf_state, todo, claimed, ep0Bi, bus,
                 known, req, budget>>

(* An IN token of the data stage: the host drops a packet with the toggle  *)
(* of the last one, and a packet that is not full, or the last byte asked  *)
(* for, ends the stage.  If its acknowledge is lost the SIE keeps the      *)
(* packet.                                                                 *)
TakeData(packet) ==
  /\ got' = got \o packet /\ toggle' = 1 - toggle
  /\ stage' = IF Len(packet) < EP0_BUFF_SIZE \/ Len(got \o packet) >= req.wLength
              THEN "status_out" ELSE "data"

HostIn ==
  /\ stage = "data" /\ Answering
  /\ ep0Bi.own /\ ~ep0Bi.stall
  /\ IF ep0Bi.dts = toggle THEN TakeData(ep0Bi.data) ELSE UNCHANGED <<got, toggle, stage>>
  /\ \/ /\ ep0Bi' = [ep0Bi EXCEPT !.own = FALSE] /\ fifo' = Append(fifo, "in")
        /\ UNCHANGED budget
     \/ /\ budget > 0 /\ budget' = budget - 1
        /\ UNCHANGED <<ep0Bi, fifo>>
  /\ UNCHANGED <<firmware, power, PKTDIS, UIR, ep0Bo, bus, known, req, due>>

(* The status of a read, and of a write.                                   *)
HostStatusOut ==
  /\ stage = "status_out" /\ Answering
  /\ ep0Bo.own /\ ep0Bo.mode = "any"
  /\ ep0Bo' = [ep0Bo EXCEPT !.own = FALSE] /\ fifo' = Append(fifo, "out")
  /\ stage' = "none"
  /\ UNCHANGED <<firmware, power, PKTDIS, UIR, ep0Bi, bus, known, req, due, got, toggle,
                 budget>>

(* The host is done when it has the status of a write; the device knows it *)
(* only if the acknowledge comes.                                          *)
HostStatusIn ==
  /\ stage = "status_in" /\ Answering
  /\ ep0Bi.own /\ ~ep0Bi.stall
  /\ \/ /\ ep0Bi' = [ep0Bi EXCEPT !.own = FALSE] /\ fifo' = Append(fifo, "in")
        /\ UNCHANGED budget
     \/ /\ budget > 0 /\ budget' = budget - 1
        /\ UNCHANGED <<ep0Bi, fifo>>
  /\ IF ep0Bi.dts = 1
     THEN /\ stage' = "none" /\ got' = ep0Bi.data
          /\ addr' = IF req.name = "set_adr" THEN req.value ELSE addr
          /\ cfg' = IF req.of = "cfg" THEN req.value ELSE cfg
     ELSE UNCHANGED <<stage, got, addr, cfg>>
  /\ UNCHANGED <<firmware, power, PKTDIS, UIR, ep0Bo, bus, link, req, due, toggle>>

(* A stalled endpoint ends the transfer.                                   *)
HostStalled ==
  /\ stage \in {"data", "status_in"} /\ Answering
  /\ ep0Bi.own /\ ep0Bi.stall
  /\ UIR' = UIR \cup {"STALL"}
  /\ stage' = "none"
  /\ UNCHANGED <<firmware, power, PKTDIS, ep0, fifo, bus, known, req, due, got, toggle,
                 budget>>

-----------------------------------------------------------------------------
(* What disturbs the bus.                                                  *)
NoTransfer == stage' = "none" /\ UNCHANGED <<req, due, got, toggle>>
Disturbs   == budget > 0 /\ budget' = budget - 1
SieSame    == UNCHANGED <<firmware, power, PKTDIS, ep0, fifo>>

(* The host forgets the device, its address and its configuration.         *)
Forget(l) == link' = l /\ addr' = 0 /\ cfg' = 0 /\ NoTransfer

(* The cable is not out and in again within one turn of the main loop.     *)
Plug ==
  /\ ~plugged /\ ~USBEN /\ plugged' = TRUE /\ line' = "busy"
  /\ Forget("attached")
  /\ SieSame /\ UNCHANGED <<UIR, budget>>

Unplug ==
  /\ plugged /\ plugged' = FALSE /\ Disturbs
  /\ Forget("off")
  /\ SieSame /\ UNCHANGED <<UIR, line>>

(* An idle line raises IDLEIF, for which the clock of the SIE must run, and *)
(* the activity that ends it ACTVIF, once.                                 *)
LineIdle ==
  /\ USBEN /\ ~SUSPND /\ plugged /\ line = "busy" /\ stage = "none" /\ Disturbs
  /\ link \in {"attached", "ready"}
  /\ line' = "idle" /\ UIR' = UIR \cup {"IDLE"}
  /\ SieSame /\ UNCHANGED <<plugged, host>>

Wakes == UIR' = IF line = "idle" THEN UIR \cup {"ACTV"} ELSE UIR

LineBusy ==
  /\ line = "idle" /\ plugged /\ line' = "busy" /\ Wakes
  /\ SieSame /\ UNCHANGED <<plugged, host, budget>>

ResetsDevice ==
  /\ Forget("reset")
  /\ line' = "busy" /\ Wakes
  /\ SieSame /\ UNCHANGED plugged

(* The host resets a device that it has just found (it waits for it to be  *)
(* powered), or one that it knows, in the middle of a transfer or not.     *)
HostReset ==
  /\ plugged
  /\ \/ link = "attached" /\ usb_device_state = "POWERED" /\ UNCHANGED budget
     \/ link = "ready" /\ Disturbs
  /\ ResetsDevice

(* The device still waits for the end of a write whose status the host has *)
(* got.  Its OUT buffer takes a DATA1 packet, and so no SETUP: the host    *)
(* sends its next one in vain, and resets the device when it has waited    *)
(* for much longer than a turn of the main loop takes.                     *)
Unacknowledged ==
  /\ link = "ready" /\ stage \in {"none", "setup"}
  /\ ctrl_trf_state = "CTRL_TRF_RX" /\ fifo = <<>>

HostTimesOut ==
  /\ stage = "setup" /\ Unacknowledged
  /\ ResetsDevice /\ UNCHANGED budget

(* URSTIF is raised once the module is not suspended; the reset lasts until *)
(* it has been, and then the host leaves the device time to serve it.      *)
SieReset ==
  /\ link = "reset" /\ USBEN /\ ~SUSPND
  /\ link' = "recovery" /\ UIR' = UIR \cup {"URST"}
  /\ SieSame /\ UNCHANGED <<bus, addr, cfg, transfer, budget>>

HostRecovered ==
  /\ link = "recovery" /\ "URST" \notin UIR
  /\ link' = "ready"
  /\ SieSame /\ UNCHANGED <<UIR, bus, addr, cfg, transfer, budget>>

-----------------------------------------------------------------------------
Firmware ==
  \/ USBCheckBusStatus \/ USBWakeFromSuspend \/ ServeReset \/ ServeEvents
  \/ NothingToServe \/ ServeSetup \/ USBCtrlEPServiceComplete \/ ServeIn \/ ServeOut

Transactions ==
  HostSetup \/ HostIn \/ HostStatusOut \/ HostStatusIn \/ HostStalled

Signalling == SieReset \/ HostRecovered \/ HostTimesOut

Disturbances == Plug \/ Unplug \/ LineIdle \/ LineBusy \/ HostReset

Next == Firmware \/ HostRequest \/ Transactions \/ Signalling \/ Disturbances

Spec == Init /\ [][Next]_vars

(* The main loop runs, and the host goes on with a transfer and a reset    *)
(* that it has begun.                                                      *)
FairSpec ==
  Spec /\ WF_vars(Firmware) /\ WF_vars(Transactions) /\ WF_vars(Signalling)

-----------------------------------------------------------------------------
TypeOK ==
  /\ at \in {"bus", "activity", "reset", "events", "transaction", "complete"}
  /\ usb_device_state \in DeviceStates
  /\ UADDR \in {0, Address} /\ addr \in {0, Address}
  /\ reg \in [Registers -> {0, 1}] /\ cfg \in {0, 1}
  /\ USBEN \in BOOLEAN /\ SUSPND \in BOOLEAN /\ PKTDIS \in BOOLEAN
  /\ UIR \subseteq {"URST", "IDLE", "ACTV", "STALL"}
  /\ UIE \subseteq {"URST", "IDLE", "ACTV", "STALL", "TRN"}
  /\ ctrl_trf_state \in {"WAIT_SETUP", "CTRL_TRF_TX", "CTRL_TRF_RX"}
  /\ SetupPkt \in Requests /\ req \in Requests
  /\ todo \in Seq(Nat) /\ due \in Seq(Nat) /\ got \in Seq(Nat)
  /\ claimed \in BOOLEAN
  /\ ep0Bo \in [own : BOOLEAN, mode : {"setup", "any", "data", "stall"}]
  /\ ep0Bi \in [own : BOOLEAN, stall : BOOLEAN, dts : {0, 1}, data : Seq(Nat)]
  /\ fifo \in Seq({"setup", "in", "out"})
  /\ plugged \in BOOLEAN /\ line \in {"busy", "idle"}
  /\ link \in {"off", "attached", "reset", "recovery", "ready"}
  /\ stage \in {"none", "setup", "data", "status_out", "status_in"}
  /\ toggle \in {0, 1} /\ budget \in 0 .. Budget

(* What the host has got of a transfer is the beginning of what its        *)
(* request is due, and all of it when the data stage is over: over several *)
(* packets, repeated when an acknowledge is lost, with the next one        *)
(* prepared before it is known that the host wants it.                     *)
TransferIntact ==
  /\ stage \in {"data", "status_out"} =>
       /\ Len(got) <= Len(due)
       /\ got = SubSeq(due, 1, Len(got))
  /\ stage = "status_out" => got = due

(* Device and host agree.  A request that writes is obeyed when its SETUP  *)
(* is served, SET_ADDRESS only after its status: as soon as the device has *)
(* served the completed status it has the address, and, unless             *)
(* SET_CONFIGURATION is under way, the configuration that the host takes   *)
(* it to have.  If the acknowledge of that status is lost the device keeps *)
(* the address 0, and hears nothing until the host resets it.              *)
AddressPending ==
  /\ usb_device_state = "ADR_PENDING" /\ SetupPkt.name = "set_adr"
  /\ "in" \in {fifo[i] : i \in 1 .. Len(fifo)} \/ Unacknowledged

HostAgrees ==
  link = "ready" =>
    /\ UADDR = addr \/ (AddressPending /\ UADDR = 0)
    /\ ~(stage # "none" /\ req.of = "cfg") => reg["cfg"] = cfg
    /\ (usb_device_state = "CONFIGURED") <=> (reg["cfg"] # 0)

(* A suspended module gets out of it when the bus is busy again, although  *)
(* ACTVIF comes once, and may come before USBSuspend.                      *)
WakesUp == (SUSPND /\ line = "busy" /\ plugged) ~> (~SUSPND \/ line = "idle" \/ ~plugged)

(* A transfer ends: with its status or a stall, after which the endpoint   *)
(* takes the next SETUP, or, when the acknowledge of the last write was    *)
(* lost, with the host's reset, after which it does too.                   *)
TransferEnds == stage # "none" ~> stage = "none"
=============================================================================
