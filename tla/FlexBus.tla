------------------------------- MODULE FlexBus -------------------------------
(***************************************************************************)
(* The FLEX bus library (flex_bus.c) over the FLEX USB library: one        *)
(* application thread calls flex_bus_init, flex_bus_write and              *)
(* flex_bus_close, which call flex_usb_init, flex_usb_write and            *)
(* flex_usb_close; each successful flex_bus_init creates a bus thread, the *)
(* caller of flex_usb_read, which hands every packet to queue_insert.  The *)
(* channel queues themselves are BusQueue's matter.                        *)
(***************************************************************************)
EXTENDS FlexUsb

VARIABLES
  bus_init, stop_usb_reader,   \* stat_info of flex_bus.c
  bus_app,                     \* where the application is in flex_bus.c
  bus,                         \* [bus thread -> where it is in its loop]
  unseen                       \* history: the failures of this session of the
                               \* bus that the code has not noticed

busVars == <<bus_init, stop_usb_reader, bus_app, bus, unseen>>
allVars == <<vars, busVars>>

BusAppPlaces == {"idle", "usb_init", "create", "usb_close"}
BusPlaces == {"none", "check", "read", "insert", "done"}

BusRunning(c) == bus[c] \in {"check", "read", "insert"}

BusStart ==
  /\ Init
  /\ bus_init = FALSE /\ stop_usb_reader = FALSE
  /\ bus_app = "idle"
  /\ bus = [c \in Callers |-> "none"]
  /\ unseen = {}

-----------------------------------------------------------------------------
(* flex_bus_init makes the channel queues and calls flex_usb_init; ...     *)
BusInit ==
  /\ bus_app = "idle" /\ app = "idle" /\ ~bus_init
  /\ \E c \in Callers : ~BusRunning(c)
  /\ InitAgain \/ InitBuffers
  /\ bus_app' = "usb_init"
  /\ UNCHANGED <<bus_init, stop_usb_reader, bus, unseen>>

(* ... when that has failed it returns the error, ... *)
BusInitReturn_unchecked ==                                           \* mutant
  /\ bus_app = "usb_init" /\ app = "idle"
  /\ bus_app' = "create"
  /\ UNCHANGED <<vars, bus_init, stop_usb_reader, bus, unseen>>

BusInitReturn ==
  /\ bus_app = "usb_init" /\ app = "idle"
  /\ bus_app' = IF init THEN "create" ELSE "idle"
  /\ UNCHANGED <<vars, bus_init, stop_usb_reader, bus, unseen>>

(* ... otherwise it clears stop_usb_reader and creates a bus thread. *)
BusCreate_stopped(c) ==                                              \* mutant
  /\ bus_app = "create" /\ ~BusRunning(c)
  /\ bus' = [bus EXCEPT ![c] = "check"]
  /\ bus_init' = TRUE /\ bus_app' = "idle"
  /\ UNCHANGED <<vars, stop_usb_reader, unseen>>

BusCreate(c) ==
  /\ bus_app = "create" /\ ~BusRunning(c)
  /\ stop_usb_reader' = FALSE
  /\ bus' = [bus EXCEPT ![c] = "check"]
  /\ bus_init' = TRUE /\ bus_app' = "idle"
  /\ UNCHANGED <<vars, unseen>>

(* A pthread_create that fails goes unseen here too. *)
BusNoThread ==
  /\ bus_app = "create" /\ CreateFails
  /\ stop_usb_reader' = FALSE
  /\ bus_init' = TRUE /\ bus_app' = "idle"
  /\ unseen' = {"thread"}
  /\ UNCHANGED <<vars, bus>>

(* flex_bus_write is flex_usb_write. *)
BusWrite == bus_app = "idle" /\ WriteCall /\ UNCHANGED busVars

(* flex_bus_close raises stop_usb_reader once flex_usb_close has returned  *)
(* without an error: it returns 1 if it had nothing to close.              *)
Stopped ==
  /\ stop_usb_reader' = TRUE
  /\ bus_init' = FALSE /\ unseen' = {}
  /\ bus_app' = "idle"

BusClose ==
  /\ bus_app = "idle" /\ app = "idle" /\ bus_init
  /\ \/ /\ init /\ CloseCall
        /\ bus_app' = "usb_close"
        /\ UNCHANGED <<bus_init, stop_usb_reader, bus, unseen>>
     \/ ~init /\ Stopped /\ UNCHANGED <<vars, bus>>

(* flex_usb_close returns what its second usb_claim_interface returned,    *)
(* which may be an error although the session is closed; when the device   *)
(* does not close, the error is that and the session goes on.              *)
BusCloseReturn ==
  /\ bus_app = "usb_close" /\ app = "idle"
  /\ \/ ~init /\ Stopped
     \/ /\ bus_app' = "idle"
        /\ unseen' = IF init THEN unseen ELSE unseen \cup {"claim"}
        /\ UNCHANGED <<bus_init, stop_usb_reader>>
  /\ UNCHANGED <<vars, bus>>

-----------------------------------------------------------------------------
(* The loop of usb_reader_thread: test stop_usb_reader, block in           *)
(* flex_usb_read (session or not), insert the message in its queue.        *)
BusCheck(c) ==
  /\ bus[c] = "check"
  /\ \/ /\ ~stop_usb_reader /\ ReadCall(c)
        /\ bus' = [bus EXCEPT ![c] = "read"]
     \/ /\ stop_usb_reader /\ UNCHANGED vars
        /\ bus' = [bus EXCEPT ![c] = "done"]
  /\ UNCHANGED <<bus_init, stop_usb_reader, bus_app, unseen>>

BusRead(c) ==
  /\ bus[c] = "read"
  /\ \/ (ReadWait(c) \/ ReadFault(c)) /\ UNCHANGED bus
     \/ ReadTake(c) /\ bus' = [bus EXCEPT ![c] = "insert"]
  /\ UNCHANGED <<bus_init, stop_usb_reader, bus_app, unseen>>

BusInsert(c) ==
  /\ bus[c] = "insert" /\ app # "dead"
  /\ bus' = [bus EXCEPT ![c] = "check"]
  /\ UNCHANGED <<vars, bus_init, stop_usb_reader, bus_app, unseen>>

-----------------------------------------------------------------------------
(* What goes on inside flex_usb.c. *)
UsbCalled ==
  \/ InitOpen \/ InitConfigure \/ (\E t \in Threads : InitStart(t))
  \/ InitNoThread \/ InitConnect \/ WriteLock \/ WriteDone
  \/ CloseLock \/ CloseDisconnect \/ CloseDevice \/ CloseFree

BusAppNext ==
  \/ BusInit \/ BusInitReturn \/ (\E c \in Callers : BusCreate(c)) \/ BusNoThread
  \/ BusWrite \/ BusClose \/ BusCloseReturn
  \/ UsbCalled /\ UNCHANGED busVars

BusThreadNext(c) == BusCheck(c) \/ BusRead(c) \/ BusInsert(c)

BusNext ==
  \/ BusAppNext
  \/ \E t \in Threads : ReaderNext(t) /\ UNCHANGED busVars
  \/ \E c \in Callers : BusThreadNext(c) \/ (SpuriousWakeup(c) /\ UNCHANGED busVars)
  \/ Dead /\ UNCHANGED busVars

BusSpec == BusStart /\ [][BusNext]_allVars

(* The threads of the two libraries run whenever they can; the application *)
(* need not do anything.                                                   *)
FairBusSpec ==
  /\ BusSpec
  /\ \A t \in Threads : WF_allVars(ReaderNext(t) /\ UNCHANGED busVars)
  /\ \A c \in Callers : WF_allVars(BusThreadNext(c))

-----------------------------------------------------------------------------
BusTypeOK ==
  /\ TypeOK
  /\ bus_init \in BOOLEAN /\ stop_usb_reader \in BOOLEAN
  /\ bus_app \in BusAppPlaces
  /\ bus \in [Callers -> BusPlaces]
  /\ unseen \subseteq {"thread", "claim"}

(* While the bus is initialised a bus thread runs that no close of an      *)
(* earlier session will end; only a pthread_create that failed unseen      *)
(* leaves it without.                                                      *)
BusHasReader ==
  bus_init /\ "thread" \notin unseen => \E c \in Callers : BusRunning(c)

(* Between calls, an initialised bus has a USB session under it, whatever  *)
(* call of the two libraries has failed; only a flex_usb_close that        *)
(* reported an error for a session it had closed leaves it without.        *)
BusOverUsb ==
  bus_init /\ bus_app = "idle" /\ app # "dead" /\ "claim" \notin unseen => init

(* A packet held in the ring while the bus is initialised and has a thread *)
(* that hears of signals makes some bus thread insert a message, through   *)
(* all the signals and old threads.                                        *)
BusDelivers ==
  (/\ bus_init /\ rx_held > 0
   /\ \E c \in Callers : BusRunning(c) /\ caller[c] # "lost") ~>
    (~bus_init \/ app = "dead" \/ \E c \in Callers : bus[c] = "insert")
=============================================================================
