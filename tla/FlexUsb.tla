------------------------------- MODULE FlexUsb -------------------------------
(***************************************************************************)
(* The life of a connection of the FLEX USB library (flex_usb.c): one      *)
(* application thread calls flex_usb_init, flex_usb_write and              *)
(* flex_usb_close; each successful init creates a reader thread that polls *)
(* the device; other threads block in flex_usb_read.  They share           *)
(* usb_link_mutex, the device handle, the receive buffer and the flags     *)
(* init and stop_reader.  The bytes in the buffer are RxRing's matter: here *)
(* a packet is one unit of rx_held.                                        *)
(***************************************************************************)
EXTENDS Integers, FiniteSets

CONSTANTS
  Threads,     \* the threads pthread_create may return, as reader threads
  Callers,     \* the threads that call flex_usb_read
  MaxHeld,     \* the device sends no packet while so many are held
  CreateFails, \* TRUE: pthread_create may fail to create the reader thread
  Free,        \* usb_link_mutex is not held
  App          \* the application thread, as the holder of usb_link_mutex

ASSUME UsbAssumption ==
  /\ MaxHeld \in Nat \ {0}
  /\ CreateFails \in BOOLEAN
  /\ IsFiniteSet(Callers)
  /\ Free \notin Threads /\ App \notin Threads /\ Free # App

VARIABLES
  init, stop_reader,   \* stat_info
  dev,                 \* what the device handle designates
  rx_buffer,           \* is the receive buffer allocated
  rx_held,             \* packets in it
  link,                \* the holder of usb_link_mutex
  app,                 \* where the application thread is
  reader,              \* [reader thread -> where it is]
  caller,              \* [calling thread -> where it is in flex_usb_read]
  overlap              \* history: usb_link_mutex was last made anew while a
                       \* reader thread of an earlier session ran

vars == <<init, stop_reader, dev, rx_buffer, rx_held, link, app, reader, caller,
          overlap>>

flags   == <<init, stop_reader>>
memory  == <<dev, rx_buffer>>
others  == <<reader, caller>>

AppPlaces == {"idle", "open", "configure", "start", "connect", "write_lock",
              "write", "close_lock", "disconnect", "close", "free", "dead"}
ReaderPlaces == {"none", "check", "lock", "poll", "store", "done", "dead"}
CallerPlaces == {"idle", "reading", "waiting", "lost", "dead"}

Running(t) == reader[t] \in {"check", "lock", "poll", "store"}

Init ==
  /\ init = FALSE /\ stop_reader = FALSE
  /\ dev = "null" /\ rx_buffer = FALSE
  /\ rx_held = 0
  /\ link = Free /\ app = "idle"
  /\ reader = [t \in Threads |-> "none"]
  /\ caller = [c \in Callers |-> "idle"]
  /\ overlap = FALSE

(* A memcpy from or to the NULL buffer ends the process, every thread with *)
(* it.                                                                     *)
Fault ==
  /\ init' = FALSE /\ link' = Free /\ app' = "dead"
  /\ reader' = [t \in Threads |-> "dead"]
  /\ caller' = [c \in Callers |-> "dead"]
  /\ UNCHANGED <<stop_reader, memory, rx_held, overlap>>

-----------------------------------------------------------------------------
(* flex_usb_init clears stop_reader before anything else; when the library *)
(* is initialised that is all it does.                                     *)
InitAgain ==
  /\ app = "idle" /\ init
  /\ stop_reader' = FALSE
  /\ UNCHANGED <<init, memory, rx_held, link, app, others, overlap>>

(* Otherwise it allocates the buffers; rx_first, rx_last and rx_held keep  *)
(* the values the last session left.                                       *)
InitBuffers ==
  /\ app = "idle" /\ ~init
  /\ \E t \in Threads : ~Running(t)
  /\ stop_reader' = FALSE
  /\ \/ rx_buffer' = TRUE /\ app' = "open"
     \/ rx_buffer' \in BOOLEAN /\ app' = "idle"   \* no memory for one of them: -5
  /\ UNCHANGED <<init, dev, rx_held, link, others, overlap>>

(* open_device: the FLEX device on the bus, or none: -1. *)
InitOpen ==
  /\ app = "open"
  /\ \/ dev' = "open" /\ app' = "configure"
     \/ dev' = "null" /\ app' = "idle"
  /\ UNCHANGED <<flags, rx_buffer, rx_held, link, others, overlap>>

(* Detaching the kernel driver, setting the configuration or claiming the  *)
(* interface may fail: the device is closed (-1, -2), or even that fails.  *)
InitConfigure ==
  /\ app = "configure"
  /\ \/ app' = "start" /\ UNCHANGED dev
     \/ app' = "idle" /\ dev' \in {"closed", "open"}
  /\ UNCHANGED <<flags, rx_buffer, rx_held, link, others, overlap>>

(* The mutexes and the condition are initialised anew, whoever holds or    *)
(* waits for them: a waiting thread may never hear of a signal again.      *)
NewMutexes ==
  /\ link' = Free
  /\ overlap' = \E t \in Threads : Running(t)
  /\ \E forgotten \in SUBSET {c \in Callers : caller[c] = "waiting"} :
       caller' = [c \in Callers |-> IF c \in forgotten THEN "lost" ELSE caller[c]]

(* Then a reader thread is created.  pthread_create reports a failure by a *)
(* positive number, and the code tests for a negative one: it goes on.     *)
InitStart(t) ==
  /\ app = "start" /\ ~Running(t)
  /\ NewMutexes
  /\ reader' = [reader EXCEPT ![t] = "check"]
  /\ app' = "connect"
  /\ UNCHANGED <<flags, memory, rx_held>>

InitNoThread ==
  /\ app = "start" /\ CreateFails
  /\ NewMutexes
  /\ app' = "connect"
  /\ UNCHANGED <<flags, memory, rx_held, reader>>

(* CONNECT is sent without usb_link_mutex; its failure is ignored. *)
InitConnect ==
  /\ app = "connect"
  /\ init' = TRUE
  /\ app' = "idle"
  /\ UNCHANGED <<stop_reader, memory, rx_held, link, others, overlap>>

(* flex_usb_write: a bulk write with usb_link_mutex held. *)
WriteCall ==
  /\ app = "idle" /\ init
  /\ app' = "write_lock"
  /\ UNCHANGED <<flags, memory, rx_held, link, others, overlap>>

WriteLock ==
  /\ app = "write_lock" /\ link = Free
  /\ link' = App
  /\ app' = "write"
  /\ UNCHANGED <<flags, memory, rx_held, others, overlap>>

WriteDone ==
  /\ app = "write"
  /\ link' = Free
  /\ app' = "idle"
  /\ UNCHANGED <<flags, memory, rx_held, others, overlap>>

(* flex_usb_close does nothing unless init is set; ... *)
CloseCall ==
  /\ app = "idle" /\ init
  /\ app' = "close_lock"
  /\ UNCHANGED <<flags, memory, rx_held, link, others, overlap>>

(* ... it takes usb_link_mutex, raises stop_reader, ... *)
CloseLock ==
  /\ app = "close_lock" /\ link = Free
  /\ link' = App
  /\ stop_reader' = TRUE
  /\ app' = "disconnect"
  /\ UNCHANGED <<init, memory, rx_held, others, overlap>>

(* ... sends DISCONNECT, drains a packet, releases the mutex, ... *)
CloseDisconnect ==
  /\ app = "disconnect"
  /\ link' = Free
  /\ app' = "close"
  /\ UNCHANGED <<flags, memory, rx_held, others, overlap>>

(* ... closes the device (when that fails it returns -11 with init and the *)
(* buffers as they are), ...                                               *)
CloseDevice ==
  /\ app = "close"
  /\ \/ dev' = "closed" /\ app' = "free"
     \/ app' = "idle" /\ UNCHANGED dev
  /\ UNCHANGED <<flags, rx_buffer, rx_held, link, others, overlap>>

(* ... and frees the buffers, without rx_mutex. *)
CloseFree_initialised ==                                             \* mutant
  /\ app = "free"
  /\ rx_buffer' = FALSE /\ app' = "idle"
  /\ UNCHANGED <<flags, dev, rx_held, link, others, overlap>>

CloseFree ==
  /\ app = "free"
  /\ rx_buffer' = FALSE
  /\ init' = FALSE
  /\ app' = "idle"
  /\ UNCHANGED <<stop_reader, dev, rx_held, link, others, overlap>>

-----------------------------------------------------------------------------
(* The loop of reader_thread: test stop_reader, ... *)
ReaderCheck_never(t) ==                                              \* mutant
  /\ reader[t] = "check"
  /\ reader' = [reader EXCEPT ![t] = "lock"]
  /\ UNCHANGED <<flags, memory, rx_held, link, app, caller, overlap>>

ReaderCheck(t) ==
  /\ reader[t] = "check"
  /\ reader' = [reader EXCEPT ![t] = IF stop_reader THEN "done" ELSE "lock"]
  /\ UNCHANGED <<flags, memory, rx_held, link, app, caller, overlap>>

(* ... take usb_link_mutex, ... *)
ReaderLock_unlocked(t) ==                                            \* mutant
  /\ reader[t] = "lock"
  /\ reader' = [reader EXCEPT ![t] = "poll"]
  /\ UNCHANGED <<flags, memory, rx_held, link, app, caller, overlap>>

ReaderLock(t) ==
  /\ reader[t] = "lock" /\ link = Free
  /\ link' = t
  /\ reader' = [reader EXCEPT ![t] = "poll"]
  /\ UNCHANGED <<flags, memory, rx_held, app, caller, overlap>>

(* ... hold it for a bulk read of up to a second, which brings a packet    *)
(* (from an open device) or an error, ...                                  *)
ReaderPoll(t) ==
  /\ reader[t] = "poll"
  /\ link' = Free
  /\ \/ reader' = [reader EXCEPT ![t] = "check"]
     \/ /\ dev = "open" /\ rx_held < MaxHeld
        /\ reader' = [reader EXCEPT ![t] = "store"]
  /\ UNCHANGED <<flags, memory, rx_held, app, caller, overlap>>

(* pthread_cond_signal on rx_condition: one waiting thread runs again. *)
Signal_none == UNCHANGED caller                                      \* mutant

Signal ==
  IF \A c \in Callers : caller[c] # "waiting" THEN UNCHANGED caller
  ELSE \E c \in Callers : /\ caller[c] = "waiting"
                          /\ caller' = [caller EXCEPT ![c] = "reading"]

(* ... and write_rx_buffer_shift. *)
ReaderStore(t) ==
  /\ reader[t] = "store" /\ rx_buffer
  /\ rx_held' = rx_held + 1
  /\ Signal
  /\ reader' = [reader EXCEPT ![t] = "check"]
  /\ UNCHANGED <<flags, memory, link, app, overlap>>

ReaderFault(t) == reader[t] = "store" /\ ~rx_buffer /\ Fault

-----------------------------------------------------------------------------
(* flex_usb_read with FLEX_USB_READ_BLOCK, of as many bytes as a packet    *)
(* brings.  It does not look at init.                                      *)
ReadCall(c) ==
  /\ caller[c] = "idle"
  /\ caller' = [caller EXCEPT ![c] = "reading"]
  /\ UNCHANGED <<flags, memory, rx_held, link, app, reader, overlap>>

ReadWait(c) ==
  /\ caller[c] = "reading" /\ rx_held = 0
  /\ caller' = [caller EXCEPT ![c] = "waiting"]
  /\ UNCHANGED <<flags, memory, rx_held, link, app, reader, overlap>>

ReadTake(c) ==
  /\ caller[c] = "reading" /\ rx_held > 0 /\ rx_buffer
  /\ caller' = [caller EXCEPT ![c] = "idle"]
  /\ rx_held' = rx_held - 1
  /\ UNCHANGED <<flags, memory, link, app, reader, overlap>>

ReadFault(c) == caller[c] = "reading" /\ rx_held > 0 /\ ~rx_buffer /\ Fault

(* pthread_cond_wait may return without a signal; the loop tests again. *)
SpuriousWakeup(c) ==
  /\ caller[c] = "waiting"
  /\ caller' = [caller EXCEPT ![c] = "reading"]
  /\ UNCHANGED <<flags, memory, rx_held, link, app, reader, overlap>>

AppNext ==
  \/ InitAgain \/ InitBuffers \/ InitOpen \/ InitConfigure
  \/ (\E t \in Threads : InitStart(t)) \/ InitNoThread \/ InitConnect
  \/ WriteCall \/ WriteLock \/ WriteDone
  \/ CloseCall \/ CloseLock \/ CloseDisconnect \/ CloseDevice \/ CloseFree

ReaderNext(t) ==
  \/ ReaderCheck(t) \/ ReaderLock(t) \/ ReaderPoll(t)
  \/ ReaderStore(t) \/ ReaderFault(t)

ReadNext(c) == ReadWait(c) \/ ReadTake(c) \/ ReadFault(c)

(* The callers are threads that start to read during a session. *)
CallerNext(c) == (init /\ ReadCall(c)) \/ ReadNext(c) \/ SpuriousWakeup(c)

Dead == app = "dead" /\ UNCHANGED vars

Next ==
  \/ AppNext
  \/ \E t \in Threads : ReaderNext(t)
  \/ \E c \in Callers : CallerNext(c)
  \/ Dead

Spec == Init /\ [][Next]_vars

(* The library itself lets flex_usb_read be called at any time; flex_bus.c *)
(* makes use of that (FlexBus).                                            *)
LibraryNext ==
  \/ AppNext
  \/ \E t \in Threads : ReaderNext(t)
  \/ \E c \in Callers : ReadCall(c) \/ ReadNext(c) \/ SpuriousWakeup(c)
  \/ Dead

LibrarySpec == Init /\ [][LibraryNext]_vars

(* A reader thread that can run does; the bulk read has a timeout.  The    *)
(* application and the callers need not do anything.                       *)
FairSpec == Spec /\ \A t \in Threads : WF_vars(ReaderNext(t))

-----------------------------------------------------------------------------
TypeOK ==
  /\ init \in BOOLEAN /\ stop_reader \in BOOLEAN
  /\ dev \in {"null", "open", "closed"} /\ rx_buffer \in BOOLEAN
  /\ rx_held \in Nat
  /\ link \in Threads \cup {Free, App}
  /\ app \in AppPlaces
  /\ reader \in [Threads -> ReaderPlaces]
  /\ caller \in [Callers -> CallerPlaces]
  /\ overlap \in BOOLEAN

(* No two threads of the process transfer on the device at once, apart     *)
(* from the CONNECT of flex_usb_init: a transfer is made by the thread that *)
(* holds usb_link_mutex, unless flex_usb_init made that mutex anew beside  *)
(* a reader thread of an earlier session, which nothing ends before.  The  *)
(* release and the close of the device are no transfers: the code holds no  *)
(* mutex for them, and they may come in the middle of one.                 *)
LinkExclusion ==
  ~overlap =>
    /\ \A t \in Threads : reader[t] = "poll" <=> link = t
    /\ app \in {"write", "disconnect"} <=> link = App

(* To an application that sees init set and has no call under way, the     *)
(* device is open and the buffer is there, whatever failed before.         *)
SessionIntact == init /\ app # "free" => dev = "open" /\ rx_buffer

(* A thread waits in flex_usb_read only while every packet held has a      *)
(* thread of its own that is awake to take it: a signal for each packet    *)
(* stored is enough, however the threads interleave.                       *)
NoStrandedCaller ==
  (\E c \in Callers : caller[c] = "waiting") =>
    rx_held <= Cardinality({c \in Callers : caller[c] = "reading"})

(* After a flex_usb_close that succeeded the reader threads end, old ones  *)
(* too, or the next flex_usb_init takes the order to stop back.            *)
CloseEndsReaders ==
  (stop_reader /\ ~init) ~>
    ((\A t \in Threads : ~Running(t)) \/ ~stop_reader)

(* "Stop the stop_reader thread (terminates)" (flex_usb.c, in              *)
(* flex_usb_close): once close has freed the buffer no reader thread       *)
(* stores into it.                                                         *)
StoreHasBuffer == \A t \in Threads : reader[t] = "store" => rx_buffer
=============================================================================
