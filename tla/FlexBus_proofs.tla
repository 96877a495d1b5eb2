---------------------------- MODULE FlexBus_proofs ----------------------------
(***************************************************************************)
(* Proofs about the life of a connection (FlexUsb), for any number of      *)
(* threads and callers and any bound on the packets held, and about the    *)
(* FLEX bus over it (FlexBus): what FlexUsb promises carries over, and the *)
(* two libraries agree on their sessions.                                  *)
(***************************************************************************)
EXTENDS FlexBus, FiniteSetTheorems, TLAPS

USE DEF flags, memory, others

(* Threads that read during sessions only are threads of the library.      *)
LEMMA SpecIsLibrary == Spec => LibrarySpec
<1>1. [Next]_vars => [LibraryNext]_vars
  BY DEF Next, LibraryNext, CallerNext
<1> QED
  BY <1>1, PTL DEF Spec, LibrarySpec

(* Every variable of FlexUsb keeps its type, whoever calls flex_usb_read   *)
(* and when.                                                               *)
LEMMA LibraryTyping == LibrarySpec => []TypeOK
<1> USE DEF TypeOK, AppPlaces, ReaderPlaces, CallerPlaces
<1>1. Init => TypeOK
  <2> SUFFICES ASSUME Init PROVE TypeOK
    OBVIOUS
  <2>1. rx_held \in Nat
    BY DEF Init
  <2> QED
    BY <2>1 DEF Init
<1>2. TypeOK /\ [LibraryNext]_vars => TypeOK'
  <2> SUFFICES ASSUME TypeOK, [LibraryNext]_vars PROVE TypeOK'
    OBVIOUS
  <2>1. CASE AppNext
    <3>1. CASE (\E t \in Threads : InitStart(t)) \/ InitNoThread
      BY <3>1 DEF InitStart, InitNoThread, NewMutexes
    <3>2. CASE InitAgain \/ InitBuffers \/ InitOpen \/ InitConfigure \/ InitConnect
      BY <3>2 DEF InitAgain, InitBuffers, InitOpen, InitConfigure, InitConnect
    <3>3. CASE WriteCall \/ WriteLock \/ WriteDone
      BY <3>3 DEF WriteCall, WriteLock, WriteDone
    <3>4. CASE CloseCall \/ CloseLock \/ CloseDisconnect \/ CloseDevice \/ CloseFree
      BY <3>4 DEF CloseCall, CloseLock, CloseDisconnect, CloseDevice, CloseFree
    <3> QED
      BY <2>1, <3>1, <3>2, <3>3, <3>4 DEF AppNext
  <2>2. ASSUME NEW t \in Threads, ReaderNext(t) PROVE TypeOK'
    <3>1. CASE ReaderStore(t)
      BY <3>1 DEF ReaderStore, Signal
    <3>2. CASE ReaderCheck(t) \/ ReaderLock(t) \/ ReaderPoll(t)
      BY <3>2 DEF ReaderCheck, ReaderLock, ReaderPoll
    <3>3. CASE ReaderFault(t)
      BY <3>3 DEF ReaderFault, Fault
    <3> QED
      BY <2>2, <3>1, <3>2, <3>3 DEF ReaderNext
  <2>3. ASSUME NEW c \in Callers, ReadCall(c) \/ ReadNext(c) \/ SpuriousWakeup(c)
        PROVE  TypeOK'
    <3>1. CASE ReadFault(c)
      BY <3>1 DEF ReadFault, Fault
    <3>2. CASE ReadCall(c) \/ ReadWait(c) \/ ReadTake(c) \/ SpuriousWakeup(c)
      BY <3>2 DEF ReadCall, ReadWait, ReadTake, SpuriousWakeup
    <3> QED
      BY <2>3, <3>1, <3>2 DEF ReadNext
  <2>4. CASE Dead \/ UNCHANGED vars
    BY <2>4 DEF Dead, vars
  <2> QED
    BY <2>1, <2>2, <2>3, <2>4 DEF LibraryNext
<1> QED
  BY <1>1, <1>2, PTL DEF LibrarySpec

(* Every variable of FlexUsb keeps its type.                               *)
THEOREM Typing == Spec => []TypeOK
BY SpecIsLibrary, LibraryTyping, PTL

-----------------------------------------------------------------------------
(* Where the application is in the library tells whether init is set.      *)
AppInit ==
  /\ app \in {"open", "configure", "start", "connect"} => ~init
  /\ app \in {"write_lock", "write", "close_lock", "disconnect", "close", "free"} => init

(* What flex_usb_init has obtained so far, and what a session has.         *)
Obtained ==
  /\ app \in {"open", "configure", "start", "connect"} => rx_buffer
  /\ app \in {"configure", "start", "connect"} => dev = "open"
  /\ SessionIntact

(* Whatever calls of the library fail, a session that the application sees *)
(* has an open device and a buffer.                                        *)
LEMMA LibrarySessions == LibrarySpec => []SessionIntact
<1> USE DEF AppInit, Obtained, SessionIntact
<1>1. Init => AppInit /\ Obtained
  BY DEF Init
<1>2. TypeOK /\ AppInit /\ Obtained /\ [LibraryNext]_vars => (AppInit /\ Obtained)'
  <2> SUFFICES ASSUME TypeOK, AppInit, Obtained, [LibraryNext]_vars
               PROVE (AppInit /\ Obtained)'
    OBVIOUS
  <2>1. CASE AppNext
    <3>1. CASE InitAgain \/ InitBuffers \/ InitOpen \/ InitConfigure \/ InitConnect
      BY <3>1 DEF InitAgain, InitBuffers, InitOpen, InitConfigure, InitConnect
    <3>2. CASE (\E t \in Threads : InitStart(t)) \/ InitNoThread
      BY <3>2 DEF InitStart, InitNoThread
    <3>3. CASE WriteCall \/ WriteLock \/ WriteDone
      BY <3>3 DEF WriteCall, WriteLock, WriteDone
    <3>4. CASE CloseCall \/ CloseLock \/ CloseDisconnect \/ CloseDevice \/ CloseFree
      BY <3>4 DEF CloseCall, CloseLock, CloseDisconnect, CloseDevice, CloseFree
    <3> QED
      BY <2>1, <3>1, <3>2, <3>3, <3>4 DEF AppNext
  <2>2. ASSUME NEW t \in Threads, ReaderNext(t) PROVE (AppInit /\ Obtained)'
    BY <2>2 DEF ReaderNext, ReaderCheck, ReaderLock, ReaderPoll, ReaderStore, ReaderFault, Fault
  <2>3. ASSUME NEW c \in Callers, ReadCall(c) \/ ReadNext(c) \/ SpuriousWakeup(c)
        PROVE  (AppInit /\ Obtained)'
    BY <2>3 DEF ReadNext, ReadCall, ReadWait, ReadTake, ReadFault, SpuriousWakeup, Fault
  <2>4. CASE Dead \/ UNCHANGED vars
    BY <2>4 DEF Dead, vars
  <2> QED
    BY <2>1, <2>2, <2>3, <2>4 DEF LibraryNext
<1>3. AppInit /\ Obtained => SessionIntact
  OBVIOUS
<1> QED
  BY <1>1, <1>2, <1>3, LibraryTyping, PTL DEF LibrarySpec

(* Whatever calls of the library fail, a session that the application sees *)
(* has an open device and a buffer.                                        *)
THEOREM Sessions == Spec => []SessionIntact
BY SpecIsLibrary, LibrarySessions, PTL

-----------------------------------------------------------------------------
(* Outside a session whose flex_usb_init met a reader thread of an earlier *)
(* one, each transfer is made by the holder of usb_link_mutex, although    *)
(* flex_usb_init makes the mutex anew and never waits for that thread.     *)
LEMMA LibraryExclusion == LibrarySpec => []LinkExclusion
<1> USE DEF LinkExclusion, TypeOK
<1>1. Init => LinkExclusion
  BY UsbAssumption DEF Init
<1>2. TypeOK /\ LinkExclusion /\ [LibraryNext]_vars => LinkExclusion'
  <2> SUFFICES ASSUME TypeOK, LinkExclusion, [LibraryNext]_vars, ~overlap'
               PROVE  /\ \A t \in Threads : (reader[t] = "poll" <=> link = t)'
                      /\ (app \in {"write", "disconnect"} <=> link = App)'
    OBVIOUS
  <2>1. CASE AppNext
    <3>1. CASE InitAgain \/ InitBuffers \/ InitOpen \/ InitConfigure \/ InitConnect
      BY <3>1 DEF InitAgain, InitBuffers, InitOpen, InitConfigure, InitConnect
    <3>2. ASSUME InitNoThread \/ \E t \in Threads : InitStart(t)
          PROVE  /\ link' = Free /\ app' = "connect"
                 /\ \A s \in Threads : reader'[s] # "poll"
      BY <3>2 DEF InitStart, InitNoThread, NewMutexes, Running
    <3>3. CASE WriteCall \/ WriteLock \/ WriteDone
      BY <3>3, UsbAssumption DEF WriteCall, WriteLock, WriteDone
    <3>4. CASE CloseCall \/ CloseLock \/ CloseDisconnect \/ CloseDevice \/ CloseFree
      BY <3>4, UsbAssumption
      DEF CloseCall, CloseLock, CloseDisconnect, CloseDevice, CloseFree
    <3> QED
      BY <2>1, <3>1, <3>2, <3>3, <3>4, UsbAssumption DEF AppNext
  <2>2. ASSUME NEW t \in Threads, ReaderNext(t)
        PROVE  /\ \A s \in Threads : (reader[s] = "poll" <=> link = s)'
               /\ (app \in {"write", "disconnect"} <=> link = App)'
    <3>1. CASE ReaderFault(t)
      BY <3>1, UsbAssumption DEF ReaderFault, Fault
    <3>2. CASE ReaderCheck(t) \/ ReaderLock(t) \/ ReaderPoll(t) \/ ReaderStore(t)
      BY <3>2, UsbAssumption DEF ReaderCheck, ReaderLock, ReaderPoll, ReaderStore
    <3> QED
      BY <2>2, <3>1, <3>2 DEF ReaderNext
  <2>3. ASSUME NEW c \in Callers, ReadCall(c) \/ ReadNext(c) \/ SpuriousWakeup(c)
        PROVE  /\ \A t \in Threads : (reader[t] = "poll" <=> link = t)'
               /\ (app \in {"write", "disconnect"} <=> link = App)'
    BY <2>3, UsbAssumption
    DEF ReadNext, ReadCall, ReadWait, ReadTake, ReadFault, SpuriousWakeup, Fault
  <2>4. CASE Dead \/ UNCHANGED vars
    BY <2>4 DEF Dead, vars
  <2> QED
    BY <2>1, <2>2, <2>3, <2>4 DEF LibraryNext
<1> QED
  BY <1>1, <1>2, LibraryTyping, PTL DEF LibrarySpec

(* The reader thread, a write and the DISCONNECT of a close never transfer *)
(* on the device at once, unless flex_usb_init was called beside a reader  *)
(* thread of an earlier session.                                           *)
THEOREM DeviceShared == Spec => []LinkExclusion
BY SpecIsLibrary, LibraryExclusion, PTL

-----------------------------------------------------------------------------
Reading == {c \in Callers : caller[c] = "reading"}

(* The callers awake in flex_usb_read are finitely many; one that starts   *)
(* or stops reading changes their number by one.                           *)
LEMMA ReadingCount ==
  ASSUME TypeOK, NEW c \in Callers, NEW p \in CallerPlaces,
         caller' = [caller EXCEPT ![c] = p]
  PROVE  /\ Cardinality(Reading) \in Nat /\ Cardinality(Reading') \in Nat
         /\ caller[c] # "reading" /\ p = "reading" =>
              Cardinality(Reading') = Cardinality(Reading) + 1
         /\ caller[c] = "reading" /\ p # "reading" =>
              Cardinality(Reading') = Cardinality(Reading) - 1
<1>1. IsFiniteSet(Reading) /\ IsFiniteSet(Reading')
  BY UsbAssumption, FS_Subset DEF Reading
<1>2. Cardinality(Reading) \in Nat /\ Cardinality(Reading') \in Nat
  BY <1>1, FS_CardinalityType
<1>3. ASSUME caller[c] # "reading", p = "reading"
      PROVE  Cardinality(Reading') = Cardinality(Reading) + 1
  <2>1. Reading' = Reading \cup {c} /\ c \notin Reading
    BY <1>3 DEF Reading, TypeOK
  <2> QED
    BY <2>1, <1>1, FS_AddElement
<1>4. ASSUME caller[c] = "reading", p # "reading"
      PROVE  Cardinality(Reading') = Cardinality(Reading) - 1
  <2>1. Reading' = Reading \ {c} /\ c \in Reading
    BY <1>4 DEF Reading, TypeOK
  <2> QED
    BY <2>1, <1>1, FS_RemoveElement
<1> QED
  BY <1>2, <1>3, <1>4

(* A signal for each packet stored is enough: no thread is left waiting in *)
(* flex_usb_read beside a packet that nobody is awake to take.             *)
LEMMA LibraryCallersServed == LibrarySpec => []NoStrandedCaller
<1> USE DEF NoStrandedCaller
<1>1. Init => NoStrandedCaller
  BY DEF Init
<1>2. TypeOK /\ NoStrandedCaller /\ [LibraryNext]_vars => NoStrandedCaller'
  <2> SUFFICES ASSUME TypeOK, NoStrandedCaller, [LibraryNext]_vars,
                      NEW w \in Callers, caller'[w] = "waiting"
               PROVE  rx_held' <= Cardinality(Reading')
    BY DEF Reading
  <2> USE DEF TypeOK
  <2>1. CASE caller' = caller /\ rx_held' = rx_held
    <3>1. Reading' = Reading
      BY <2>1 DEF Reading
    <3> QED
      BY <2>1, <3>1 DEF Reading
  <2>2. CASE AppNext
    <3>1. ASSUME InitNoThread \/ \E t \in Threads : InitStart(t)
          PROVE  Reading' = Reading /\ caller[w] = "waiting" /\ rx_held' = rx_held
      BY <3>1 DEF InitStart, InitNoThread, NewMutexes, Reading
    <3>2. CASE InitAgain \/ InitBuffers \/ InitOpen \/ InitConfigure \/ InitConnect
      BY <3>2, <2>1, <2>2 DEF InitAgain, InitBuffers, InitOpen, InitConfigure, InitConnect
    <3>3. CASE WriteCall \/ WriteLock \/ WriteDone
      BY <3>3, <2>1, <2>2 DEF WriteCall, WriteLock, WriteDone
    <3>4. CASE CloseCall \/ CloseLock \/ CloseDisconnect \/ CloseDevice \/ CloseFree
      BY <3>4, <2>1, <2>2
      DEF CloseCall, CloseLock, CloseDisconnect, CloseDevice, CloseFree
    <3> QED
      BY <2>2, <3>1, <3>2, <3>3, <3>4 DEF AppNext, Reading
  <2>3. ASSUME NEW t \in Threads, ReaderNext(t)
        PROVE  rx_held' <= Cardinality(Reading')
    <3>1. CASE ReaderStore(t)
      <4>1. PICK c \in Callers : /\ caller[c] = "waiting"
                                 /\ caller' = [caller EXCEPT ![c] = "reading"]
        BY <3>1 DEF ReaderStore, Signal
      <4>2. rx_held <= Cardinality(Reading)
        BY <2>3, <4>1 DEF Reading
      <4>3. /\ Cardinality(Reading) \in Nat /\ Cardinality(Reading') \in Nat
            /\ Cardinality(Reading') = Cardinality(Reading) + 1
        BY <4>1, ReadingCount DEF CallerPlaces
      <4> QED
        BY <3>1, <4>2, <4>3 DEF ReaderStore
    <3>2. CASE ReaderCheck(t) \/ ReaderLock(t) \/ ReaderPoll(t)
      BY <3>2, <2>1 DEF ReaderCheck, ReaderLock, ReaderPoll
    <3>3. CASE ReaderFault(t)
      BY <3>3 DEF ReaderFault, Fault
    <3> QED
      BY <2>3, <3>1, <3>2, <3>3 DEF ReaderNext
  <2>4. ASSUME NEW c \in Callers, ReadCall(c) \/ ReadNext(c) \/ SpuriousWakeup(c)
        PROVE  rx_held' <= Cardinality(Reading')
    <3>1. CASE ReadCall(c) \/ SpuriousWakeup(c)
      <4>1. caller[w] = "waiting"
        BY <3>1 DEF ReadCall, SpuriousWakeup
      <4>2. /\ Cardinality(Reading) \in Nat /\ Cardinality(Reading') \in Nat
            /\ Cardinality(Reading') = Cardinality(Reading) + 1
        BY <3>1, ReadingCount DEF ReadCall, SpuriousWakeup, CallerPlaces
      <4> QED
        BY <3>1, <2>4, <4>1, <4>2 DEF ReadCall, SpuriousWakeup, Reading
    <3>2. CASE ReadWait(c)
      <4>1. Cardinality(Reading') \in Nat
        BY <3>2, ReadingCount DEF ReadWait, CallerPlaces
      <4> QED
        BY <3>2, <4>1 DEF ReadWait
    <3>3. CASE ReadTake(c)
      <4>1. caller[w] = "waiting"
        BY <3>3 DEF ReadTake
      <4>2. /\ Cardinality(Reading) \in Nat /\ Cardinality(Reading') \in Nat
            /\ Cardinality(Reading') = Cardinality(Reading) - 1
        BY <3>3, ReadingCount DEF ReadTake, CallerPlaces
      <4> QED
        BY <3>3, <2>4, <4>1, <4>2 DEF ReadTake, Reading
    <3>4. CASE ReadFault(c)
      BY <3>4 DEF ReadFault, Fault
    <3> QED
      BY <2>4, <3>1, <3>2, <3>3, <3>4 DEF ReadNext
  <2>5. CASE Dead \/ UNCHANGED vars
    BY <2>1, <2>5 DEF Dead, vars
  <2> QED
    BY <2>2, <2>3, <2>4, <2>5 DEF LibraryNext
<1> QED
  BY <1>1, <1>2, LibraryTyping, PTL DEF LibrarySpec

(* A signal for each packet stored is enough: no thread is left waiting in *)
(* flex_usb_read beside a packet that nobody is awake to take.             *)
THEOREM CallersServed == Spec => []NoStrandedCaller
BY SpecIsLibrary, LibraryCallersServed, PTL

-----------------------------------------------------------------------------
USE DEF busVars

UsbNext == [LibraryNext]_vars

(* Every step of the bus is a step of the USB library or leaves it alone:  *)
(* what a disjunct of BusNext does to the library, one by one.             *)
LEMMA BusStepIsLibrary == [BusNext]_allVars => UsbNext
<1> SUFFICES ASSUME [BusNext]_allVars PROVE UsbNext
  OBVIOUS
<1> USE DEF UsbNext
<1>1. CASE BusAppNext
  <2>1. CASE UsbCalled
    BY <2>1 DEF UsbCalled, LibraryNext, AppNext
  <2>2. CASE BusInit \/ BusWrite \/ BusClose
    BY <2>2 DEF BusInit, BusWrite, BusClose, LibraryNext, AppNext
  <2>3. CASE BusInitReturn \/ (\E c \in Callers : BusCreate(c)) \/ BusNoThread \/ BusCloseReturn
    BY <2>3 DEF BusInitReturn, BusCreate, BusNoThread, BusCloseReturn
  <2> QED
    BY <1>1, <2>1, <2>2, <2>3 DEF BusAppNext
<1>2. CASE \E t \in Threads : ReaderNext(t) /\ UNCHANGED busVars
  BY <1>2 DEF LibraryNext
<1>3. ASSUME NEW c \in Callers, BusThreadNext(c) \/ (SpuriousWakeup(c) /\ UNCHANGED busVars)
      PROVE  UsbNext
  BY <1>3 DEF BusThreadNext, BusCheck, BusRead, BusInsert, LibraryNext, ReadNext
<1>4. CASE (Dead /\ UNCHANGED busVars) \/ UNCHANGED allVars
  BY <1>4 DEF LibraryNext, allVars
<1> QED
  BY <1>1, <1>2, <1>3, <1>4 DEF BusNext

(* The bus uses the USB library as its interface allows: every behaviour   *)
(* of FlexBus is one of the library, whose properties it inherits.         *)
THEOREM BusUsesLibrary == BusSpec => LibrarySpec
<1>1. BusStart => Init
  BY DEF BusStart
<1> QED
  BY <1>1, BusStepIsLibrary, PTL DEF BusSpec, LibrarySpec, UsbNext

(* A signal for each packet is enough for the bus threads as well.         *)
THEOREM BusCallersServed == BusSpec => []NoStrandedCaller
BY BusUsesLibrary, LibraryCallersServed, PTL

(* Every variable of FlexBus keeps its type.                               *)
THEOREM BusTyping == BusSpec => []BusTypeOK
<1> DEFINE Own == /\ bus_init \in BOOLEAN /\ stop_usb_reader \in BOOLEAN
                  /\ bus_app \in BusAppPlaces
                  /\ bus \in [Callers -> BusPlaces]
                  /\ unseen \subseteq {"thread", "claim"}
<1>1. BusStart => Own
  BY DEF BusStart, BusAppPlaces, BusPlaces
<1>2. Own /\ [BusNext]_allVars => Own'
  <2> SUFFICES ASSUME Own, [BusNext]_allVars PROVE Own'
    OBVIOUS
  <2> USE DEF BusAppPlaces, BusPlaces
  <2>1. CASE UNCHANGED busVars
    BY <2>1
  <2>2. CASE BusAppNext
    <3>1. CASE BusInit \/ BusInitReturn \/ (\E c \in Callers : BusCreate(c)) \/ BusNoThread
      BY <3>1 DEF BusInit, BusInitReturn, BusCreate, BusNoThread
    <3>2. CASE BusWrite \/ BusClose \/ BusCloseReturn
      BY <3>2 DEF BusWrite, BusClose, BusCloseReturn, Stopped
    <3> QED
      BY <2>1, <2>2, <3>1, <3>2 DEF BusAppNext
  <2>3. ASSUME NEW c \in Callers, BusThreadNext(c) PROVE Own'
    BY <2>3 DEF BusThreadNext, BusCheck, BusRead, BusInsert
  <2> QED
    BY <2>1, <2>2, <2>3 DEF BusNext, allVars
<1>3. TypeOK /\ Own => BusTypeOK
  BY DEF BusTypeOK
<1> HIDE DEF Own
<1> QED
  BY <1>1, <1>2, <1>3, BusUsesLibrary, LibraryTyping, PTL DEF BusSpec

-----------------------------------------------------------------------------
(* While the bus is initialised its thread is not told to stop: an init    *)
(* clears the flag first, and only a close that succeeded raises it.       *)
BusKeepsReader == bus_init => ~stop_usb_reader

(* flex_bus_init clears the flag before it creates the thread, and only a  *)
(* flex_bus_close that succeeded raises it.                                *)
LEMMA BusReaderKept == BusSpec => []BusKeepsReader
<1> USE DEF BusKeepsReader
<1>1. BusStart => BusKeepsReader
  BY DEF BusStart
<1>2. BusKeepsReader /\ [BusNext]_allVars => BusKeepsReader'
  <2> SUFFICES ASSUME BusKeepsReader, [BusNext]_allVars PROVE BusKeepsReader'
    OBVIOUS
  <2>1. CASE UNCHANGED busVars
    BY <2>1
  <2>2. CASE BusAppNext
    <3>1. CASE BusInit \/ BusInitReturn \/ (\E c \in Callers : BusCreate(c)) \/ BusNoThread
      BY <3>1 DEF BusInit, BusInitReturn, BusCreate, BusNoThread
    <3>2. CASE BusWrite \/ BusClose \/ BusCloseReturn
      BY <3>2 DEF BusWrite, BusClose, BusCloseReturn, Stopped
    <3> QED
      BY <2>1, <2>2, <3>1, <3>2 DEF BusAppNext
  <2>3. ASSUME NEW c \in Callers, BusThreadNext(c) PROVE BusKeepsReader'
    BY <2>3 DEF BusThreadNext, BusCheck, BusRead, BusInsert
  <2> QED
    BY <2>1, <2>2, <2>3 DEF BusNext, allVars
<1> QED
  BY <1>1, <1>2, PTL DEF BusSpec

(* An initialised bus has a bus thread that is not about to end, unless    *)
(* pthread_create failed unseen in that session.                           *)
THEOREM BusReaderRuns == BusSpec => []BusHasReader
<1> USE DEF BusHasReader, BusRunning
<1>1. BusStart => BusHasReader
  BY DEF BusStart
<1>2. BusTypeOK /\ BusKeepsReader /\ BusHasReader /\ [BusNext]_allVars => BusHasReader'
  <2> SUFFICES ASSUME BusTypeOK, BusKeepsReader, BusHasReader, [BusNext]_allVars
               PROVE  BusHasReader'
    OBVIOUS
  <2>1. CASE UNCHANGED busVars
    BY <2>1
  <2>2. CASE BusAppNext
    <3>1. CASE \E c \in Callers : BusCreate(c)
      BY <3>1 DEF BusCreate, BusTypeOK
    <3>2. CASE BusInit \/ BusInitReturn \/ BusNoThread
      BY <3>2 DEF BusInit, BusInitReturn, BusNoThread
    <3>3. CASE BusWrite \/ BusClose \/ BusCloseReturn
      BY <3>3 DEF BusWrite, BusClose, BusCloseReturn, Stopped
    <3> QED
      BY <2>1, <2>2, <3>1, <3>2, <3>3 DEF BusAppNext
  <2>3. ASSUME NEW c \in Callers, BusThreadNext(c) PROVE BusHasReader'
    <3> SUFFICES ASSUME bus_init', "thread" \notin unseen' PROVE \E d \in Callers : BusRunning(d)'
      OBVIOUS
    <3>1. bus_init /\ ~stop_usb_reader
      BY <2>3 DEF BusThreadNext, BusCheck, BusRead, BusInsert, BusKeepsReader
    <3>2. BusRunning(c)'
      BY <2>3, <3>1 DEF BusThreadNext, BusCheck, BusRead, BusInsert, BusTypeOK
    <3> QED
      BY <3>2
  <2> QED
    BY <2>1, <2>2, <2>3 DEF BusNext, allVars
<1> QED
  BY <1>1, <1>2, BusTyping, BusReaderKept, PTL DEF BusSpec

-----------------------------------------------------------------------------
(* Where the application is in the two libraries, and what each of them    *)
(* has recorded there.                                                     *)
Agreed ==
  /\ bus_app = "idle" =>
       /\ app \in {"idle", "write_lock", "write", "dead"}
       /\ bus_init /\ app # "dead" /\ "claim" \notin unseen => init
  /\ bus_app = "usb_init" =>
       /\ app \in {"idle", "open", "configure", "start", "connect", "dead"}
       /\ ~bus_init
  /\ bus_app = "create" =>
       /\ app \in {"idle", "dead"} /\ (app = "idle" => init)
       /\ ~bus_init
  /\ bus_app = "usb_close" =>
       /\ app \in {"idle", "close_lock", "disconnect", "close", "free", "dead"}
       /\ app \notin {"idle", "dead"} => init
       /\ bus_init

(* The bus and the USB library agree on the session, unless flex_usb_close *)
(* has reported an error for a session that it closed.                     *)
THEOREM BusAgrees == BusSpec => []BusOverUsb
<1> USE DEF Agreed
<1>1. BusStart => Agreed
  BY DEF BusStart, Init
<1>2. BusTypeOK /\ Agreed /\ [BusNext]_allVars => Agreed'
  <2> SUFFICES ASSUME BusTypeOK, Agreed, [BusNext]_allVars PROVE Agreed'
    OBVIOUS
  <2> USE DEF BusTypeOK, BusAppPlaces
  <2>1. ASSUME init' = init, app' = app, UNCHANGED <<bus_init, bus_app, unseen>> PROVE Agreed'
    BY <2>1
  <2>2. ASSUME app' = "dead", UNCHANGED <<bus_init, bus_app, unseen>> PROVE Agreed'
    BY <2>2
  <2>3. CASE BusAppNext
    <3>1. CASE BusInit
      BY <3>1 DEF BusInit, InitAgain, InitBuffers
    <3>2. CASE BusInitReturn \/ (\E c \in Callers : BusCreate(c)) \/ BusNoThread
      BY <3>2 DEF BusInitReturn, BusCreate, BusNoThread, vars
    <3>3. CASE BusWrite
      BY <3>3 DEF BusWrite, WriteCall
    <3>4. CASE BusClose
      <4>1. CASE ~init /\ Stopped /\ UNCHANGED <<vars, bus>>
        <5>1. app' = "idle" /\ bus_app' = "idle" /\ ~bus_init'
          BY <3>4, <4>1 DEF BusClose, Stopped, vars
        <5> QED
          BY <5>1
      <4>2. CASE /\ init /\ CloseCall
                 /\ bus_app' = "usb_close"
                 /\ UNCHANGED <<bus_init, stop_usb_reader, bus, unseen>>
        BY <3>4, <4>2 DEF BusClose, CloseCall
      <4> QED
        BY <3>4, <4>1, <4>2 DEF BusClose
    <3>5. CASE BusCloseReturn
      BY <3>5 DEF BusCloseReturn, Stopped, vars
    <3>6. CASE UsbCalled /\ UNCHANGED busVars
      <4>1. CASE InitOpen \/ InitConfigure \/ InitConnect
        BY <3>6, <4>1 DEF InitOpen, InitConfigure, InitConnect
      <4>2. CASE InitNoThread \/ \E t \in Threads : InitStart(t)
        BY <3>6, <4>2 DEF InitStart, InitNoThread
      <4>3. CASE WriteLock \/ WriteDone
        BY <3>6, <4>3 DEF WriteLock, WriteDone
      <4>4. CASE CloseLock \/ CloseDisconnect \/ CloseDevice \/ CloseFree
        BY <3>6, <4>4 DEF CloseLock, CloseDisconnect, CloseDevice, CloseFree
      <4> QED
        BY <3>6, <4>1, <4>2, <4>3, <4>4 DEF UsbCalled
    <3> QED
      BY <2>3, <3>1, <3>2, <3>3, <3>4, <3>5, <3>6 DEF BusAppNext
  <2>4. ASSUME NEW t \in Threads, ReaderNext(t), UNCHANGED busVars PROVE Agreed'
    <3>1. CASE ReaderFault(t)
      BY <2>2, <2>4, <3>1 DEF ReaderFault, Fault
    <3>2. CASE ReaderCheck(t) \/ ReaderLock(t) \/ ReaderPoll(t) \/ ReaderStore(t)
      BY <2>1, <2>4, <3>2 DEF ReaderCheck, ReaderLock, ReaderPoll, ReaderStore
    <3> QED
      BY <2>4, <3>1, <3>2 DEF ReaderNext
  <2>5. ASSUME NEW c \in Callers, BusThreadNext(c) \/ (SpuriousWakeup(c) /\ UNCHANGED busVars)
        PROVE  Agreed'
    <3>1. CASE bus[c] = "read" /\ ReadFault(c) /\ UNCHANGED busVars
      BY <2>2, <3>1 DEF ReadFault, Fault
    <3>2. CASE BusCheck(c) \/ BusInsert(c) \/ (SpuriousWakeup(c) /\ UNCHANGED busVars)
      BY <2>1, <3>2 DEF BusCheck, BusInsert, ReadCall, SpuriousWakeup, vars
    <3>3. CASE (ReadWait(c) \/ ReadTake(c)) /\ UNCHANGED <<bus_init, bus_app, unseen>>
      BY <2>1, <3>3 DEF ReadWait, ReadTake
    <3> QED
      BY <2>5, <3>1, <3>2, <3>3 DEF BusThreadNext, BusRead
  <2>6. CASE (Dead /\ UNCHANGED busVars) \/ UNCHANGED allVars
    BY <2>1, <2>6 DEF Dead, allVars, vars
  <2> QED
    BY <2>3, <2>4, <2>5, <2>6 DEF BusNext
<1>3. Agreed => BusOverUsb
  BY DEF BusOverUsb
<1> QED
  BY <1>1, <1>2, <1>3, BusTyping, PTL DEF BusSpec
=============================================================================
