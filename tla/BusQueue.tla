------------------------------ MODULE BusQueue ------------------------------
(***************************************************************************)
(* The channel queues of the FLEX bus library (flex_bus.c): for each       *)
(* channel a circular array of messages with first and last, a mutex and a *)
(* condition variable.  The bus thread inserts (queue_insert), any number  *)
(* of application threads read (flex_bus_read, which is queue_get with     *)
(* lifo = 0).  Every access to a channel is made under its mutex, so the   *)
(* section of a thread between two waits is one action.                    *)
(***************************************************************************)
EXTENDS Integers, Sequences, Stream

CONSTANTS
  Channels,    \* the channels in use
  Readers,     \* the threads that call flex_bus_read
  Home,        \* the channels each reader reads
  QueueSize,   \* channels[ch].size; one place always stays free
  NoMsg        \* an array element never written

ASSUME QueueAssumption ==
  /\ QueueSize \in Nat /\ QueueSize >= 2
  /\ Cycle \in Nat /\ Cycle > QueueSize
  /\ Home \in [Readers -> SUBSET Channels]
  /\ NoMsg \notin Nat

VARIABLES
  queue,       \* [channel -> [position -> message]]
  first,       \* [channel -> position of the oldest message]
  last,        \* [channel -> position after the newest message]
  reader,      \* [thread -> where it is in flex_bus_read]
  ch,          \* [thread -> the channel it reads]
  next,        \* [channel -> number of the next message the device sends]
  got          \* [channel -> what the last queue_get on it returned]

vars == <<queue, first, last, reader, ch, next, got>>

Slot == 0 .. QueueSize - 1

Empty(c) == first[c] = last[c]

(* The threads in pthread_cond_wait on the channel. *)
Waiting(c) == {r \in Readers : reader[r] = "waiting" /\ ch[r] = c}

Init ==
  /\ queue = [c \in Channels |-> [k \in Slot |-> NoMsg]]
  /\ first = [c \in Channels |-> 0]
  /\ last = [c \in Channels |-> 0]
  /\ reader = [r \in Readers |-> "idle"]
  /\ ch \in {f \in [Readers -> Channels] : \A r \in Readers : f[r] \in Home[r]}
  /\ next = [c \in Channels |-> 1]
  /\ got = [c \in Channels |-> <<>>]

(***************************************************************************)
(* queue_insert: store at last, drop the oldest message of a full queue,   *)
(* and signal the condition only if the queue now holds one message.  A    *)
(* signal releases one waiting thread, if there is one.                    *)
(***************************************************************************)
Inserted_two(c) == (last[c] + 2) % QueueSize                         \* mutant

Inserted(c) == (last[c] + 1) % QueueSize

FirstAfterInsert_kept(c) == first[c]                                 \* mutant

FirstAfterInsert(c) ==
  IF first[c] = Inserted(c) THEN (first[c] + 1) % QueueSize ELSE first[c]

Signals_second(c) == (FirstAfterInsert(c) + 2) % QueueSize = Inserted(c)  \* mutant

Signals(c) == (FirstAfterInsert(c) + 1) % QueueSize = Inserted(c)

(* pthread_cond_signal on the channel: one waiting thread competes again.  *)
Signal(c) ==
  IF Waiting(c) = {} THEN UNCHANGED reader
  ELSE \E r \in Waiting(c) : reader' = [reader EXCEPT ![r] = "entering"]

queue_insert(c) ==
  /\ queue' = [queue EXCEPT ![c][last[c]] = next[c]]
  /\ last' = [last EXCEPT ![c] = Inserted(c)]
  /\ first' = [first EXCEPT ![c] = FirstAfterInsert(c)]
  /\ next' = [next EXCEPT ![c] = After(@, 1)]
  /\ IF Signals(c) THEN Signal(c) ELSE UNCHANGED reader
  /\ UNCHANGED <<ch, got>>

(* flex_bus_read is called on channel c. *)
Call(r, c) ==
  /\ reader[r] = "idle" /\ c \in Home[r]
  /\ reader' = [reader EXCEPT ![r] = "entering"]
  /\ ch' = [ch EXCEPT ![r] = c]
  /\ UNCHANGED <<queue, first, last, next, got>>

(* queue_get with the mutex held and the queue empty: pthread_cond_wait.   *)
Wait(r) ==
  /\ reader[r] = "entering" /\ Empty(ch[r])
  /\ reader' = [reader EXCEPT ![r] = "waiting"]
  /\ UNCHANGED <<queue, first, last, ch, next, got>>

(* queue_get with the mutex held and a message there. *)
Get_last(r) ==                                                       \* mutant
  /\ (first[ch[r]] + 1) % QueueSize = last[ch[r]]
  /\ reader[r] = "entering"
  /\ got' = [got EXCEPT ![ch[r]] = <<queue[ch[r]][first[ch[r]]]>>]
  /\ first' = [first EXCEPT ![ch[r]] = (@ + 1) % QueueSize]
  /\ reader' = [reader EXCEPT ![r] = "idle"]
  /\ UNCHANGED <<queue, last, ch, next>>

Get(r) ==
  LET c == ch[r] IN
  /\ reader[r] = "entering" /\ ~Empty(c)
  /\ got' = [got EXCEPT ![c] = <<queue[c][first[c]]>>]
  /\ first' = [first EXCEPT ![c] = (@ + 1) % QueueSize]
  /\ reader' = [reader EXCEPT ![r] = "idle"]
  /\ UNCHANGED <<queue, last, ch, next>>

(* pthread_cond_wait may return without a signal (POSIX). *)
SpuriousWakeup(r) ==
  /\ reader[r] = "waiting"
  /\ reader' = [reader EXCEPT ![r] = "entering"]
  /\ UNCHANGED <<queue, first, last, ch, next, got>>

Next ==
  \/ \E c \in Channels : queue_insert(c)
  \/ \E r \in Readers : \/ \E c \in Channels : Call(r, c)
                        \/ Wait(r) \/ Get(r) \/ SpuriousWakeup(r)

Spec == Init /\ [][Next]_vars

(* A thread that has entered flex_bus_read keeps running; messages need    *)
(* not arrive, and nobody has to call.                                     *)
FairSpec == Spec /\ \A r \in Readers : WF_vars(Wait(r) \/ Get(r))

-----------------------------------------------------------------------------
TypeOK ==
  /\ queue \in [Channels -> [Slot -> Item \cup {NoMsg}]]
  /\ first \in [Channels -> Slot] /\ last \in [Channels -> Slot]
  /\ reader \in [Readers -> {"idle", "entering", "waiting"}]
  /\ ch \in [Readers -> Channels]
  /\ next \in [Channels -> Item]
  /\ got \in [Channels -> {<<>>} \cup {<<m>> : m \in Item \cup {NoMsg}}]

(* How many messages the channel holds, from first up to last. *)
Count(c) == (last[c] - first[c]) % QueueSize

Held(c) == [i \in 1 .. Count(c) |-> queue[c][(first[c] + i - 1) % QueueSize]]

(* The messages held are the newest Count(c) messages sent on the channel, *)
(* in order, whatever the readers and the insertion interleaved.           *)
NewestInOrder ==
  \A c \in Channels : \A i \in 1 .. Count(c) :
    Held(c)[i] = After(next[c], Cycle - Count(c) + i - 1)

(* Each channel is a queue of QueueSize - 1 messages that gives up its     *)
(* oldest message when it is full; no reader of another channel disturbs   *)
(* it.                                                                     *)
Promise(c) == INSTANCE ShiftQueue WITH
  Item <- Item, Capacity <- QueueSize - 1, MaxBatch <- 1,
  queue <- Held(c), out <- got[c]

DropsOldest ==
  /\ \A c \in Channels : Promise(c)!Init
  /\ [][\A c \in Channels : [Promise(c)!Next]_(Promise(c)!vars)]_vars

(* A thread waits in queue_get only while the queue of its channel is      *)
(* empty, provided no other thread reads that channel: queue_insert        *)
(* signals only when the queue comes to hold one message, and that must    *)
(* be enough.                                                              *)
Shared(c) == \E r, s \in Readers : r # s /\ c \in Home[r] \cap Home[s]

NoStrandedReader ==
  \A c \in Channels :
    ~Shared(c) /\ Waiting(c) # {} => Empty(c)

(* A thread that calls flex_bus_read on a channel nobody else reads gets a *)
(* message once the channel holds one.                                     *)
ReaderServed ==
  \A r \in Readers :
    (reader[r] # "idle" /\ ~Shared(ch[r]) /\ ~Empty(ch[r])) ~> reader[r] = "idle"
=============================================================================
