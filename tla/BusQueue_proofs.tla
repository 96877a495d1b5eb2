---------------------------- MODULE BusQueue_proofs ----------------------------
(***************************************************************************)
(* Proofs about the channel queues (BusQueue), for any number of channels  *)
(* and threads and queues of any size.                                     *)
(***************************************************************************)
EXTENDS BusQueue, Modular

(* What the assumptions say of the constants.                              *)
LEMMA BusConstants ==
  /\ QueueSize \in Nat \ {0} /\ QueueSize >= 2
  /\ Cycle \in Nat \ {0} /\ Cycle > QueueSize
BY QueueAssumption DEF QueueAssumption

(* Every thread stays on a channel of its own. *)
AtHome == \A r \in Readers : ch[r] \in Home[r]

(* Every variable of BusQueue keeps its type.                              *)
THEOREM BusTyping == Spec => [](TypeOK /\ AtHome)
<1> USE DEF TypeOK, Item, AtHome
<1>1. Init => TypeOK /\ AtHome
  <2>1. 0 \in Slot /\ 1 \in 1 .. Cycle
    BY BusConstants DEF Slot
  <2> QED
    BY <2>1 DEF Init
<1>2. ASSUME TypeOK, AtHome, NEW c \in Channels, queue_insert(c)
      PROVE  (TypeOK /\ AtHome)'
  <2>1. Inserted(c) \in Slot /\ FirstAfterInsert(c) \in Slot
    <3>1. first[c] \in Int /\ last[c] \in Int
      BY <1>2 DEF Slot
    <3>2. \A a \in Int : a % QueueSize \in Slot
      BY BusConstants, ModRange DEF Slot
    <3>3. (last[c] + 1) % QueueSize \in Slot /\ (first[c] + 1) % QueueSize \in Slot
      BY <3>1, <3>2
    <3> QED
      BY <1>2, <3>3 DEF Inserted, FirstAfterInsert
  <2>2. After(next[c], 1) \in Item
    BY <1>2, BusConstants, AfterType
  <2>3. reader' \in [Readers -> {"idle", "entering", "waiting"}]
    BY <1>2 DEF queue_insert, Signal
  <2>4. queue' \in [Channels -> [Slot -> Item \cup {NoMsg}]]
    BY <1>2 DEF queue_insert
  <2> QED
    BY <1>2, <2>1, <2>2, <2>3, <2>4 DEF queue_insert
<1>3. ASSUME TypeOK, AtHome, NEW r \in Readers, Get(r)
      PROVE  (TypeOK /\ AtHome)'
  <2>1. (first[ch[r]] + 1) % QueueSize \in Slot
    <3>1. first[ch[r]] + 1 \in Int
      BY <1>3 DEF Slot
    <3> QED
      BY <3>1, BusConstants, ModRange DEF Slot
  <2>2. queue[ch[r]][first[ch[r]]] \in Item \cup {NoMsg}
    BY <1>3
  <2>3. /\ first' \in [Channels -> Slot] /\ UNCHANGED <<queue, last, ch, next>>
    BY <1>3, <2>1 DEF Get
  <2>4. reader' \in [Readers -> {"idle", "entering", "waiting"}]
    BY <1>3 DEF Get
  <2>5. got' \in [Channels -> {<<>>} \cup {<<m>> : m \in Item \cup {NoMsg}}]
    <3> DEFINE G == {<<>>} \cup {<<m>> : m \in Item \cup {NoMsg}}
    <3>1. <<queue[ch[r]][first[ch[r]]]>> \in G
      BY <2>2, Zenon
    <3>2. got' = [got EXCEPT ![ch[r]] = <<queue[ch[r]][first[ch[r]]]>>] /\ got \in [Channels -> G]
      BY <1>3 DEF Get
    <3> HIDE DEF G
    <3>3. got' \in [Channels -> G]
      BY <3>1, <3>2
    <3> QED
      BY <3>3 DEF G
  <2> QED
    BY <1>3, <2>3, <2>4, <2>5
<1>4. TypeOK /\ AtHome /\ [Next]_vars => (TypeOK /\ AtHome)'
  <2> SUFFICES ASSUME TypeOK, AtHome, [Next]_vars PROVE (TypeOK /\ AtHome)'
    OBVIOUS
  <2>1. ASSUME NEW r \in Readers, NEW c \in Channels, Call(r, c)
        PROVE  (TypeOK /\ AtHome)'
    BY <2>1 DEF Call
  <2>2. ASSUME NEW r \in Readers, Wait(r) \/ SpuriousWakeup(r)
        PROVE  (TypeOK /\ AtHome)'
    BY <2>2 DEF Wait, SpuriousWakeup
  <2>3. CASE UNCHANGED vars
    BY <2>3 DEF vars
  <2> QED
    BY <1>2, <1>3, <2>1, <2>2, <2>3 DEF Next
<1> QED
  BY <1>1, <1>4, PTL DEF Spec

-----------------------------------------------------------------------------
(* One step along the ring, and the distance between two positions, without *)
(* remainders.                                                             *)
LEMMA StepAlong ==
  ASSUME NEW p \in Slot
  PROVE  (p + 1) % QueueSize = IF p + 1 < QueueSize THEN p + 1 ELSE 0
<1> DEFINE a == p + 1
<1>1. a \in 0 .. 2 * QueueSize - 1 /\ a <= QueueSize
  BY BusConstants DEF Slot
<1> HIDE DEF a
<1>2. a % QueueSize = IF a < QueueSize THEN a ELSE a - QueueSize
  BY <1>1, BusConstants, ModCases
<1>3. a % QueueSize = IF a < QueueSize THEN a ELSE 0
  BY <1>1, <1>2, BusConstants
<1> QED
  BY <1>3 DEF a

(* The distance from first to last, around the queue, leads back to last.  *)
LEMMA Distance ==
  ASSUME NEW f \in Slot, NEW l \in Slot
  PROVE  /\ (l - f) % QueueSize = IF f <= l THEN l - f ELSE l - f + QueueSize
         /\ (l - f) % QueueSize \in Slot
         /\ (f + ((l - f) % QueueSize)) % QueueSize = l
<1> DEFINE a == l - f
           n == a % QueueSize
           b == f + n
<1>1. f <= l => a \in 0 .. QueueSize - 1
  BY BusConstants DEF Slot
<1>2. ~(f <= l) => a \in -QueueSize .. -1
  BY BusConstants DEF Slot
<1> HIDE DEF a
<1>3. n = IF f <= l THEN a ELSE a + QueueSize
  BY <1>1, <1>2, BusConstants, ModSmall, ModNegative
<1> HIDE DEF n
<1>4. /\ n \in Slot /\ b \in 0 .. 2 * QueueSize - 1
      /\ IF f <= l THEN b = l ELSE b = l + QueueSize
  BY <1>3, BusConstants DEF a, Slot
<1> HIDE DEF b
<1>5. b % QueueSize = IF b < QueueSize THEN b ELSE b - QueueSize
  BY <1>4, BusConstants, ModCases
<1>6. b % QueueSize = l
  BY <1>4, <1>5, BusConstants DEF Slot
<1>7. n = IF f <= l THEN l - f ELSE l - f + QueueSize
  BY <1>3 DEF a
<1>8. n = (l - f) % QueueSize
  BY DEF n, a
<1>9. (l - f) % QueueSize = IF f <= l THEN l - f ELSE l - f + QueueSize
  BY <1>7, <1>8, Zenon
<1>10. (l - f) % QueueSize \in Slot
  BY <1>4, <1>8, Zenon
<1>11. (f + n) % QueueSize = l
  BY <1>6 DEF b
<1>12. (f + ((l - f) % QueueSize)) % QueueSize = l
  BY <1>8, <1>11, Zenon
<1> QED
  BY <1>9, <1>10, <1>12, Zenon

(* An insertion into a queue that is not full adds a message; a full queue *)
(* moves on its first position instead.  An empty queue signals.           *)
LEMMA InsertPositions ==
  ASSUME TypeOK, NEW c \in Channels, queue_insert(c)
  PROVE  \/ /\ Count(c) < QueueSize - 1
            /\ first'[c] = first[c] /\ Count(c)' = Count(c) + 1
            /\ Count(c) = 0 => Signals(c)
         \/ /\ Count(c) = QueueSize - 1
            /\ first'[c] = (first[c] + 1) % QueueSize /\ Count(c)' = Count(c)
<1> DEFINE f == first[c]
           l == last[c]
<1>1. f \in Slot /\ l \in Slot
  BY DEF TypeOK
<1> HIDE DEF f, l
<1>2. /\ Inserted(c) = IF l + 1 < QueueSize THEN l + 1 ELSE 0
      /\ Inserted(c) \in Slot
  BY <1>1, StepAlong, BusConstants DEF Inserted, l, Slot
<1>3. /\ FirstAfterInsert(c) = IF f = Inserted(c) THEN (f + 1) % QueueSize ELSE f
      /\ (f + 1) % QueueSize = IF f + 1 < QueueSize THEN f + 1 ELSE 0
      /\ FirstAfterInsert(c) \in Slot
  BY <1>1, StepAlong, BusConstants DEF FirstAfterInsert, f, Slot
<1>4. Count(c) = IF f <= l THEN l - f ELSE l - f + QueueSize
  BY <1>1, Distance DEF Count, f, l
<1>5. first'[c] = FirstAfterInsert(c) /\ last'[c] = Inserted(c)
  BY DEF queue_insert, TypeOK
<1>6. Count(c)' = IF FirstAfterInsert(c) <= Inserted(c)
                  THEN Inserted(c) - FirstAfterInsert(c)
                  ELSE Inserted(c) - FirstAfterInsert(c) + QueueSize
  <2>1. Count(c)' = (Inserted(c) - FirstAfterInsert(c)) % QueueSize
    BY <1>5 DEF Count
  <2> QED
    BY <1>2, <1>3, <2>1, Distance
<1>7. CASE f = Inserted(c)
  <2>1. Count(c) = QueueSize - 1 /\ first'[c] = (f + 1) % QueueSize
    BY <1>1, <1>2, <1>3, <1>4, <1>5, <1>7, BusConstants DEF Slot
  <2>2. Count(c)' = Count(c)
    BY <1>1, <1>2, <1>3, <1>4, <1>6, <1>7, BusConstants DEF Slot
  <2> QED
    BY <2>1, <2>2 DEF f
<1>8. CASE f # Inserted(c)
  <2>1. /\ Count(c) < QueueSize - 1 /\ FirstAfterInsert(c) = f
    BY <1>1, <1>2, <1>3, <1>4, <1>8, BusConstants DEF Slot
  <2>2. Count(c)' = Count(c) + 1
    BY <1>1, <1>2, <1>4, <1>6, <1>8, <2>1, BusConstants DEF Slot
  <2>3. Count(c) = 0 => Signals(c)
    <3>1. SUFFICES ASSUME Count(c) = 0 PROVE Signals(c)
      OBVIOUS
    <3>2. f = l
      BY <1>1, <1>4, <3>1, BusConstants DEF Slot
    <3> QED
      BY <2>1, <3>2 DEF Signals, Inserted, l
  <2> QED
    BY <1>5, <2>1, <2>2, <2>3 DEF f
<1> QED
  BY <1>7, <1>8

(* A channel is empty when nothing is held on it.                          *)
LEMMA EmptyCount ==
  ASSUME TypeOK, NEW c \in Channels
  PROVE  /\ Count(c) \in Slot /\ (Empty(c) <=> Count(c) = 0)
         /\ last[c] = (first[c] + Count(c)) % QueueSize
<1>1. first[c] \in Slot /\ last[c] \in Slot
  BY DEF TypeOK
<1>2. /\ (last[c] - first[c]) % QueueSize \in Slot
      /\ (first[c] + ((last[c] - first[c]) % QueueSize)) % QueueSize = last[c]
  BY <1>1, Distance, Zenon
<1>3. Count(c) = IF first[c] <= last[c] THEN last[c] - first[c]
                 ELSE last[c] - first[c] + QueueSize
  BY <1>1, Distance DEF Count
<1>4. Empty(c) <=> Count(c) = 0
  BY <1>1, <1>3, BusConstants DEF Empty, Slot
<1>5. Count(c) \in Slot
  BY <1>2, Zenon DEF Count
<1>6. last[c] = (first[c] + Count(c)) % QueueSize
  BY <1>2, Zenon DEF Count
<1> QED
  BY <1>4, <1>5, <1>6

-----------------------------------------------------------------------------
(* A thread that has its channel to itself never waits beside a message,   *)
(* although queue_insert signals only when the queue comes to hold one.    *)
THEOREM NobodyStranded == Spec => []NoStrandedReader
<1> USE DEF NoStrandedReader
<1>1. Init => NoStrandedReader
  BY DEF Init, Waiting
<1>2. TypeOK /\ AtHome /\ NoStrandedReader /\ [Next]_vars => NoStrandedReader'
  <2> SUFFICES ASSUME TypeOK, AtHome, NoStrandedReader, [Next]_vars,
                      NEW c \in Channels, ~Shared(c), Waiting(c)' # {}
               PROVE  Empty(c)'
    BY DEF Shared
  <2>1. PICK w \in Readers : reader'[w] = "waiting" /\ ch'[w] = c
    BY DEF Waiting
  <2>2. reader[w] = "waiting" /\ ch[w] = c => Empty(c)
    BY DEF Waiting
  <2>3. \A r \in Readers : ch[r] = c \/ c \in Home[r] => c \in Home[r]
    BY DEF AtHome
  <2>4. ASSUME NEW d \in Channels, queue_insert(d) PROVE Empty(c)'
    <3>1. reader[w] = "waiting" /\ ch[w] = c
      BY <2>1, <2>4 DEF queue_insert, Signal, Waiting, TypeOK
    <3>2. CASE d # c
      BY <2>2, <2>4, <3>1, <3>2 DEF queue_insert, Empty, TypeOK
    <3>3. CASE d = c
      <4>1. Count(c) = 0
        BY <2>2, <3>1, EmptyCount
      <4>2. Signals(c)
        BY <2>4, <3>3, <4>1, InsertPositions, BusConstants
      <4>3. PICK r \in Waiting(c) : reader' = [reader EXCEPT ![r] = "entering"]
        BY <2>4, <3>1, <3>3, <4>2 DEF queue_insert, Signal, Waiting
      <4>4. r # w
        BY <2>1, <4>3 DEF TypeOK, Waiting
      <4>5. c \in Home[r] \cap Home[w]
        BY <3>1, <4>3 DEF Waiting, AtHome
      <4> QED
        BY <4>3, <4>4, <4>5 DEF Shared, Waiting
    <3> QED
      BY <3>2, <3>3
  <2>5. ASSUME NEW r \in Readers, NEW d \in Channels, Call(r, d) PROVE Empty(c)'
    BY <2>1, <2>2, <2>5 DEF Call, Empty, TypeOK
  <2>6. ASSUME NEW r \in Readers, Wait(r) PROVE Empty(c)'
    BY <2>1, <2>2, <2>6 DEF Wait, Empty, TypeOK
  <2>7. ASSUME NEW r \in Readers, Get(r) PROVE Empty(c)'
    <3>1. r # w /\ reader[w] = "waiting" /\ ch[w] = c
      BY <2>1, <2>7 DEF Get, TypeOK
    <3>2. ch[r] # c
      <4>1. SUFFICES ASSUME ch[r] = c PROVE FALSE
        OBVIOUS
      <4>2. c \in Home[r] \cap Home[w]
        BY <3>1, <4>1 DEF AtHome
      <4> QED
        BY <3>1, <4>2 DEF Shared
    <3> QED
      BY <2>2, <2>7, <3>1, <3>2 DEF Get, Empty, TypeOK
  <2>8. ASSUME NEW r \in Readers, SpuriousWakeup(r) PROVE Empty(c)'
    BY <2>1, <2>2, <2>8 DEF SpuriousWakeup, Empty, TypeOK
  <2>9. CASE UNCHANGED vars
    BY <2>1, <2>2, <2>9 DEF vars, Empty
  <2> QED
    BY <2>4, <2>5, <2>6, <2>7, <2>8, <2>9 DEF Next
<1> QED
  BY <1>1, <1>2, BusTyping, PTL DEF Spec

-----------------------------------------------------------------------------
(* The message i places from the oldest one of channel c. *)
Place(c, i) == queue[c][(first[c] + i - 1) % QueueSize]

(* What an insertion does to the messages of its channel: the oldest one   *)
(* goes if the queue is full, and the new one is the last.                 *)
LEMMA Insertion ==
  ASSUME TypeOK, NEW c \in Channels, queue_insert(c)
  PROVE  \E d \in {0, 1} :
           /\ d = 1 <=> Count(c) = QueueSize - 1
           /\ Count(c)' = Count(c) + 1 - d
           /\ \A i \in 1 .. Count(c) - d : Place(c, i)' = Place(c, i + d)
           /\ \A i \in {Count(c) + 1 - d} : Place(c, i)' = next[c]
<1> DEFINE d == IF Count(c) = QueueSize - 1 THEN 1 ELSE 0
           n == Count(c)
           f == first[c]
<1>1. d \in {0, 1} /\ (d = 1 <=> n = QueueSize - 1)
  OBVIOUS
<1>2. n \in Slot /\ f \in Slot /\ last[c] = (f + n) % QueueSize /\ last[c] \in Slot
  BY EmptyCount DEF TypeOK
<1>3. /\ Count(c)' = n + 1 - d
      /\ first'[c] = IF d = 1 THEN (f + 1) % QueueSize ELSE f
  BY <1>2, InsertPositions, BusConstants DEF Slot
<1> HIDE DEF d, n, f
<1>4. ASSUME NEW i \in Int
      PROVE  (first'[c] + i - 1) % QueueSize = (f + (i + d) - 1) % QueueSize
  <2>1. CASE d = 0
    BY <1>2, <1>3, <2>1, BusConstants DEF Slot
  <2>2. CASE d = 1
    <3> DEFINE a == f + 1
               b == i - 1
    <3>1. a \in Int /\ b \in Int /\ a + b = f + (i + d) - 1
      BY <1>2, <2>2, BusConstants DEF Slot
    <3>2. first'[c] = a % QueueSize
      BY <1>3, <2>2
    <3>3. first'[c] + b = first'[c] + i - 1
      <4>1. first'[c] \in Int
        BY <3>1, <3>2, ModRange, BusConstants
      <4> QED
        BY <4>1
    <3> HIDE DEF a, b
    <3>4. ((a % QueueSize) + b) % QueueSize = (a + b) % QueueSize
      BY <3>1, ModAdd, BusConstants
    <3> QED
      BY <3>1, <3>2, <3>3, <3>4
  <2> QED
    BY <1>1, <2>1, <2>2
<1>5. /\ queue'[c] = [queue[c] EXCEPT ![last[c]] = next[c]]
      /\ queue[c] \in [Slot -> Item \cup {NoMsg}]
  BY DEF queue_insert, TypeOK
<1>6. ASSUME NEW i \in 1 .. n - d PROVE Place(c, i)' = Place(c, i + d)
  <2> DEFINE a == f + (i + d) - 1
             b == f + n
  <2>1. a \in Int /\ b \in Int /\ a < b /\ b < a + QueueSize
    BY <1>1, <1>2, BusConstants DEF Slot
  <2> HIDE DEF a, b
  <2>2. a % QueueSize # b % QueueSize /\ a % QueueSize \in Slot
    BY <2>1, ModDistinct, ModRange, BusConstants DEF Slot
  <2>3. queue'[c][a % QueueSize] = queue[c][a % QueueSize]
    BY <1>2, <1>5, <2>2 DEF b
  <2> QED
    BY <1>4, <2>3 DEF Place, a, f
<1>7. ASSUME NEW i \in {n + 1 - d} PROVE Place(c, i)' = next[c]
  <2>1. i \in Int /\ f + (i + d) - 1 = f + n
    BY <1>1, <1>2, BusConstants DEF Slot
  <2>2. (first'[c] + i - 1) % QueueSize = last[c]
    BY <1>2, <1>4, <2>1
  <2> QED
    BY <1>2, <1>5, <2>2 DEF Place
<1> QED
  BY <1>1, <1>3, <1>6, <1>7 DEF n

(* queue_get takes the oldest message and moves the others up.             *)
LEMMA Removal ==
  ASSUME TypeOK, NEW r \in Readers, Get(r), NEW c \in Channels, c = ch[r]
  PROVE  /\ Count(c) > 0 /\ Count(c)' = Count(c) - 1
         /\ \A i \in Int : Place(c, i)' = Place(c, i + 1)
         /\ got'[c] = <<Place(c, 1)>>
<1> DEFINE f == first[c]
           l == last[c]
<1>1. f \in Slot /\ l \in Slot
  BY DEF TypeOK
<1>2. /\ first'[c] = (f + 1) % QueueSize /\ last'[c] = l
      /\ queue'[c] = queue[c] /\ f # l
      /\ got'[c] = <<queue[c][f]>>
  BY DEF Get, Empty, TypeOK
<1> HIDE DEF f, l
<1>3. /\ first'[c] = IF f + 1 < QueueSize THEN f + 1 ELSE 0
      /\ first'[c] \in Slot
  BY <1>1, <1>2, StepAlong, BusConstants DEF Slot
<1>4. Count(c) = IF f <= l THEN l - f ELSE l - f + QueueSize
  BY <1>1, Distance DEF Count, f, l
<1>5. Count(c)' = IF first'[c] <= l THEN l - first'[c] ELSE l - first'[c] + QueueSize
  <2>1. Count(c)' = (l - first'[c]) % QueueSize
    BY <1>2 DEF Count
  <2> QED
    BY <1>1, <1>3, <2>1, Distance
<1>6. Count(c) > 0 /\ Count(c)' = Count(c) - 1
  BY <1>1, <1>2, <1>3, <1>4, <1>5, BusConstants DEF Slot
<1>7. ASSUME NEW i \in Int PROVE Place(c, i)' = Place(c, i + 1)
  <2> DEFINE a == f + 1
             b == i - 1
  <2>1. a \in Int /\ b \in Int /\ a + b = f + (i + 1) - 1 /\ first'[c] + b = first'[c] + i - 1
    BY <1>1, <1>3, BusConstants DEF Slot
  <2>2. first'[c] = a % QueueSize
    BY <1>2
  <2> HIDE DEF a, b
  <2>3. ((a % QueueSize) + b) % QueueSize = (a + b) % QueueSize
    BY <2>1, ModAdd, BusConstants
  <2>4. (first'[c] + i - 1) % QueueSize = (f + (i + 1) - 1) % QueueSize
    BY <2>1, <2>2, <2>3
  <2> QED
    BY <1>2, <2>4 DEF Place, f
<1>8. f + 1 - 1 = f /\ f % QueueSize = f
  BY <1>1, ModSmall, BusConstants DEF Slot
<1> QED
  BY <1>2, <1>6, <1>7, <1>8 DEF Place, f

(* A step that leaves the variables of a channel alone leaves its messages. *)
LEMMA Elsewhere ==
  ASSUME NEW c \in Channels,
         queue'[c] = queue[c], first'[c] = first[c], last'[c] = last[c]
  PROVE  Count(c)' = Count(c) /\ Held(c)' = Held(c)
BY DEF Count, Held

(* Whatever else happens, a step of BusQueue inserts on one channel, takes *)
(* from one, or touches no queue.                                          *)
LEMMA ChannelStep ==
  ASSUME TypeOK, [Next]_vars, NEW c \in Channels
  PROVE  \/ queue_insert(c)
         \/ \E r \in Readers : Get(r) /\ c = ch[r]
         \/ /\ queue'[c] = queue[c] /\ first'[c] = first[c] /\ last'[c] = last[c]
            /\ next'[c] = next[c] /\ got'[c] = got[c]
<1>1. ASSUME NEW d \in Channels, queue_insert(d), d # c
      PROVE  /\ queue'[c] = queue[c] /\ first'[c] = first[c] /\ last'[c] = last[c]
             /\ next'[c] = next[c] /\ got'[c] = got[c]
  BY <1>1 DEF queue_insert, TypeOK
<1>2. ASSUME NEW r \in Readers, Get(r), ch[r] # c
      PROVE  /\ queue'[c] = queue[c] /\ first'[c] = first[c] /\ last'[c] = last[c]
             /\ next'[c] = next[c] /\ got'[c] = got[c]
  BY <1>2 DEF Get, TypeOK
<1>3. ASSUME NEW r \in Readers, NEW d \in Channels,
             Call(r, d) \/ Wait(r) \/ SpuriousWakeup(r)
      PROVE  /\ queue'[c] = queue[c] /\ first'[c] = first[c] /\ last'[c] = last[c]
             /\ next'[c] = next[c] /\ got'[c] = got[c]
  BY <1>3 DEF Call, Wait, SpuriousWakeup
<1> QED
  BY <1>1, <1>2, <1>3 DEF Next, vars

-----------------------------------------------------------------------------
(* NewestInOrder with the places named. *)
Recent ==
  \A c \in Channels : \A i \in 1 .. Count(c) :
    Place(c, i) = After(next[c], Cycle - Count(c) + i - 1)

(* The two are one: Held is the sequence of the places in use.             *)
LEMMA RecentIsNewest == Recent <=> NewestInOrder
BY DEF Recent, NewestInOrder, Held, Place

(* The messages of a channel are its newest ones, in order.                *)
THEOREM NewestHeld == Spec => []NewestInOrder
<1>1. Init => Recent
  <2>1. (0 - 0) % QueueSize = 0
    BY BusConstants, ModSmall
  <2> QED
    BY <2>1 DEF Init, Recent, Count
<1>2. ASSUME TypeOK, Recent, [Next]_vars PROVE Recent'
  <2> SUFFICES ASSUME NEW c \in Channels, NEW i \in 1 .. Count(c)'
               PROVE  Place(c, i)' = After(next'[c], Cycle - Count(c)' + i - 1)
    BY DEF Recent
  <2>1. Count(c) \in Nat /\ Count(c) < QueueSize /\ next[c] \in 1 .. Cycle
    BY <1>2, EmptyCount, BusConstants DEF Slot, TypeOK, Item
  <2>2. CASE queue_insert(c)
    <3>1. PICK d \in {0, 1} :
            /\ d = 1 <=> Count(c) = QueueSize - 1
            /\ Count(c)' = Count(c) + 1 - d
            /\ \A k \in 1 .. Count(c) - d : Place(c, k)' = Place(c, k + d)
            /\ \A k \in {Count(c) + 1 - d} : Place(c, k)' = next[c]
      BY <1>2, <2>2, Insertion
    <3> DEFINE x == Cycle - Count(c)' + i - 1
               y == Cycle - Count(c) + (i + d) - 1
    <3>2. x \in Int /\ y \in Int /\ 1 + x = y /\ i \in Int /\ next[c] \in Int
      BY <2>1, <3>1, BusConstants
    <3>3. next'[c] = After(next[c], 1)
      BY <1>2, <2>2 DEF queue_insert, TypeOK
    <3> HIDE DEF x, y
    <3>4. After(next'[c], x) = After(next[c], y)
      <4>1. After(After(next[c], 1), x) = After(next[c], 1 + x)
        <5>1. 1 \in Int /\ x \in Int /\ next[c] \in Int
          BY <3>2
        <5> QED
          BY <5>1, AfterAfter, BusConstants, ZenonT(30)
      <4> QED
        BY <3>2, <3>3, <4>1
    <3>5. CASE i <= Count(c) - d
      <4>1. i + d \in 1 .. Count(c) /\ i \in 1 .. Count(c) - d
        BY <2>1, <3>1, <3>5
      <4>2. Place(c, i)' = Place(c, i + d)
        BY <3>1, <4>1
      <4>3. Place(c, i + d) = After(next[c], y)
        BY <1>2, <4>1 DEF Recent, y
      <4> QED
        BY <3>4, <4>2, <4>3 DEF x
    <3>6. CASE ~(i <= Count(c) - d)
      <4>1. i = Count(c) + 1 - d /\ y = Cycle + 0
        BY <2>1, <3>1, <3>6, BusConstants DEF y
      <4>2. Place(c, i)' = next[c]
        BY <3>1, <4>1
      <4>3. After(next[c], y) = next[c]
        <5>1. After(next[c], Cycle + 0) = After(next[c], 0)
          BY <3>2, AfterTurn, BusConstants
        <5>2. After(next[c], 0) = next[c]
          BY <2>1, AfterNone, BusConstants
        <5> QED
          BY <4>1, <5>1, <5>2
      <4> QED
        BY <3>4, <4>2, <4>3 DEF x
    <3> QED
      BY <3>5, <3>6
  <2>3. ASSUME NEW r \in Readers, Get(r), c = ch[r]
        PROVE  Place(c, i)' = After(next'[c], Cycle - Count(c)' + i - 1)
    <3>1. /\ Count(c)' = Count(c) - 1 /\ Place(c, i)' = Place(c, i + 1)
          /\ next'[c] = next[c]
      <4>1. i \in Int /\ next'[c] = next[c]
        BY <2>3 DEF Get
      <4>2. /\ Count(c)' = Count(c) - 1
            /\ \A k \in Int : Place(c, k)' = Place(c, k + 1)
        BY <1>2, <2>3, Removal
      <4> QED
        BY <4>1, <4>2
    <3>2. /\ i + 1 \in 1 .. Count(c)
          /\ Cycle - Count(c) + (i + 1) - 1 = Cycle - Count(c)' + i - 1
      BY <2>1, <3>1, BusConstants
    <3> QED
      BY <1>2, <3>1, <3>2 DEF Recent
  <2>4. CASE /\ queue'[c] = queue[c] /\ first'[c] = first[c] /\ last'[c] = last[c]
             /\ next'[c] = next[c]
    BY <1>2, <2>4 DEF Recent, Count, Place
  <2> QED
    BY <1>2, <2>2, <2>3, <2>4, ChannelStep
<1> QED
  BY <1>1, <1>2, RecentIsNewest, BusTyping, PTL DEF Spec

-----------------------------------------------------------------------------
(* Held is the sequence of the places in use. *)
PlacesHeld ==
  \A c \in Channels :
    /\ Held(c) \in Seq(Item) /\ Len(Held(c)) = Count(c) /\ Count(c) \in Slot
    /\ \A i \in 1 .. Count(c) : Held(c)[i] = Place(c, i)

(* Held and Place are two readings of one queue: what is shown of places,  *)
(* one at a time, holds of the sequence.                                   *)
LEMMA HeldArePlaces == TypeOK /\ Recent => PlacesHeld
<1> SUFFICES ASSUME TypeOK, Recent, NEW c \in Channels
             PROVE  /\ Held(c) \in Seq(Item) /\ Len(Held(c)) = Count(c)
                    /\ Count(c) \in Slot
                    /\ \A i \in 1 .. Count(c) : Held(c)[i] = Place(c, i)
  BY DEF PlacesHeld
<1>1. Count(c) \in Slot /\ Count(c) \in Nat /\ next[c] \in Int
  BY EmptyCount, BusConstants DEF Slot, TypeOK, Item
<1>2. ASSUME NEW i \in 1 .. Count(c) PROVE Place(c, i) \in Item
  <2>1. Cycle - Count(c) + i - 1 \in Int
    BY <1>1, BusConstants
  <2>2. After(next[c], Cycle - Count(c) + i - 1) \in Item
    BY <1>1, <2>1, AfterType, BusConstants DEF Item
  <2> QED
    BY <2>2 DEF Recent
<1>3. Held(c) = [i \in 1 .. Count(c) |-> Place(c, i)]
  BY DEF Held, Place
<1> QED
  BY <1>1, <1>2, <1>3

(* An insertion is a Put of the abstract queue, ...                        *)
LEMMA InsertIsPut ==
  ASSUME TypeOK, PlacesHeld, PlacesHeld', NEW c \in Channels, queue_insert(c)
  PROVE  Promise(c)!Next
<1> DEFINE message == [i \in 1 .. 1 |-> next[c]]
           n == Count(c)
<1>1. /\ Held(c) \in Seq(Item) /\ Len(Held(c)) = n
      /\ n \in Nat /\ n < QueueSize
      /\ \A i \in 1 .. n : Held(c)[i] = Place(c, i)
  BY BusConstants DEF PlacesHeld, Slot
<1>2. /\ Held(c)' \in Seq(Item) /\ Len(Held(c)') = Count(c)'
      /\ \A i \in 1 .. Count(c)' : Held(c)'[i] = Place(c, i)'
  BY DEF PlacesHeld
<1>3. PICK d \in {0, 1} :
        /\ d = 1 <=> n = QueueSize - 1
        /\ Count(c)' = n + 1 - d
        /\ \A i \in 1 .. n - d : Place(c, i)' = Place(c, i + d)
        /\ \A i \in {n + 1 - d} : Place(c, i)' = next[c]
  BY Insertion
<1>4. /\ message \in [1 .. 1 -> Item] /\ message \in Seq(Item)
      /\ Len(message) = 1 /\ message[1] = next[c]
  BY DEF TypeOK
<1> DEFINE whole == Held(c) \o message
<1> HIDE DEF message, n
<1>5. /\ whole \in Seq(Item) /\ Len(whole) = n + 1
      /\ \A i \in 1 .. n : whole[i] = Held(c)[i]
      /\ whole[n + 1] = next[c]
  <2>0. /\ whole \in Seq(Item) /\ Len(whole) = Len(Held(c)) + Len(message)
        /\ \A i \in 1 .. Len(Held(c)) + Len(message) : whole[i] =
             IF i <= Len(Held(c)) THEN Held(c)[i] ELSE message[i - Len(Held(c))]
    BY <1>1, <1>4, ConcatProperties, Zenon
  <2>1. /\ whole \in Seq(Item) /\ Len(whole) = n + 1
        /\ \A i \in 1 .. n + 1 : whole[i] =
             IF i <= n THEN Held(c)[i] ELSE message[i - n]
    BY <1>1, <1>4, <2>0, Zenon
  <2> HIDE DEF whole
  <2>2. \A i \in 1 .. n : whole[i] = Held(c)[i]
    BY <1>1, <2>1
  <2>3. n + 1 \in 1 .. n + 1 /\ ~(n + 1 <= n) /\ (n + 1) - n = 1
    BY <1>1
  <2>4. whole[n + 1] = next[c]
    <3>1. whole[n + 1] = message[(n + 1) - n]
      BY <2>1, <2>3, Zenon
    <3> QED
      BY <1>4, <2>3, <3>1, Zenon
  <2> QED
    BY <2>1, <2>2, <2>4
<1> HIDE DEF whole
<1>6. ASSUME NEW i \in 1 .. n + 1 - d PROVE Held(c)'[i] = whole[i + d]
  <2>1. Held(c)'[i] = Place(c, i)'
    BY <1>2, <1>3
  <2>2. CASE i <= n - d
    <3>1. i \in 1 .. n - d /\ i + d \in 1 .. n
      BY <1>1, <2>2
    <3> QED
      BY <1>1, <1>3, <1>5, <2>1, <3>1
  <2>3. CASE ~(i <= n - d)
    <3>1. i = n + 1 - d /\ i + d = n + 1
      BY <1>1, <2>3
    <3> QED
      BY <1>3, <1>5, <2>1, <3>1
  <2> QED
    BY <2>2, <2>3
<1>7. Held(c)' = SubSeq(whole, d + 1, Len(whole))
  <2>1. Len(Held(c)') = Len(whole) - d /\ d \in Nat /\ d <= Len(whole)
    BY <1>1, <1>2, <1>3, <1>5
  <2>2. \A i \in 1 .. Len(whole) - d : Held(c)'[i] = whole[i + d]
    <3>1. Len(whole) - d = n + 1 - d
      BY <1>1, <1>5
    <3> QED
      BY <1>6, <3>1
  <2> QED
    BY <1>2, <1>5, <2>1, <2>2, IsSuffix
<1>8. Held(c)' = Promise(c)!Newest(whole)
  <2>1. CASE d = 1
    <3>1. Len(whole) = QueueSize /\ ~(Len(whole) <= QueueSize - 1)
      BY <1>3, <1>5, <2>1, BusConstants
    <3>2. Len(whole) - (QueueSize - 1) + 1 = d + 1
      BY <2>1, <3>1, BusConstants
    <3> QED
      BY <1>7, <3>1, <3>2 DEF Promise!Newest
  <2>2. CASE d = 0
    <3>1. Len(whole) <= QueueSize - 1
      BY <1>1, <1>3, <1>5, <2>2, BusConstants
    <3>2. SubSeq(whole, 1, Len(whole)) = whole
      BY <1>5
    <3> QED
      BY <1>7, <2>2, <3>1, <3>2 DEF Promise!Newest
  <2> QED
    BY <2>1, <2>2
<1>9. got'[c] = got[c]
  BY DEF queue_insert
<1>10. Promise(c)!Put(message)
  BY <1>8, <1>9 DEF Promise!Put, whole
<1> QED
  BY <1>4, <1>10 DEF Promise!Next

(* ... and a removal a Get.                                                *)
LEMMA RemoveIsGet ==
  ASSUME TypeOK, PlacesHeld, PlacesHeld', NEW r \in Readers, Get(r),
         NEW c \in Channels, c = ch[r]
  PROVE  Promise(c)!Next
<1>1. /\ Held(c) \in Seq(Item) /\ Len(Held(c)) = Count(c)
      /\ Count(c) \in Nat /\ Count(c) < QueueSize
      /\ \A i \in 1 .. Count(c) : Held(c)[i] = Place(c, i)
  BY BusConstants DEF PlacesHeld, Slot
<1>2. /\ Held(c)' \in Seq(Item) /\ Len(Held(c)') = Count(c)'
      /\ \A i \in 1 .. Count(c)' : Held(c)'[i] = Place(c, i)'
  BY DEF PlacesHeld
<1>3. /\ Count(c) > 0 /\ Count(c)' = Count(c) - 1
      /\ \A i \in Int : Place(c, i)' = Place(c, i + 1)
      /\ got'[c] = <<Place(c, 1)>>
  BY Removal
<1>4. Held(c)' = SubSeq(Held(c), 1 + 1, Len(Held(c)))
  <2>1. Len(Held(c)') = Len(Held(c)) - 1
    BY <1>1, <1>2, <1>3
  <2>2. ASSUME NEW i \in 1 .. Len(Held(c)) - 1 PROVE Held(c)'[i] = Held(c)[i + 1]
    <3>1. i \in Int /\ i \in 1 .. Count(c)' /\ i + 1 \in 1 .. Count(c)
      BY <1>1, <1>3
    <3> QED
      BY <1>1, <1>2, <1>3, <3>1
  <2>3. 1 \in Nat /\ 1 <= Len(Held(c))
    BY <1>1, <1>3
  <2> QED
    BY <1>1, <1>2, <2>1, <2>2, <2>3, IsSuffix, Zenon
<1>5. got'[c] = SubSeq(Held(c), 1, 1)
  BY <1>1, <1>3
<1>6. 1 <= Len(Held(c)) /\ 1 \in 1 .. QueueSize - 1
  BY <1>1, <1>3, BusConstants
<1>7. Promise(c)!Get(1)
  BY <1>4, <1>5, <1>6, Zenon DEF Promise!Get
<1> QED
  BY <1>6, <1>7 DEF Promise!Next

(* Every channel is a queue that gives up its oldest message when full.    *)
THEOREM ChannelIsAQueue == Spec => DropsOldest
<1>1. Init => \A c \in Channels : Promise(c)!Init
  <2> SUFFICES ASSUME Init, NEW c \in Channels PROVE Held(c) = <<>> /\ got[c] = <<>>
    BY DEF Promise!Init
  <2>1. (0 - 0) % QueueSize = 0
    BY BusConstants, ModSmall
  <2> QED
    BY <2>1 DEF Init, Held, Count
<1>2. (TypeOK /\ Recent => PlacesHeld)'
  BY HeldArePlaces, PTL
<1>3. ASSUME TypeOK, TypeOK', Recent, Recent', [Next]_vars
      PROVE  [\A c \in Channels : [Promise(c)!Next]_(Promise(c)!vars)]_vars
  <2> SUFFICES ASSUME NEW c \in Channels PROVE [Promise(c)!Next]_(Promise(c)!vars)
    OBVIOUS
  <2>1. PlacesHeld /\ PlacesHeld'
    BY <1>2, <1>3, HeldArePlaces
  <2>2. CASE queue_insert(c)
    BY <1>3, <2>1, <2>2, InsertIsPut
  <2>3. ASSUME NEW r \in Readers, Get(r), c = ch[r] PROVE Promise(c)!Next
    BY <1>3, <2>1, <2>3, RemoveIsGet
  <2>4. CASE /\ queue'[c] = queue[c] /\ first'[c] = first[c] /\ last'[c] = last[c]
             /\ next'[c] = next[c] /\ got'[c] = got[c]
    BY <2>4, Elsewhere DEF Promise!vars
  <2> QED
    BY <1>3, <2>2, <2>3, <2>4, ChannelStep
<1>4. TypeOK /\ NewestInOrder => Recent
  BY RecentIsNewest
<1> QED
  BY <1>1, <1>3, <1>4, NewestHeld, BusTyping, PTL DEF Spec, DropsOldest
=============================================================================
