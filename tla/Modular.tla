------------------------------- MODULE Modular -------------------------------
(***************************************************************************)
(* Facts about positions modulo the size of a ring, for the rings of       *)
(* flex_usb.c and flex_bus.c, and about the cyclic numbers of a Stream: SMT *)
(* solvers know a % n only for small a.  Then facts about equal sequences, *)
(* their concatenations and their ends, and induction over the naturals,   *)
(* which is stated for a set, for what recursive functions compute.        *)
(***************************************************************************)
EXTENDS Stream, Sequences, SequenceTheorems, WellFoundedInduction,
        TLAPS

(* A remainder is a position.                                              *)
LEMMA ModRange ==
  ASSUME NEW n \in Nat \ {0}, NEW a \in Int
  PROVE  a % n \in 0 .. n - 1
OBVIOUS

(* A position is its own remainder.                                        *)
LEMMA ModSmall ==
  ASSUME NEW n \in Nat \ {0}, NEW a \in 0 .. n - 1
  PROVE  a % n = a
OBVIOUS

(* One turn past the end comes out at the start.                           *)
LEMMA ModWrap ==
  ASSUME NEW n \in Nat \ {0}, NEW a \in n .. 2 * n - 1
  PROVE  a % n = a - n
OBVIOUS

(* A position and the size of what follows it, wrapped once at most.       *)
LEMMA ModCases ==
  ASSUME NEW n \in Nat \ {0}, NEW a \in 0 .. 2 * n - 1
  PROVE  a % n = IF a < n THEN a ELSE a - n
BY ModSmall, ModWrap

(* One turn before the start comes out at the end.                         *)
LEMMA ModNegative ==
  ASSUME NEW n \in Nat \ {0}, NEW a \in -n .. -1
  PROVE  a % n = a + n
OBVIOUS

(* Division with remainder.                                                *)
LEMMA DivMod ==
  ASSUME NEW n \in Nat \ {0}, NEW a \in Int
  PROVE  a \div n \in Int /\ a = n * (a \div n) + (a % n)
OBVIOUS

(* The only multiple of n nearer to 0 than n is 0.                         *)
LEMMA SmallMultiple ==
  ASSUME NEW n \in Nat \ {0}, NEW k \in Int, n * k < n, -n < n * k
  PROVE  k = 0
<1>1. k >= 1 => n * k >= n
  OBVIOUS
<1>2. k <= -1 => n * k <= -n
  OBVIOUS
<1> QED
  BY <1>1, <1>2

(* The remainder is unique.                                                *)
LEMMA ModUnique ==
  ASSUME NEW n \in Nat \ {0}, NEW a \in Int, NEW q \in Int,
         NEW r \in 0 .. n - 1, a = n * q + r
  PROVE  a % n = r
<1> DEFINE p == a \div n
           s == a % n
<1>1. p \in Int /\ s \in 0 .. n - 1 /\ a = n * p + s
  BY DivMod, ModRange
<1> HIDE DEF p, s
<1>2. n * (q - p) = n * q - n * p
  BY <1>1
<1>3. n * (q - p) = s - r
  BY <1>1, <1>2
<1>4. q - p = 0
  BY <1>1, <1>3, SmallMultiple
<1>5. s = r
  BY <1>1, <1>3, <1>4
<1> QED
  BY <1>5 DEF s

(* Advancing a position is advancing what it is the remainder of.          *)
LEMMA ModAdd ==
  ASSUME NEW n \in Nat \ {0}, NEW a \in Int, NEW b \in Int
  PROVE  ((a % n) + b) % n = (a + b) % n
<1> DEFINE p == a \div n
           r == a % n
           q == (r + b) \div n
           s == (r + b) % n
<1>1. p \in Int /\ r \in Int /\ a = n * p + r
  BY DivMod, ModRange
<1> HIDE DEF p, r
<1>2. q \in Int /\ s \in 0 .. n - 1 /\ r + b = n * q + s
  BY <1>1, DivMod, ModRange
<1> HIDE DEF q, s
<1>3. n * (p + q) = n * p + n * q
  BY <1>1, <1>2
<1> DEFINE m == p + q
           c == a + b
<1>4. m \in Int /\ c \in Int /\ c = n * m + s
  BY <1>1, <1>2, <1>3
<1> HIDE DEF m, c
<1>5. c % n = s
  BY <1>2, <1>4, ModUnique
<1> QED
  BY <1>5 DEF c, s, r

(* A whole turn leads back to the same position.                           *)
LEMMA ModTurn ==
  ASSUME NEW n \in Nat \ {0}, NEW a \in Int
  PROVE  (n + a) % n = a % n
<1> DEFINE q == a \div n
           r == a % n
           c == n + a
           p == q + 1
<1>1. q \in Int /\ r \in 0 .. n - 1 /\ a = n * q + r
  BY DivMod, ModRange
<1> HIDE DEF q, r
<1>2. n * (q + 1) = n * q + n
  BY <1>1
<1>3. c \in Int /\ p \in Int /\ c = n * p + r
  BY <1>1, <1>2
<1> HIDE DEF c, p
<1>4. c % n = r
  BY <1>1, <1>3, ModUnique
<1> QED
  BY <1>4 DEF c, r

(* Two places fewer than n apart are different positions.                  *)
LEMMA ModDistinct ==
  ASSUME NEW n \in Nat \ {0}, NEW a \in Int, NEW b \in Int,
         a < b, b < a + n
  PROVE  a % n # b % n
<1> SUFFICES ASSUME a % n = b % n PROVE FALSE
  OBVIOUS
<1> DEFINE p == a \div n
           q == b \div n
           r == a % n
<1>1. p \in Int /\ q \in Int /\ r \in Int /\ a = n * p + r /\ b = n * q + r
  BY DivMod, ModRange
<1> HIDE DEF p, q, r
<1>2. n * (q - p) = n * q - n * p
  BY <1>1
<1>3. n * (q - p) = b - a
  BY <1>1, <1>2
<1>4. q - p = 0
  BY <1>1, <1>3, SmallMultiple
<1> QED
  BY <1>1, <1>3, <1>4

-----------------------------------------------------------------------------
(* The numbers of items stay in their cycle, ...                           *)
LEMMA AfterType ==
  ASSUME Cycle \in Nat \ {0}, NEW b \in Int, NEW i \in Int
  PROVE  After(b, i) \in 1 .. Cycle
BY ModRange DEF After

(* ... add up, ...                                                         *)
LEMMA AfterAfter ==
  ASSUME Cycle \in Nat \ {0}, NEW b \in Int, NEW i \in Int, NEW j \in Int
  PROVE  After(After(b, i), j) = After(b, i + j)
<1> DEFINE a == b - 1 + i
<1>1. a \in Int
  OBVIOUS
<1>2. ((a % Cycle) + j) % Cycle = (a + j) % Cycle
  BY <1>1, ModAdd
<1>3. a % Cycle \in Int
  BY <1>1, ModRange
<1> QED
  BY <1>2, <1>3 DEF After

(* ... and come back after a turn.                                         *)
LEMMA AfterTurn ==
  ASSUME Cycle \in Nat \ {0}, NEW b \in Int, NEW i \in Int
  PROVE  After(b, Cycle + i) = After(b, i)
<1>1. b - 1 + i \in Int
  OBVIOUS
<1>2. (Cycle + (b - 1 + i)) % Cycle = (b - 1 + i) % Cycle
  BY <1>1, ModTurn
<1>3. Cycle + (b - 1 + i) = b - 1 + (Cycle + i)
  OBVIOUS
<1> QED
  BY <1>2, <1>3 DEF After

(* Nothing after an item is the item.                                      *)
LEMMA AfterNone ==
  ASSUME Cycle \in Nat \ {0}, NEW b \in 1 .. Cycle
  PROVE  After(b, 0) = b
BY ModSmall DEF After

-----------------------------------------------------------------------------
(* Concatenations and subsequences, element by element.                    *)
LEMMA IsConcat ==
  ASSUME NEW S, NEW s \in Seq(S), NEW t \in Seq(S), NEW u \in Seq(S),
         Len(u) = Len(s) + Len(t),
         \A i \in 1 .. Len(s) : u[i] = s[i],
         \A i \in Len(s) + 1 .. Len(s) + Len(t) : u[i] = t[i - Len(s)]
  PROVE  u = s \o t
<1>1. Len(s) \in Nat /\ Len(t) \in Nat
  BY LenProperties
<1>2. /\ s \o t \in Seq(S) /\ Len(s \o t) = Len(u)
      /\ \A i \in 1 .. Len(u) : (s \o t)[i] =
                                IF i <= Len(s) THEN s[i] ELSE t[i - Len(s)]
  BY ConcatProperties
<1>3. \A i \in 1 .. Len(u) : u[i] = (s \o t)[i]
  BY <1>1, <1>2
<1> QED
  BY <1>2, <1>3, SeqEqual

(* A sequence that repeats another one shifted by n is its end.            *)
LEMMA IsSuffix ==
  ASSUME NEW S, NEW s \in Seq(S), NEW n \in Nat, n <= Len(s), NEW u \in Seq(S),
         Len(u) = Len(s) - n,
         \A i \in 1 .. Len(s) - n : u[i] = s[i + n]
  PROVE  u = SubSeq(s, n + 1, Len(s))
<1> DEFINE t == SubSeq(s, n + 1, Len(s))
<1>1. Len(s) \in Nat
  BY LenProperties
<1>2. \A i \in n + 1 .. Len(s) : s[i] \in S
  BY <1>1, ElementOfSeq
<1>3. /\ t \in Seq(S) /\ Len(t) = Len(s) - n
      /\ \A i \in 1 .. Len(s) - n : t[i] = s[i + n]
  BY <1>1, <1>2, SubSeqProperties
<1> HIDE DEF t
<1>4. u = t
  BY <1>3, SeqEqual
<1> QED
  BY <1>4 DEF t
-----------------------------------------------------------------------------
(* Induction over the naturals, for a set: what recursive functions are    *)
(* proved by.                                                              *)
LEMMA SetInduction ==
  ASSUME NEW S, 0 \in S, \A n \in Nat : n \in S => n + 1 \in S
  PROVE  Nat \subseteq S
<1> DEFINE less == {ss \in Nat \X Nat : ss[1] < ss[2]}
           T == Nat \ S
<1>1. IsWellFoundedOn(less, Nat)
  BY NatLessThanWellFounded, Zenon DEF OpToRel
<1>2. SUFFICES ASSUME T # {} PROVE FALSE
  OBVIOUS
<1>3. PICK n \in T : \A m \in T : ~ (<<m, n>> \in less)
  <2> HIDE DEF less
  <2> QED BY <1>1, <1>2, WFMin
<1>4. n # 0 /\ n \in Nat
  OBVIOUS
<1>5. n - 1 \in Nat /\ n - 1 < n /\ (n - 1) + 1 = n
  BY <1>4
<1>6. n - 1 \in T
  BY <1>5
<1>7. \A m, k \in Nat : m < k => <<m, k>> \in less
  OBVIOUS
<1>8. <<n - 1, n>> \in less
  BY <1>4, <1>5, <1>7
<1> HIDE DEF less
<1> QED
  BY <1>3, <1>6, <1>8

(* A value of V that is computed from v in a loop of n rounds, and f what   *)
(* it is after each.                                                       *)
IsLoop(n, V, v, round) == n \in Nat /\ v \in V /\ round \in [1 .. n -> [V -> V]]

Computes(f, n, V, v, round) ==
  /\ f \in [0 .. n -> V] /\ f[0] = v
  /\ \A i \in 1 .. n : f[i] = round[i][f[i - 1]]

(* A loop of n rounds has a function that gives the value after each.      *)
LEMMA Iteration ==
  ASSUME NEW n, NEW V, NEW v, NEW round, IsLoop(n, V, v, round)
  PROVE  \E f : Computes(f, n, V, v, round)
<1>0. n \in Nat /\ v \in V /\ round \in [1 .. n -> [V -> V]]
  BY DEF IsLoop
<1> DEFINE Rounds(m, f) == /\ f[0] = v
                           /\ \A i \in 1 .. m : f[i] = round[i][f[i - 1]]
           S == {m \in Nat : m <= n => \E f \in [0 .. m -> V] : Rounds(m, f)}
<1>1. 0 \in S
  <2>1. [i \in 0 .. 0 |-> v] \in [0 .. 0 -> V] /\ Rounds(0, [i \in 0 .. 0 |-> v])
    BY <1>0
  <2> QED
    BY <2>1
<1>2. ASSUME NEW m \in Nat, m \in S PROVE m + 1 \in S
  <2>1. CASE m + 1 <= n
    <3>1. PICK f \in [0 .. m -> V] : Rounds(m, f)
      <4> HIDE DEF Rounds
      <4>1. m <= n
        BY <1>0, <2>1
      <4> QED
        BY <1>2, <4>1
    <3> DEFINE g == [i \in 0 .. m + 1 |-> IF i <= m THEN f[i] ELSE round[i][f[i - 1]]]
    <3>2. \A i \in 0 .. m + 1 : i - 1 \in 0 .. m \/ i = 0
      OBVIOUS
    <3>3. \A i \in 0 .. m + 1 : g[i] \in V
      <4> TAKE i \in 0 .. m + 1
      <4>1. CASE i <= m
        BY <4>1
      <4>2. CASE i = m + 1
        <5>1. i - 1 \in 0 .. m /\ i \in 1 .. n /\ ~(i <= m)
          BY <4>2, <2>1
        <5>2. f[i - 1] \in V /\ round[i] \in [V -> V]
          BY <1>0, <5>1
        <5> QED
          BY <5>1, <5>2
      <4> QED
        BY <4>1, <4>2
    <3>4. Rounds(m + 1, g)
      <4>1. g[0] = v
        BY <3>1
      <4>2. ASSUME NEW i \in 1 .. m + 1
            PROVE  g[i] = round[i][g[i - 1]]
        <5>1. i - 1 \in 0 .. m /\ i \in 0 .. m + 1 /\ i - 1 \in 0 .. m + 1 /\ i - 1 <= m
          OBVIOUS
        <5>2. g[i - 1] = f[i - 1]
          BY <5>1
        <5>3. CASE i <= m
          BY <3>1, <5>1, <5>2, <5>3
        <5>4. CASE i = m + 1
          BY <5>1, <5>2, <5>4
        <5> QED
          BY <5>3, <5>4
      <4> QED
        BY <4>1, <4>2
    <3>5. g \in [0 .. m + 1 -> V]
      BY <3>3
    <3> HIDE DEF g
    <3> QED
      BY <3>4, <3>5
  <2> QED
    BY <2>1
<1>3. n \in S
  <2> HIDE DEF S
  <2> QED
    BY <1>0, <1>1, <1>2, SetInduction
<1> QED
  BY <1>0, <1>3 DEF Computes

(* A value that is computed from v in a loop that runs backwards, and f     *)
(* what it is before each round.                                            *)
ComputesBack(f, n, V, v, round) ==
  /\ f \in [1 .. n + 1 -> V] /\ f[n + 1] = v
  /\ \A i \in 1 .. n : f[i] = round[i][f[i + 1]]

(* A loop that runs backwards has such a function too.                     *)
LEMMA Backwards ==
  ASSUME NEW n, NEW V, NEW v, NEW round, IsLoop(n, V, v, round)
  PROVE  \E f : ComputesBack(f, n, V, v, round)
<1> DEFINE turned == [i \in 1 .. n |-> round[n + 1 - i]]
<1>1. n \in Nat /\ v \in V /\ round \in [1 .. n -> [V -> V]]
  BY DEF IsLoop
<1>2. \A i \in 1 .. n : n + 1 - i \in 1 .. n
  BY <1>1
<1>3. IsLoop(n, V, v, turned)
  BY <1>1, <1>2 DEF IsLoop
<1>4. PICK g : Computes(g, n, V, v, turned)
  <2> HIDE DEF turned
  <2> QED BY <1>3, Iteration
<1>5. /\ g \in [0 .. n -> V] /\ g[0] = v
      /\ \A i \in 1 .. n : g[i] = turned[i][g[i - 1]]
  BY <1>4 DEF Computes
<1> DEFINE f == [i \in 1 .. n + 1 |-> g[n + 1 - i]]
<1>6. f \in [1 .. n + 1 -> V]
  <2>1. \A i \in 1 .. n + 1 : n + 1 - i \in 0 .. n
    BY <1>1
  <2> QED
    BY <1>5, <2>1
<1>7. f[n + 1] = v
  <2>1. n + 1 \in 1 .. n + 1 /\ n + 1 - (n + 1) = 0
    BY <1>1
  <2> QED
    BY <1>5, <2>1
<1>8. ASSUME NEW i \in 1 .. n
      PROVE  f[i] = round[i][f[i + 1]]
  <2>1. /\ i \in 1 .. n + 1 /\ i + 1 \in 1 .. n + 1 /\ n + 1 - i \in 1 .. n
        /\ n + 1 - (n + 1 - i) = i /\ n + 1 - (i + 1) = (n + 1 - i) - 1
    BY <1>1
  <2>2. f[i] = g[n + 1 - i] /\ f[i + 1] = g[(n + 1 - i) - 1]
    BY <2>1
  <2>3. turned[n + 1 - i] = round[i]
    BY <2>1
  <2> QED
    BY <1>5, <2>1, <2>2, <2>3
<1> HIDE DEF f
<1> QED
  BY <1>6, <1>7, <1>8 DEF ComputesBack

(* Induction in an interval.                                              *)
LEMMA Climb ==
  ASSUME NEW n \in Nat, NEW S, 0 \in S, \A i \in 0 .. n - 1 : i \in S => i + 1 \in S
  PROVE  0 .. n \subseteq S
<1> DEFINE T == {i \in Nat : i <= n => i \in S}
<1>1. 0 \in T
  OBVIOUS
<1>2. \A i \in Nat : i \in T => i + 1 \in T
  <2> SUFFICES ASSUME NEW i \in Nat, i \in T, i + 1 <= n PROVE i + 1 \in S
    OBVIOUS
  <2>1. i \in 0 .. n - 1 /\ i \in S
    OBVIOUS
  <2> QED
    BY <2>1
<1>3. Nat \subseteq T
  <2> HIDE DEF T
  <2> QED
    BY <1>1, <1>2, SetInduction
<1> QED
  BY <1>3

(* The same from the end of an interval to its beginning.                  *)
LEMMA Descend ==
  ASSUME NEW n \in Nat, NEW S,
         \A j \in 1 .. n : (\A k \in j + 1 .. n : k \in S) => j \in S
  PROVE  1 .. n \subseteq S
<1> DEFINE T == {m \in Nat : \A k \in 1 .. n : k > n - m => k \in S}
<1>1. 0 \in T
  OBVIOUS
<1>2. \A m \in Nat : m \in T => m + 1 \in T
  <2> SUFFICES ASSUME NEW m \in Nat, m \in T, NEW k \in 1 .. n, k > n - (m + 1)
               PROVE  k \in S
    OBVIOUS
  <2>1. \A l \in k + 1 .. n : l \in 1 .. n /\ l > n - m
    OBVIOUS
  <2> QED
    BY <2>1
<1>3. Nat \subseteq T
  <2> HIDE DEF T
  <2> QED
    BY <1>1, <1>2, SetInduction
<1>4. n \in T
  <2> HIDE DEF T
  <2> QED
    BY <1>3
<1> QED
  BY <1>4

-----------------------------------------------------------------------------
(* The end of a sequence, that of an end, and that of a longer sequence.   *)
LEMMA SuffixProperties ==
  ASSUME NEW S, NEW s \in Seq(S), NEW r \in 1 .. Len(s) + 1
  PROVE  /\ SubSeq(s, r, Len(s)) \in Seq(S)
         /\ Len(SubSeq(s, r, Len(s))) = Len(s) - r + 1
         /\ \A i \in 1 .. Len(s) - r + 1 : SubSeq(s, r, Len(s))[i] = s[i + (r - 1)]
<1> DEFINE t == SubSeq(s, r, Len(s))
<1>1. Len(s) \in Nat
  BY LenProperties
<1>2. \A i \in r .. Len(s) : s[i] \in S
  BY <1>1, ElementOfSeq
<1>3. /\ t \in Seq(S) /\ Len(t) = IF r <= Len(s) THEN Len(s) - r + 1 ELSE 0
      /\ \A i \in 1 .. Len(s) - r + 1 : t[i] = s[r + i - 1]
  BY <1>1, <1>2, SubSeqProperties
<1> HIDE DEF t
<1>4. \A i \in 1 .. Len(s) - r + 1 : r + i - 1 = i + (r - 1)
  BY <1>1
<1> QED
  BY <1>1, <1>3, <1>4 DEF t

(* The end of an end of a sequence is an end of the sequence.              *)
LEMMA SuffixOfSuffix ==
  ASSUME NEW S, NEW s \in Seq(S), NEW r \in 1 .. Len(s) + 1,
         NEW t, t = SubSeq(s, r, Len(s)), NEW k \in 1 .. Len(t) + 1
  PROVE  SubSeq(t, k, Len(t)) = SubSeq(s, k + (r - 1), Len(s))
<1> DEFINE u == SubSeq(t, k, Len(t))
           m == k + (r - 1) - 1
<1>1. /\ Len(s) \in Nat /\ t \in Seq(S) /\ Len(t) = Len(s) - r + 1
      /\ \A i \in 1 .. Len(t) : t[i] = s[i + (r - 1)]
  <2>1. Len(s) \in Nat
    BY LenProperties
  <2> QED
    BY <2>1, SuffixProperties
<1>2. /\ u \in Seq(S) /\ Len(u) = Len(t) - k + 1
      /\ \A i \in 1 .. Len(t) - k + 1 : u[i] = t[i + (k - 1)]
  BY <1>1, SuffixProperties
<1> HIDE DEF u
<1>3. m \in Nat /\ m <= Len(s) /\ Len(u) = Len(s) - m /\ m + 1 = k + (r - 1)
  BY <1>1, <1>2
<1>4. ASSUME NEW i \in 1 .. Len(s) - m
      PROVE  u[i] = s[i + m]
  <2>1. i \in 1 .. Len(t) - k + 1 /\ i + (k - 1) \in 1 .. Len(t)
        /\ (i + (k - 1)) + (r - 1) = i + m
    BY <1>1
  <2> QED
    BY <1>1, <1>2, <2>1
<1> HIDE DEF m
<1>5. u = SubSeq(s, m + 1, Len(s))
  BY <1>2, <1>3, <1>4, IsSuffix
<1> QED
  BY <1>3, <1>5 DEF u

(* What is appended to an end is appended to the sequence.                 *)
LEMMA SuffixAppended ==
  ASSUME NEW S, NEW s \in Seq(S), NEW t \in Seq(S), NEW r \in 1 .. Len(s) + 1
  PROVE  SubSeq(s, r, Len(s)) \o t = SubSeq(s \o t, r, Len(s \o t))
<1> DEFINE e == SubSeq(s, r, Len(s))
           c == s \o t
           u == e \o t
           L == Len(s)
           M == Len(t)
<1>1. /\ L \in Nat /\ M \in Nat /\ c \in Seq(S) /\ Len(c) = L + M
      /\ \A i \in 1 .. L + M : c[i] = IF i <= L THEN s[i] ELSE t[i - L]
  BY LenProperties, ConcatProperties
<1>2. /\ e \in Seq(S) /\ Len(e) = L - r + 1
      /\ \A i \in 1 .. L - r + 1 : e[i] = s[i + (r - 1)]
  BY SuffixProperties
<1> HIDE DEF c, e
<1>3. /\ u \in Seq(S) /\ Len(u) = Len(e) + M
      /\ \A i \in 1 .. Len(e) + M : u[i] = IF i <= Len(e) THEN e[i] ELSE t[i - Len(e)]
  BY <1>2, ConcatProperties
<1> HIDE DEF u
<1> HIDE DEF L, M
<1>4. r \in Int /\ 1 <= r /\ r <= L + 1
  BY <1>1 DEF L
<1>5. ASSUME NEW i \in 1 .. (L + M) - (r - 1)
      PROVE  u[i] = c[i + (r - 1)]
  <2>0. i \in 1 .. Len(e) + M /\ i + (r - 1) \in 1 .. L + M
    BY <1>1, <1>2, <1>4
  <2>1. CASE i <= Len(e)
    <3>1. i \in 1 .. L - r + 1 /\ i + (r - 1) <= L
      BY <1>1, <1>2, <1>4, <2>1
    <3> QED
      BY <1>1, <1>2, <1>3, <2>0, <2>1, <3>1
  <2>2. CASE i > Len(e)
    <3>1. ~(i + (r - 1) <= L) /\ (i + (r - 1)) - L = i - Len(e) /\ ~(i <= Len(e))
      BY <1>1, <1>2, <1>4, <2>2
    <3> QED
      BY <1>1, <1>3, <2>0, <3>1
  <2> QED
    BY <1>1, <1>2, <1>4, <2>1, <2>2
<1>6. r - 1 \in Nat /\ r - 1 <= Len(c) /\ (r - 1) + 1 = r /\ Len(u) = Len(c) - (r - 1)
  BY <1>1, <1>2, <1>3, <1>4
<1>7. u = SubSeq(c, (r - 1) + 1, Len(c))
  BY <1>1, <1>3, <1>5, <1>6, IsSuffix
<1> QED
  BY <1>6, <1>7 DEF u, e, c
=============================================================================
