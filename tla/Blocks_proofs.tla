----------------------------- MODULE Blocks_proofs -----------------------------
(***************************************************************************)
(* Proofs about the Scicos blocks.                                         *)
(*                                                                         *)
(* PureCalls: gains and sums of the NativeInteger blocks are exact modulo  *)
(* the width, for every width and all values.                              *)
(* The lines of confparser_mux are all assignments of a configuration to   *)
(* each variable, in order; taken apart they give the assignment back.     *)
(*                                                                         *)
(* SimBlocks: the invariant SimInv of the simulations.  PlaceInv says where *)
(* a call may be and on which entry it works; the moves of Scicos are      *)
(* proved to preserve it first, each with what becomes of Kept, the entries *)
(* whose flag 5 is still to come.  Then the engines and the descriptors:   *)
(* of every one that is left there is an entry in Kept to end it.  Then    *)
(* the answers: while no call has failed every socket between two updates  *)
(* is empty, and during one it holds only what the update has asked for.   *)
(***************************************************************************)
EXTENDS PureCalls, SimBlocks, SequenceTheorems, FiniteSetTheorems, TLAPS

Lemmas == INSTANCE Modular WITH Cycle <- 1

-----------------------------------------------------------------------------
(* Wraps do not add up: only the last one counts.                          *)
LEMMA WrapType ==
  ASSUME NEW t \in DOMAIN Half, NEW a \in Int
  PROVE  Wrap(t, a) \in Int
<1>1. Half[t] \in Nat \ {0}
  BY HalfAssumption
<1> DEFINE h == Half[t]
<1> HIDE DEF h
<1>2. h \in Nat \ {0} /\ 2 * h \in Nat \ {0} /\ a + h \in Int
  BY <1>1 DEF h
<1>3. (a + h) % (2 * h) \in 0 .. 2 * h - 1
  BY <1>2, Lemmas!ModRange
<1>4. ((a + h) % (2 * h)) - h \in Int
  BY <1>2, <1>3
<1> QED
  BY <1>4 DEF Wrap, h

(* A sum may be wrapped before the last addition or not.                   *)
LEMMA WrapAdd ==
  ASSUME NEW t \in DOMAIN Half, NEW a \in Int, NEW b \in Int
  PROVE  Wrap(t, Wrap(t, a) + b) = Wrap(t, a + b) /\ Wrap(t, b + Wrap(t, a)) = Wrap(t, b + a)
<1>1. Half[t] \in Nat \ {0}
  BY HalfAssumption
<1> DEFINE h == Half[t]
           n == 2 * h
           c == a + h
           r == c % n
<1>2. h \in Nat \ {0} /\ n \in Nat \ {0} /\ c \in Int
  BY <1>1
<1>3. Wrap(t, a) = r - h /\ \A e : Wrap(t, e) = ((e + h) % n) - h
  BY DEF Wrap
<1> HIDE DEF h, n
<1>4. r \in Int /\ (r + b) % n = (c + b) % n
  <2> HIDE DEF c
  <2>1. c % n \in 0 .. n - 1 /\ ((c % n) + b) % n = (c + b) % n
    BY <1>2, Lemmas!ModRange, Lemmas!ModAdd
  <2> QED
    BY <1>2, <2>1
<1>5. c + b = (a + b) + h
  BY <1>2
<1> HIDE DEF r, c
<1>6. (r - h) + b + h = r + b /\ b + (r - h) + h = r + b /\ b + a = a + b
  BY <1>2, <1>4
<1> QED
  BY <1>3, <1>4, <1>5, <1>6

(* Every sum starts from a wrapped value.                                  *)
LEMMA WrapZero ==
  ASSUME NEW t \in DOMAIN Half
  PROVE  Wrap(t, 0) = 0
<1>1. Half[t] \in Nat \ {0}
  BY HalfAssumption
<1> DEFINE h == Half[t]
           n == 2 * h
<1>2. n \in Nat \ {0} /\ h \in 0 .. n - 1 /\ 0 + h = h
  BY <1>1
<1>3. h % n = h
  BY <1>2, Lemmas!ModSmall
<1>4. Wrap(t, 0) = ((0 + h) % n) - h
  BY DEF Wrap
<1> HIDE DEF h, n
<1> QED
  BY <1>2, <1>3, <1>4

-----------------------------------------------------------------------------
(* The sums, round by round.                                               *)
TotalOf(f, s) ==
  CHOOSE sum : sum = [n \in 0 .. s |-> IF n = 0 THEN 0 ELSE sum[n - 1] + f[n - 1]]

(* The exact sum, element by element.                                      *)
LEMMA TotalUnfolds ==
  ASSUME NEW s \in Nat, NEW f, \A n \in 0 .. s - 1 : f[n] \in Int
  PROVE  /\ Total(f, s) = TotalOf(f, s)[s]
         /\ TotalOf(f, s) \in [0 .. s -> Int] /\ TotalOf(f, s)[0] = 0
         /\ \A n \in 1 .. s : TotalOf(f, s)[n] = TotalOf(f, s)[n - 1] + f[n - 1]
<1> DEFINE round == [n \in 1 .. s |-> [x \in Int |-> x + f[n - 1]]]
           sum == TotalOf(f, s)
<1>1. \A n \in 1 .. s : f[n - 1] \in Int
  <2>1. \A n \in 1 .. s : n - 1 \in 0 .. s - 1
    OBVIOUS
  <2> QED
    BY <2>1
<1>2. round \in [1 .. s -> [Int -> Int]]
  BY <1>1
<1>3. PICK F : Lemmas!Computes(F, s, Int, 0, round)
  <2> HIDE DEF round
  <2>1. Lemmas!IsLoop(s, Int, 0, round)
    BY <1>2 DEF Lemmas!IsLoop
  <2> QED
    BY <2>1, Lemmas!Iteration
<1>4. F \in [0 .. s -> Int] /\ F[0] = 0 /\ \A n \in 1 .. s : F[n] = round[n][F[n - 1]]
  BY <1>3 DEF Lemmas!Computes
<1>5. \A n \in 1 .. s : F[n] = F[n - 1] + f[n - 1]
  <2>1. \A n \in 1 .. s : F[n - 1] \in Int
    BY <1>4
  <2> QED
    BY <1>4, <2>1
<1> HIDE DEF round
<1>6. F = [n \in 0 .. s |-> IF n = 0 THEN 0 ELSE F[n - 1] + f[n - 1]]
  BY <1>4, <1>5
<1>7. sum = [n \in 0 .. s |-> IF n = 0 THEN 0 ELSE sum[n - 1] + f[n - 1]]
  BY <1>6, Zenon DEF TotalOf
<1>8. Total(f, s) = sum[s]
  BY Zenon DEF Total, TotalOf
<1> HIDE DEF sum
<1>9. sum[0] = 0 /\ DOMAIN sum = 0 .. s /\ sum = [n \in 0 .. s |-> sum[n]]
      /\ \A n \in 1 .. s : sum[n] = sum[n - 1] + f[n - 1]
  BY <1>7
<1>10. \A n \in 0 .. s : sum[n] \in Int
  <2> DEFINE S == {n \in 0 .. s : sum[n] \in Int}
  <2>1. 0 \in S
    BY <1>9
  <2>2. \A n \in 0 .. s - 1 : n \in S => n + 1 \in S
    <3> SUFFICES ASSUME NEW n \in 0 .. s - 1, sum[n] \in Int PROVE sum[n + 1] \in Int
      OBVIOUS
    <3>1. n + 1 \in 1 .. s /\ (n + 1) - 1 = n
      OBVIOUS
    <3>2. sum[n + 1] = sum[n] + f[n]
      BY <1>9, <3>1
    <3> QED
      BY <3>2
  <2>3. 0 .. s \subseteq S
    <3> HIDE DEF S
    <3> QED
      BY <2>1, <2>2, Lemmas!Climb
  <2> QED
    BY <2>3
<1> QED
  BY <1>8, <1>9, <1>10 DEF sum

DotOf(t, mu, g, v) ==
  CHOOSE D : D = [n \in 0 .. mu |->
                    IF n = 0 THEN 0
                    ELSE Wrap(t, D[n - 1] + Wrap(t, g[n - 1] * v[n - 1]))]

(* The sum of a matrix gain, as the loop of nat_gainblk takes it.          *)
LEMMA DotUnfolds ==
  ASSUME NEW t \in DOMAIN Half, NEW mu \in Nat, NEW g, NEW v,
         \A n \in 0 .. mu - 1 : g[n] * v[n] \in Int
  PROVE  /\ Dot(t, mu, g, v) = DotOf(t, mu, g, v)[mu] /\ DotOf(t, mu, g, v)[0] = 0
         /\ \A n \in 1 .. mu : DotOf(t, mu, g, v)[n] =
              Wrap(t, DotOf(t, mu, g, v)[n - 1] + Wrap(t, g[n - 1] * v[n - 1]))
<1> DEFINE p(n) == Wrap(t, g[n - 1] * v[n - 1])
           round == [n \in 1 .. mu |-> [x \in Int |-> Wrap(t, x + p(n))]]
           D == DotOf(t, mu, g, v)
<1>1. \A n \in 1 .. mu : p(n) \in Int
  <2>1. \A n \in 1 .. mu : n - 1 \in 0 .. mu - 1
    OBVIOUS
  <2>2. \A n \in 1 .. mu : g[n - 1] * v[n - 1] \in Int
    BY <2>1
  <2> QED
    BY <2>2, WrapType
<1> HIDE DEF p
<1>2. round \in [1 .. mu -> [Int -> Int]]
  <2>1. \A n \in 1 .. mu : \A x \in Int : Wrap(t, x + p(n)) \in Int
    BY <1>1, WrapType
  <2> QED
    BY <2>1
<1>3. PICK F : Lemmas!Computes(F, mu, Int, 0, round)
  <2> HIDE DEF round
  <2>1. Lemmas!IsLoop(mu, Int, 0, round)
    BY <1>2 DEF Lemmas!IsLoop
  <2> QED
    BY <2>1, Lemmas!Iteration
<1>4. F \in [0 .. mu -> Int] /\ F[0] = 0 /\ \A n \in 1 .. mu : F[n] = round[n][F[n - 1]]
  BY <1>3 DEF Lemmas!Computes
<1>5. \A n \in 1 .. mu : F[n] = Wrap(t, F[n - 1] + p(n))
  <2>1. \A n \in 1 .. mu : F[n - 1] \in Int
    BY <1>4
  <2> QED
    BY <1>4, <2>1
<1> HIDE DEF round
<1>6. F = [n \in 0 .. mu |-> IF n = 0 THEN 0 ELSE Wrap(t, F[n - 1] + p(n))]
  BY <1>4, <1>5
<1>7. D = [n \in 0 .. mu |-> IF n = 0 THEN 0 ELSE Wrap(t, D[n - 1] + p(n))]
  BY <1>6, Zenon DEF DotOf, p
<1>8. Dot(t, mu, g, v) = D[mu]
  BY Zenon DEF Dot, DotOf
<1> HIDE DEF D
<1>9. D[0] = 0 /\ \A n \in 1 .. mu : D[n] = Wrap(t, D[n - 1] + p(n))
  BY <1>7
<1> QED
  BY <1>8, <1>9 DEF D, p

SumUpTo(t, m, sign, x) ==
  CHOOSE y : y = [n \in 0 .. m |->
                    IF n = 0 THEN 0 ELSE Step(t, y[n - 1], sign[n - 1], x[n - 1])]

(* The sum of a summation block, port by port.                             *)
LEMMA AccumulatedUnfolds ==
  ASSUME NEW t \in DOMAIN Half, NEW m \in Nat, NEW sign, NEW x,
         \A n \in 0 .. m - 1 : sign[n] \in {-1, 1} /\ x[n] \in Int
  PROVE  /\ Accumulated(t, m, sign, x) = SumUpTo(t, m, sign, x)[m]
         /\ SumUpTo(t, m, sign, x)[0] = 0
         /\ \A n \in 1 .. m : SumUpTo(t, m, sign, x)[n] =
              Step(t, SumUpTo(t, m, sign, x)[n - 1], sign[n - 1], x[n - 1])
<1> DEFINE round == [n \in 1 .. m |-> [y \in Int |-> Step(t, y, sign[n - 1], x[n - 1])]]
           Y == SumUpTo(t, m, sign, x)
<1>1. \A n \in 1 .. m : sign[n - 1] \in {-1, 1} /\ x[n - 1] \in Int
  <2>1. \A n \in 1 .. m : n - 1 \in 0 .. m - 1
    OBVIOUS
  <2> QED
    BY <2>1
<1>2. round \in [1 .. m -> [Int -> Int]]
  <2>1. \A n \in 1 .. m : \A y \in Int : Step(t, y, sign[n - 1], x[n - 1]) \in Int
    BY <1>1, WrapType DEF Step
  <2> QED
    BY <2>1
<1>3. PICK F : Lemmas!Computes(F, m, Int, 0, round)
  <2> HIDE DEF round
  <2>1. Lemmas!IsLoop(m, Int, 0, round)
    BY <1>2 DEF Lemmas!IsLoop
  <2> QED
    BY <2>1, Lemmas!Iteration
<1>4. F \in [0 .. m -> Int] /\ F[0] = 0 /\ \A n \in 1 .. m : F[n] = round[n][F[n - 1]]
  BY <1>3 DEF Lemmas!Computes
<1>5. \A n \in 1 .. m : F[n] = Step(t, F[n - 1], sign[n - 1], x[n - 1])
  <2>1. \A n \in 1 .. m : F[n - 1] \in Int
    BY <1>4
  <2> QED
    BY <1>4, <2>1
<1> HIDE DEF round
<1>6. F = [n \in 0 .. m |-> IF n = 0 THEN 0 ELSE Step(t, F[n - 1], sign[n - 1], x[n - 1])]
  BY <1>4, <1>5
<1>7. Y = [n \in 0 .. m |-> IF n = 0 THEN 0 ELSE Step(t, Y[n - 1], sign[n - 1], x[n - 1])]
  BY <1>6, Zenon DEF SumUpTo
<1>8. Accumulated(t, m, sign, x) = Y[m]
  BY Zenon DEF Accumulated, SumUpTo
<1> HIDE DEF Y
<1>9. Y[0] = 0 /\ \A n \in 1 .. m : Y[n] = Step(t, Y[n - 1], sign[n - 1], x[n - 1])
  BY <1>7
<1> QED
  BY <1>8, <1>9 DEF Y

-----------------------------------------------------------------------------
(* What the loops of the blocks compute is the exact sum, wrapped once.    *)
LEMMA DotExact ==
  ASSUME NEW t \in DOMAIN Half, NEW mu \in Nat, NEW g, NEW v,
         \A n \in 0 .. mu - 1 : g[n] * v[n] \in Int
  PROVE  Dot(t, mu, g, v) = Wrap(t, Total([n \in Row(mu) |-> g[n] * v[n]], mu))
<1> DEFINE f == [n \in Row(mu) |-> g[n] * v[n]]
           D == DotOf(t, mu, g, v)
           T == TotalOf(f, mu)
           S == {n \in 0 .. mu : D[n] = Wrap(t, T[n])}
<1>1. \A n \in 0 .. mu - 1 : f[n] \in Int /\ f[n] = g[n] * v[n]
  BY DEF Row
<1>2. /\ Dot(t, mu, g, v) = D[mu] /\ D[0] = 0
      /\ \A n \in 1 .. mu : D[n] = Wrap(t, D[n - 1] + Wrap(t, g[n - 1] * v[n - 1]))
  BY DotUnfolds
<1> HIDE DEF f, D
<1>3. /\ Total(f, mu) = T[mu] /\ T \in [0 .. mu -> Int] /\ T[0] = 0
      /\ \A n \in 1 .. mu : T[n] = T[n - 1] + f[n - 1]
  BY <1>1, TotalUnfolds
<1> HIDE DEF T
<1>4. 0 \in S
  BY <1>2, <1>3, WrapZero
<1>5. \A n \in 0 .. mu - 1 : n \in S => n + 1 \in S
  <2> SUFFICES ASSUME NEW n \in 0 .. mu - 1, D[n] = Wrap(t, T[n])
               PROVE  D[n + 1] = Wrap(t, T[n + 1])
    OBVIOUS
  <2>1. n + 1 \in 1 .. mu /\ (n + 1) - 1 = n /\ n \in 0 .. mu
    OBVIOUS
  <2> DEFINE p == f[n]
             w == Wrap(t, p)
             s == T[n]
  <2>2. D[n + 1] = Wrap(t, Wrap(t, s) + w) /\ T[n + 1] = s + p
    BY <1>1, <1>2, <1>3, <2>1
  <2>3. p \in Int /\ s \in Int
    BY <1>1, <1>3, <2>1
  <2> HIDE DEF p, s
  <2>4. w \in Int
    BY <2>3, WrapType
  <2>5. Wrap(t, s + w) = Wrap(t, s + p)
    BY <2>3, WrapAdd
  <2> HIDE DEF w
  <2>6. Wrap(t, Wrap(t, s) + w) = Wrap(t, s + w)
    BY <2>3, <2>4, WrapAdd
  <2> QED
    BY <2>2, <2>5, <2>6
<1>6. 0 .. mu \subseteq S
  <2> HIDE DEF S
  <2> QED
    BY <1>4, <1>5, Lemmas!Climb
<1>7. D[mu] = Wrap(t, T[mu])
  BY <1>6
<1> QED
  BY <1>2, <1>3, <1>7 DEF f

(* A summation that wraps at every port is the exact sum, wrapped once.    *)
LEMMA AccumulatedExact ==
  ASSUME NEW t \in DOMAIN Half, NEW m \in Nat, NEW sign, NEW x,
         \A n \in 0 .. m - 1 : sign[n] \in {-1, 1} /\ x[n] \in Int
  PROVE  Accumulated(t, m, sign, x) = Wrap(t, Total([n \in Row(m) |-> sign[n] * x[n]], m))
<1> DEFINE f == [n \in Row(m) |-> sign[n] * x[n]]
           Y == SumUpTo(t, m, sign, x)
           T == TotalOf(f, m)
           S == {n \in 0 .. m : Y[n] = Wrap(t, T[n])}
<1>0. \A n \in 0 .. m - 1 : \/ sign[n] = 1 /\ sign[n] * x[n] = x[n]
                            \/ sign[n] = -1 /\ sign[n] * x[n] = -x[n]
  <2> SUFFICES ASSUME NEW n \in 0 .. m - 1
               PROVE  \/ sign[n] = 1 /\ sign[n] * x[n] = x[n]
                      \/ sign[n] = -1 /\ sign[n] * x[n] = -x[n]
    OBVIOUS
  <2> DEFINE z == x[n]
             s == sign[n]
  <2>1. z \in Int /\ s \in {-1, 1}
    OBVIOUS
  <2> HIDE DEF z, s
  <2>2. 1 * z = z /\ (-1) * z = -z
    BY <2>1
  <2>3. \/ s = 1 /\ s * z = z
        \/ s = -1 /\ s * z = -z
    BY <2>1, <2>2
  <2> QED
    BY <2>3 DEF s, z
<1>1. \A n \in 0 .. m - 1 : f[n] \in Int /\ f[n] = sign[n] * x[n]
  BY <1>0 DEF Row
<1>2. /\ Accumulated(t, m, sign, x) = Y[m] /\ Y[0] = 0
      /\ \A n \in 1 .. m : Y[n] = Step(t, Y[n - 1], sign[n - 1], x[n - 1])
  BY AccumulatedUnfolds
<1> HIDE DEF f, Y
<1>3. /\ Total(f, m) = T[m] /\ T \in [0 .. m -> Int] /\ T[0] = 0
      /\ \A n \in 1 .. m : T[n] = T[n - 1] + f[n - 1]
  BY <1>1, TotalUnfolds
<1> HIDE DEF T
<1>4. 0 \in S
  BY <1>2, <1>3, WrapZero
<1>5. \A n \in 0 .. m - 1 : n \in S => n + 1 \in S
  <2> SUFFICES ASSUME NEW n \in 0 .. m - 1, Y[n] = Wrap(t, T[n])
               PROVE  Y[n + 1] = Wrap(t, T[n + 1])
    OBVIOUS
  <2>1. n + 1 \in 1 .. m /\ (n + 1) - 1 = n /\ n \in 0 .. m
    OBVIOUS
  <2> DEFINE p == f[n]
             s == T[n]
  <2>2. p \in Int /\ s \in Int
    BY <1>1, <1>3, <2>1
  <2>3. Y[n + 1] = Step(t, Wrap(t, s), sign[n], x[n]) /\ T[n + 1] = s + p
    BY <1>2, <1>3, <2>1
  <2>4. \/ sign[n] > 0 /\ p = x[n]
        \/ ~(sign[n] > 0) /\ p = -x[n]
    BY <1>0, <1>1
  <2> HIDE DEF p, s
  <2>5. Wrap(t, s) \in Int
    BY <2>2, WrapType
  <2>6. Step(t, Wrap(t, s), sign[n], x[n]) = Wrap(t, Wrap(t, s) + p)
    <3>1. Wrap(t, s) - x[n] = Wrap(t, s) + (-x[n])
      BY <2>5
    <3> QED
      BY <2>4, <3>1 DEF Step
  <2>7. Wrap(t, Wrap(t, s) + p) = Wrap(t, s + p)
    BY <2>2, WrapAdd
  <2> QED
    BY <2>3, <2>6, <2>7
<1>6. 0 .. m \subseteq S
  <2> HIDE DEF S
  <2> QED
    BY <1>4, <1>5, Lemmas!Climb
<1>7. Y[m] = Wrap(t, T[m])
  BY <1>6
<1> QED
  BY <1>2, <1>3, <1>7 DEF f

(* A place in a matrix that is kept column by column.                      *)
LEMMA MatrixPlace ==
  ASSUME NEW rows \in Nat \ {0}, NEW columns \in Nat \ {0},
         NEW j \in 0 .. rows - 1, NEW l \in 0 .. columns - 1
  PROVE  /\ j + l * rows \in 0 .. rows * columns - 1
         /\ (j + l * rows) % rows = j /\ (j + l * rows) \div rows = l
<1> DEFINE p == j + l * rows
           q == p \div rows
<1>1. l * rows = rows * l /\ p \in Int /\ p = rows * l + j
  OBVIOUS
<1>2. p \in 0 .. rows * columns - 1
  <2>1. rows * l <= rows * (columns - 1)
    OBVIOUS
  <2>2. rows * (columns - 1) = rows * columns - rows
    OBVIOUS
  <2>3. rows * l >= 0 /\ rows * columns \in Int
    OBVIOUS
  <2> QED
    BY <1>1, <2>1, <2>2, <2>3
<1>3. p % rows = j
  BY <1>1, Lemmas!ModUnique
<1>4. q \in Int /\ p = rows * q + (p % rows)
  BY <1>1, Lemmas!DivMod
<1> HIDE DEF p, q
<1>5. rows * (q - l) = rows * q - rows * l
  BY <1>4
<1>6. rows * (q - l) = 0
  BY <1>1, <1>3, <1>4, <1>5
<1>7. q - l = 0
  BY <1>4, <1>6, Lemmas!SmallMultiple
<1> QED
  BY <1>2, <1>3, <1>4, <1>7 DEF p, q

-----------------------------------------------------------------------------
(* The calls that are made.                                                *)
IsGain(t, mu, my, ny, opar, u) ==
  /\ t \in DOMAIN Half /\ mu \in 1 .. Size /\ my \in 1 .. Size /\ ny \in 1 .. Size
  /\ opar \in [Row(my * mu) -> Values(t)] \cup {o \in [{0} -> Values(t)] : mu = my}
  /\ u \in [Row(mu * ny) -> Values(t)]
  /\ call = [fn |-> "gain", t |-> t, opar |-> opar, u |-> u,
             mu |-> mu, my |-> my, ny |-> ny]

IsSummation(t, nin, size, ipar, ports) ==
  /\ t \in DOMAIN Half /\ nin \in 1 .. Size + 1 /\ size \in 1 .. Size
  /\ ipar \in [Row(nin) -> {-1, 1}]
  /\ ports \in [Row(nin) -> [Row(size) -> Values(t)]]
  /\ call = [fn |-> "summation", t |-> t, ipar |-> ipar, ports |-> ports, size |-> size]

IsMux(argv) == call = [fn |-> "mux", argv |-> argv] /\ argv \in Seq(Arguments)

CallInv ==
  \/ call.fn = "none"
  \/ \E t, mu, my, ny, opar, u : IsGain(t, mu, my, ny, opar, u)
  \/ \E t, nin, size, ipar, ports : IsSummation(t, nin, size, ipar, ports)
  \/ \E argv : IsMux(argv)

(* PureCalls makes a call of its own inputs, or none yet.                  *)
LEMMA CallInvariant == CallSpec => []CallInv
<1>1. CallInit => CallInv
  BY DEF CallInit, CallInv
<1>2. CallInv /\ [CallNext]_call => CallInv'
  <2> SUFFICES ASSUME CallInv, [CallNext]_call PROVE CallInv'
    OBVIOUS
  <2>1. CASE UNCHANGED call
    BY <2>1 DEF CallInv, IsGain, IsSummation, IsMux
  <2>2. CASE Gain
    <3>1. PICK t \in DOMAIN Half, mu \in 1 .. Size, my \in 1 .. Size, ny \in 1 .. Size :
            \E opar \in [Row(my * mu) -> Values(t)]
                          \cup {o \in [{0} -> Values(t)] : mu = my},
               u \in [Row(mu * ny) -> Values(t)] :
              call' = [fn |-> "gain", t |-> t, opar |-> opar, u |-> u,
                       mu |-> mu, my |-> my, ny |-> ny]
      BY <2>2, Zenon DEF Gain
    <3>2. PICK opar, u : IsGain(t, mu, my, ny, opar, u)'
      BY <3>1, Zenon DEF IsGain
    <3> QED
      BY <3>2, Zenon DEF CallInv
  <2>3. CASE Summation
    <3>1. PICK t, nin, size, ipar, ports : IsSummation(t, nin, size, ipar, ports)'
      BY <2>3, Zenon DEF Summation, IsSummation
    <3> QED
      BY <3>1, Zenon DEF CallInv
  <2>4. CASE Mux
    <3>1. PICK n \in 0 .. Size : \E argv \in [1 .. n -> Arguments] :
                                  call' = [fn |-> "mux", argv |-> argv]
      BY <2>4, Zenon DEF Mux
    <3>2. PICK argv \in [1 .. n -> Arguments] : call' = [fn |-> "mux", argv |-> argv]
      BY <3>1, Zenon
    <3>3. argv \in Seq(Arguments)
      <4>1. n \in Nat
        BY PureCallsAssumption
      <4> QED
        BY <4>1
    <3>4. IsMux(argv)'
      BY <3>2, <3>3, Zenon DEF IsMux
    <3> QED
      BY <3>4, Zenon DEF CallInv
  <2> QED
    BY <2>1, <2>2, <2>3, <2>4 DEF CallNext
<1> QED
  BY <1>1, <1>2, PTL DEF CallSpec

(* The values of a call are integers of its width.                         *)
LEMMA ValuesType == \A t \in DOMAIN Half : Values(t) \subseteq Int
<1> SUFFICES ASSUME NEW t \in DOMAIN Half PROVE Values(t) \subseteq Int
  OBVIOUS
<1>1. Values(t) \subseteq -Half[t] .. Half[t] - 1
  BY PureCallsAssumption
<1> QED
  BY <1>1

(* A matrix has a row and a column.                                        *)
LEMMA SizeType == Size \in Nat \ {0} /\ \A n \in 1 .. Size : n \in Nat \ {0}
<1>1. Size \in Nat \ {0}
  BY PureCallsAssumption
<1> QED
  BY <1>1

-----------------------------------------------------------------------------
(* A gain with a matrix, an element of the product.                        *)
Products(opar, u, mu, my, j, l) == [i \in Row(mu) |-> opar[j + i * my] * u[i + l * mu]]

IsProduct(t, mu, my, ny, opar, u) ==
  \A j \in Row(my), l \in Row(ny) :
    MatrixGain(t, opar, u, mu, my, ny)[j + l * my] =
      Wrap(t, Total(Products(opar, u, mu, my, j, l), mu))

(* Every element of a matrix gain is that of the product.                  *)
LEMMA MatrixExact ==
  ASSUME NEW t \in DOMAIN Half, NEW mu \in Nat \ {0}, NEW my \in Nat \ {0},
         NEW ny \in Nat \ {0}, NEW opar \in [Row(my * mu) -> Int],
         NEW u \in [Row(mu * ny) -> Int]
  PROVE  IsProduct(t, mu, my, ny, opar, u)
<1> SUFFICES ASSUME NEW j \in Row(my), NEW l \in Row(ny)
             PROVE  MatrixGain(t, opar, u, mu, my, ny)[j + l * my] =
                      Wrap(t, Total(Products(opar, u, mu, my, j, l), mu))
  BY DEF IsProduct
<1> DEFINE p == j + l * my
           g == [i \in Row(mu) |-> opar[j + i * my]]
           v == [i \in Row(mu) |-> u[i + l * mu]]
<1>1. p \in Row(my * ny) /\ p % my = j /\ p \div my = l
  <2>1. j \in 0 .. my - 1 /\ l \in 0 .. ny - 1
    BY DEF Row
  <2>2. p \in 0 .. my * ny - 1 /\ p % my = j /\ p \div my = l
    BY <2>1, MatrixPlace
  <2> QED
    BY <2>2, Zenon DEF Row
<1>2. MatrixGain(t, opar, u, mu, my, ny)[p] = Dot(t, mu, g, v)
  <2> DEFINE G(q) == LET jj == q % my
                         ll == q \div my
                     IN  Dot(t, mu, [i \in Row(mu) |-> opar[jj + i * my]],
                                    [i \in Row(mu) |-> u[InputIndex(i, ll, mu, my)]])
  <2>1. MatrixGain(t, opar, u, mu, my, ny) = [q \in Row(my * ny) |-> G(q)]
    BY Zenon DEF MatrixGain
  <2>2. G(p) = Dot(t, mu, g, v)
    <3> HIDE DEF p
    <3>1. \A i : InputIndex(i, l, mu, my) = i + l * mu
      BY DEF InputIndex
    <3>2. [i \in Row(mu) |-> u[InputIndex(i, l, mu, my)]] = v
      BY <3>1
    <3> QED
      BY <1>1, <3>2
  <2> HIDE DEF G, p, g, v
  <2> QED
    BY <1>1, <2>1, <2>2
<1>3. \A n \in 0 .. mu - 1 : /\ g[n] = opar[j + n * my] /\ v[n] = u[n + l * mu]
                             /\ g[n] \in Int /\ v[n] \in Int
  <2> SUFFICES ASSUME NEW n \in 0 .. mu - 1
               PROVE  /\ g[n] = opar[j + n * my] /\ v[n] = u[n + l * mu]
                      /\ g[n] \in Int /\ v[n] \in Int
    OBVIOUS
  <2>1. j + n * my \in Row(my * mu)
    BY MatrixPlace DEF Row
  <2>2. n + l * mu \in Row(mu * ny)
    BY MatrixPlace DEF Row
  <2>3. g[n] = opar[j + n * my] /\ v[n] = u[n + l * mu]
    BY DEF Row
  <2> QED
    BY <2>1, <2>2, <2>3
<1> HIDE DEF g, v
<1>4. \A n \in 0 .. mu - 1 : g[n] * v[n] \in Int
  BY <1>3
<1>5. Dot(t, mu, g, v) = Wrap(t, Total([n \in Row(mu) |-> g[n] * v[n]], mu))
  BY <1>4, DotExact
<1>6. [n \in Row(mu) |-> g[n] * v[n]] = Products(opar, u, mu, my, j, l)
  BY <1>3 DEF Row, Products
<1> QED
  BY <1>2, <1>5, <1>6


(* A gain assigns every element of its output, and the exact product       *)
(* modulo the width, but for nat_gainblk_i32n with a matrix: GainExact,    *)
(* for every width, every size and every set of values.                    *)
THEOREM GainIsExact == CallSpec => []GainExact
<1>1. CallInv => GainExact
  <2> SUFFICES ASSUME NEW t, NEW mu, NEW my, NEW ny, NEW opar, NEW u,
                      IsGain(t, mu, my, ny, opar, u)
               PROVE  GainExact
    <3>1. call.fn = "gain" /\ CallInv
            => \E t, mu, my, ny, opar, u : IsGain(t, mu, my, ny, opar, u)
      BY DEF CallInv, IsSummation, IsMux
    <3> QED
      BY <3>1, Zenon DEF GainExact
  <2> DEFINE Exact(j, l) ==
               IF DOMAIN opar = {0} THEN opar[0] * u[j + l * my]
               ELSE Total([i \in Row(mu) |-> opar[j + i * my] * u[i + l * mu]], mu)
             y == nat_gainblk(t, opar, u, mu, my, ny)
             Goal == \/ t = "i32" /\ DOMAIN opar # {0}
                     \/ /\ Assigned(t, opar, mu, my, ny) = Row(my * ny)
                        /\ \A j \in Row(my), l \in Row(ny) :
                             y[j + l * my] = Wrap(t, Exact(j, l))
  <2>1. /\ t \in DOMAIN Half /\ Values(t) \subseteq Int
        /\ mu \in Nat \ {0} /\ my \in Nat \ {0} /\ ny \in Nat \ {0}
    BY SizeType, ValuesType DEF IsGain
  <2>2. opar \in [Row(my * mu) -> Int] \/ (opar \in [{0} -> Int] /\ mu = my)
    <3>1. \/ opar \in [Row(my * mu) -> Values(t)]
          \/ opar \in {o \in [{0} -> Values(t)] : mu = my}
      BY Zenon DEF IsGain
    <3> QED
      BY <2>1, <3>1
  <2>3. u \in [Row(mu * ny) -> Int]
    BY <2>1 DEF IsGain
  <2>4. ASSUME DOMAIN opar = {0} PROVE Goal
    <3>1. mu = my /\ opar[0] \in Int
      <4>1. ASSUME opar \in [Row(my * mu) -> Int] PROVE mu = my /\ opar[0] \in Int
        <5>1. Row(my * mu) = {0}
          BY <2>4, <4>1
        <5> DEFINE n == my * mu
        <5>2. n \in Nat \ {0}
          BY <2>1
        <5>3. n = 1
          <6> HIDE DEF n
          <6>1. n - 1 \in 0 .. n - 1
            BY <5>2
          <6> QED
            BY <5>1, <5>2, <6>1 DEF Row, n
        <5>4. my = 1 /\ mu = 1
          BY <2>1, <5>3
        <5> QED
          BY <5>1, <5>4, <4>1
      <4> QED
        BY <2>2, <4>1
    <3>2. ny * mu = my * ny /\ mu * ny = my * ny
      BY <2>1, <3>1
    <3>3. Assigned(t, opar, mu, my, ny) = Row(my * ny)
      BY <2>4, <3>2 DEF Assigned
    <3>4. ASSUME NEW j \in Row(my), NEW l \in Row(ny)
          PROVE  y[j + l * my] = Wrap(t, Exact(j, l))
      <4>1. j \in 0 .. my - 1 /\ l \in 0 .. ny - 1
        BY DEF Row
      <4> DEFINE p == j + l * my
      <4>2. p \in 0 .. my * ny - 1
        BY <2>1, <4>1, MatrixPlace
      <4>3. p \in DOMAIN u
        BY <2>3, <3>2, <4>2 DEF Row
      <4>4. y = [q \in DOMAIN u |-> Wrap(t, opar[0] * u[q])]
        BY <2>4 DEF nat_gainblk, ScalarGain
      <4>5. Exact(j, l) = opar[0] * u[p]
        BY <2>4
      <4> HIDE DEF y, Exact, p
      <4>6. y[p] = Wrap(t, Exact(j, l))
        BY <4>3, <4>4, <4>5
      <4> QED
        BY <4>6 DEF p
    <3> HIDE DEF y, Exact
    <3> QED
      BY <3>3, <3>4
  <2>5. ASSUME DOMAIN opar # {0}, t # "i32" PROVE Goal
    <3>1. opar \in [Row(my * mu) -> Int]
      BY <2>2, <2>5
    <3>2. Assigned(t, opar, mu, my, ny) = Row(my * ny)
      BY <2>5 DEF Assigned
    <3>3. y = MatrixGain(t, opar, u, mu, my, ny)
      BY <2>5 DEF nat_gainblk
    <3>4. ASSUME NEW j \in Row(my), NEW l \in Row(ny)
          PROVE  y[j + l * my] = Wrap(t, Exact(j, l))
      <4>1. Exact(j, l) = Total(Products(opar, u, mu, my, j, l), mu)
        BY <2>5 DEF Products
      <4> HIDE DEF y, Exact, Goal
      <4>2. MatrixGain(t, opar, u, mu, my, ny)[j + l * my] =
              Wrap(t, Total(Products(opar, u, mu, my, j, l), mu))
        <5>1. IsProduct(t, mu, my, ny, opar, u)
          BY <2>1, <2>3, <3>1, MatrixExact
        <5> QED
          BY <5>1, Zenon DEF IsProduct
      <4> QED
        BY <3>3, <4>1, <4>2
    <3> HIDE DEF y, Exact
    <3> QED
      BY <3>2, <3>4
  <2>6. Goal
    <3>1. CASE t = "i32" /\ DOMAIN opar # {0}
      BY <3>1
    <3> HIDE DEF Goal
    <3> QED
      BY <2>4, <2>5, <3>1
  <2>7. call = [fn |-> "gain", t |-> t, opar |-> opar, u |-> u, mu |-> mu, my |-> my, ny |-> ny]
    BY DEF IsGain
  <2> QED
    BY <2>6, <2>7 DEF GainExact
<1> QED
  BY <1>1, CallInvariant, PTL


(* A sum is the exact signed sum modulo the width: SumExact, for every     *)
(* width, every number of ports and every set of values.                   *)
THEOREM SumIsExact == CallSpec => []SumExact
<1>1. CallInv => SumExact
  <2> SUFFICES ASSUME NEW t, NEW nin, NEW size, NEW ipar, NEW ports,
                      IsSummation(t, nin, size, ipar, ports)
               PROVE  SumExact
    <3>1. call.fn = "summation" /\ CallInv
            => \E t, nin, size, ipar, ports : IsSummation(t, nin, size, ipar, ports)
      BY DEF CallInv, IsGain, IsMux
    <3> QED
      BY <3>1, Zenon DEF SumExact
  <2> DEFINE y == nat_summation(t, ipar, ports, size)
             Signed(p) == [c \in Row(nin) |-> ipar[c] * ports[c][p]]
             Single == [p \in {0} |-> Wrap(t, Total(ports[0], size))]
  <2>1. t \in DOMAIN Half /\ size \in Nat \ {0} /\ nin \in Nat \ {0}
    BY SizeType DEF IsSummation
  <2>2. ipar \in [Row(nin) -> {-1, 1}] /\ ports \in [Row(nin) -> [Row(size) -> Int]]
    <3>1. Values(t) \subseteq Int
      BY <2>1, ValuesType
    <3>2. ipar \in [Row(nin) -> {-1, 1}] /\ ports \in [Row(nin) -> [Row(size) -> Values(t)]]
      BY Zenon DEF IsSummation
    <3> QED
      BY <3>1, <3>2
  <2>3. DOMAIN ports = 0 .. nin - 1 /\ 0 \in DOMAIN ports
    BY <2>1, <2>2 DEF Row
  <2>4. Cardinality(DOMAIN ports) = nin
    <3>1. nin - 1 \in Int /\ 0 <= nin - 1 /\ (nin - 1) - 0 + 1 = nin
      BY <2>1
    <3> DEFINE last == nin - 1
    <3>2. Cardinality(0 .. last) = last - 0 + 1
      <4> HIDE DEF last
      <4> QED
        BY <3>1, FS_Interval DEF last
    <3> QED
      BY <2>3, <3>1, <3>2
  <2>5. (DOMAIN ports = {0}) <=> nin = 1
    <3>1. nin # 1 => 1 \in DOMAIN ports
      BY <2>1, <2>3
    <3> QED
      BY <2>3, <3>1
  <2>6. ASSUME nin = 1 PROVE y = Single
    <3> DEFINE ones == [j \in Row(size) |-> 1]
               x == ports[0]
               f == [n \in Row(size) |-> ones[n] * x[n]]
    <3>1. x \in [Row(size) -> Int]
      BY <2>2, <2>3
    <3> HIDE DEF x
    <3>2. \A n \in 0 .. size - 1 : ones[n] \in {-1, 1} /\ x[n] \in Int
      BY <3>1 DEF Row
    <3>3. f = x
      <4>1. \A n \in Row(size) : x[n] \in Int /\ ones[n] * x[n] = x[n]
        BY <3>1
      <4> HIDE DEF ones
      <4> QED
        BY <3>1, <4>1
    <3>4. y = [p \in {0} |-> Accumulated(t, size, ones, x)]
      BY <2>5, <2>6 DEF nat_summation, x
    <3> HIDE DEF ones, y
    <3>5. Accumulated(t, size, ones, x) = Wrap(t, Total(f, size))
      BY <2>1, <3>2, AccumulatedExact
    <3> HIDE DEF f
    <3> QED
      BY <3>3, <3>4, <3>5 DEF x
  <2>7. ASSUME nin # 1, NEW p \in Row(size)
        PROVE  y[p] = Wrap(t, Total(Signed(p), nin))
    <3> DEFINE x == [c \in DOMAIN ports |-> ports[c][p]]
               f == [n \in Row(nin) |-> ipar[n] * x[n]]
    <3>1. y[p] = Accumulated(t, nin, ipar, x)
      BY <2>4, <2>5, <2>7 DEF nat_summation
    <3>2. \A n \in 0 .. nin - 1 : ipar[n] \in {-1, 1} /\ x[n] \in Int /\ x[n] = ports[n][p]
      BY <2>2, <2>3 DEF Row
    <3> HIDE DEF x, y
    <3>3. Accumulated(t, nin, ipar, x) = Wrap(t, Total(f, nin))
      BY <2>1, <3>2, AccumulatedExact
    <3>4. f = Signed(p)
      BY <3>2 DEF Row
    <3> HIDE DEF f, Signed
    <3> QED
      BY <3>1, <3>3, <3>4
  <2>8. call = [fn |-> "summation", t |-> t, ipar |-> ipar, ports |-> ports, size |-> size]
    BY DEF IsSummation
  <2> HIDE DEF y, Single, Signed
  <2>9. IF nin = 1 THEN y = Single
        ELSE \A p \in Row(size) : y[p] = Wrap(t, Total(Signed(p), nin))
    BY <2>6, <2>7
  <2> QED
    BY <2>4, <2>8, <2>9 DEF SumExact, y, Single, Signed
<1> QED
  BY <1>1, CallInvariant, PTL

-----------------------------------------------------------------------------
(* Strings: sequences of characters.                                       *)
Char == STRING \cup Alnum \cup {"_", "=", ",", " "}
String == Seq(Char)

(* What separates words are characters, and not those of words.            *)
LEMMA Separators ==
  /\ "_" \in Char /\ "=" \in Char /\ "," \in Char /\ " " \in Char
  /\ "_" \notin Alnum /\ "=" \notin Alnum /\ "," \notin Alnum
  /\ \A s \in Seq(Alnum) : s \in String
<1>2. "_" \notin Alnum /\ "=" \notin Alnum /\ "," \notin Alnum
  BY AlnumAssumption
<1>3. \A s \in Seq(Alnum) : s \in String
  BY SeqMonotonic DEF Char, String
<1> QED
  BY <1>2, <1>3 DEF Char

(* A function on the numbers from 1 on is a sequence.                      *)
LEMMA IsSequence ==
  ASSUME NEW S, NEW n \in Nat, NEW f, f \in [1 .. n -> S]
  PROVE  f \in Seq(S) /\ Len(f) = n /\ DOMAIN f = 1 .. n
OBVIOUS

(* One character is a string.                                              *)
LEMMA OneChar ==
  ASSUME NEW S, NEW c \in S
  PROVE  <<c>> \in Seq(S) /\ Len(<<c>>) = 1 /\ <<c>>[1] = c
OBVIOUS

(* A string, a separator, another string.                                  *)
LEMMA Separated ==
  ASSUME NEW S, NEW s \in Seq(S), NEW c \in S, NEW t \in Seq(S)
  PROVE  /\ s \o <<c>> \o t \in Seq(S)
         /\ Len(s \o <<c>> \o t) = Len(s) + 1 + Len(t)
         /\ \A p \in 1 .. Len(s) : (s \o <<c>> \o t)[p] = s[p]
         /\ (s \o <<c>> \o t)[Len(s) + 1] = c
         /\ \A p \in 1 .. Len(t) : (s \o <<c>> \o t)[Len(s) + 1 + p] = t[p]
<1> DEFINE u == s \o <<c>>
<1>1. Len(s) \in Nat /\ Len(t) \in Nat
  BY LenProperties
<1>2. <<c>> \in Seq(S) /\ Len(<<c>>) = 1 /\ <<c>>[1] = c
  BY OneChar
<1>3. /\ u \in Seq(S) /\ Len(u) = Len(s) + 1
      /\ \A i \in 1 .. Len(s) + 1 : u[i] = IF i <= Len(s) THEN s[i] ELSE <<c>>[i - Len(s)]
  BY <1>2, ConcatProperties
<1> HIDE DEF u
<1>4. /\ u \o t \in Seq(S) /\ Len(u \o t) = Len(u) + Len(t)
      /\ \A i \in 1 .. Len(u) + Len(t) : (u \o t)[i] = IF i <= Len(u) THEN u[i] ELSE t[i - Len(u)]
  <2>1. u \in Seq(S)
    BY <1>3, Zenon
  <2> QED
    BY <2>1, ConcatProperties, Zenon
<1>5. \A p \in 1 .. Len(s) : (u \o t)[p] = s[p]
  BY <1>1, <1>3, <1>4
<1>6. (u \o t)[Len(s) + 1] = c
  <2>1. Len(s) + 1 \in 1 .. Len(u) + Len(t) /\ (Len(s) + 1) - Len(s) = 1
        /\ ~(Len(s) + 1 <= Len(s))
    BY <1>1, <1>3
  <2> QED
    BY <1>2, <1>3, <1>4, <2>1
<1>7. \A p \in 1 .. Len(t) : (u \o t)[Len(s) + 1 + p] = t[p]
  <2> TAKE p \in 1 .. Len(t)
  <2>1. Len(s) + 1 + p \in 1 .. Len(u) + Len(t) /\ (Len(s) + 1 + p) - Len(u) = p
        /\ ~(Len(s) + 1 + p <= Len(u))
    BY <1>1, <1>3
  <2> QED
    BY <1>4, <2>1
<1> QED
  BY <1>3, <1>4, <1>5, <1>6, <1>7 DEF u

-----------------------------------------------------------------------------
(* Words joined by a separator.                                            *)
JoinedFrom(sep, words) ==
  CHOOSE from : from = [n \in 1 .. Len(words) |->
                          IF n = Len(words) THEN words[n]
                          ELSE words[n] \o <<sep>> \o from[n + 1]]

(* They are joined from the last one on, each put before what follows it.  *)
LEMMA JoinedUnfolds ==
  ASSUME NEW sep \in Char, NEW words \in Seq(String), words # <<>>
  PROVE  /\ Len(words) \in Nat \ {0}
         /\ Joined(sep, words) = JoinedFrom(sep, words)[1]
         /\ \A n \in 1 .. Len(words) : words[n] \in String /\ JoinedFrom(sep, words)[n] \in String
         /\ JoinedFrom(sep, words)[Len(words)] = words[Len(words)]
         /\ \A n \in 1 .. Len(words) - 1 :
              JoinedFrom(sep, words)[n] = words[n] \o <<sep>> \o JoinedFrom(sep, words)[n + 1]
<1> DEFINE N == Len(words)
           round == [n \in 1 .. N - 1 |-> [s \in String |-> words[n] \o <<sep>> \o s]]
           J == JoinedFrom(sep, words)
<1>1. N \in Nat \ {0} /\ \A n \in 1 .. N : words[n] \in String
  BY LenProperties, ElementOfSeq
<1>2. J = [n \in 1 .. N |-> IF n = N THEN words[n] ELSE words[n] \o <<sep>> \o J[n + 1]]
  <2>1. round \in [1 .. N - 1 -> [String -> String]]
    <3>1. \A n \in 1 .. N - 1 : n \in 1 .. N
      BY <1>1
    <3>2. \A n \in 1 .. N - 1 : \A s \in String : words[n] \o <<sep>> \o s \in String
      BY <1>1, <3>1, Separated DEF String
    <3> QED
      BY <3>2
  <2>2. PICK F : Lemmas!ComputesBack(F, N - 1, String, words[N], round)
    <3> HIDE DEF round
    <3>1. Lemmas!IsLoop(N - 1, String, words[N], round)
      <4>1. N - 1 \in Nat /\ words[N] \in String
        BY <1>1
      <4> QED
        BY <2>1, <4>1 DEF Lemmas!IsLoop
    <3> QED
      BY <3>1, Lemmas!Backwards
  <2>3. /\ F \in [1 .. (N - 1) + 1 -> String] /\ F[(N - 1) + 1] = words[N]
        /\ \A n \in 1 .. N - 1 : F[n] = round[n][F[n + 1]]
    BY <2>2 DEF Lemmas!ComputesBack
  <2>4. (N - 1) + 1 = N /\ \A n \in 1 .. N : n # N => n \in 1 .. N - 1 /\ n + 1 \in 1 .. N
    BY <1>1
  <2>5. \A n \in 1 .. N - 1 : F[n] = words[n] \o <<sep>> \o F[n + 1]
    <3> TAKE n \in 1 .. N - 1
    <3>1. F[n + 1] \in String
      <4>1. n + 1 \in 1 .. (N - 1) + 1
        BY <1>1
      <4> QED
        BY <2>3, <4>1
    <3>2. round[n] = [s \in String |-> words[n] \o <<sep>> \o s]
      OBVIOUS
    <3>3. round[n][F[n + 1]] = words[n] \o <<sep>> \o F[n + 1]
      <4> HIDE DEF round
      <4> QED BY <3>1, <3>2
    <3> HIDE DEF round
    <3> QED
      BY <2>3, <3>3
  <2> HIDE DEF round, N
  <2>6. F = [n \in 1 .. N |-> IF n = N THEN words[n] ELSE words[n] \o <<sep>> \o F[n + 1]]
    BY <2>3, <2>4, <2>5
  <2> QED
    BY <2>6, Zenon DEF JoinedFrom, N
<1>3. Joined(sep, words) = J[1]
  BY Zenon DEF Joined, JoinedFrom
<1> HIDE DEF J
<1>4. J[N] = words[N] /\ \A n \in 1 .. N - 1 : J[n] = words[n] \o <<sep>> \o J[n + 1]
  <2>1. N \in 1 .. N /\ \A n \in 1 .. N - 1 : n \in 1 .. N /\ n # N
    BY <1>1
  <2> HIDE DEF N
  <2> QED
    BY <1>2, <2>1
<1>5. \A n \in 1 .. N : J[n] \in String
  <2> DEFINE S == {n \in 1 .. N : J[n] \in String}
  <2>1. ASSUME NEW n \in 1 .. N, \A m \in n + 1 .. N : m \in S
        PROVE  n \in S
    <3>1. CASE n = N
      BY <1>1, <1>4, <3>1
    <3>2. CASE n # N
      <4>1. n \in 1 .. N - 1 /\ n + 1 \in n + 1 .. N /\ n \in 1 .. N
        BY <1>1, <3>2
      <4>2. J[n + 1] \in String /\ words[n] \in String
        BY <1>1, <2>1, <4>1
      <4>3. J[n] = words[n] \o <<sep>> \o J[n + 1]
        BY <1>4, <4>1
      <4>4. words[n] \o <<sep>> \o J[n + 1] \in String
        BY <4>2, Separated DEF String
      <4> QED
        BY <4>1, <4>3, <4>4
    <3> QED
      BY <3>1, <3>2
  <2>2. 1 .. N \subseteq S
    <3> HIDE DEF S
    <3> QED
      BY <1>1, <2>1, Lemmas!Descend
  <2> QED
    BY <2>2
<1> QED
  BY <1>1, <1>3, <1>4, <1>5 DEF J, N

(* Strings put together are a string, whatever the order.                  *)
LEMMA StringsJoin ==
  ASSUME NEW s \in String, NEW t \in String
  PROVE  s \o t \in String
BY ConcatProperties, Zenon DEF String

LEMMA StringsAssociate ==
  ASSUME NEW s \in String, NEW t \in String, NEW u \in String
  PROVE  s \o (t \o u) = (s \o t) \o u
<1>1. s \in Seq(Char) /\ t \in Seq(Char) /\ u \in Seq(Char)
  BY DEF String
<1>2. (s \o t) \o u = s \o (t \o u)
  BY <1>1, ConcatAssociative, SMTT(20)
<1> QED
  BY <1>2, Zenon

(* What stands before a word and what follows it may be put together first. *)
Regroups(s, p, t, q, u) == s \o p \o (t \o q \o u) = (s \o p \o t) \o q \o u

LEMMA SeparatedTwice ==
  ASSUME NEW s \in String, NEW p \in String, NEW t \in String, NEW q \in String, NEW u \in String
  PROVE  Regroups(s, p, t, q, u)
<1> DEFINE cat(x, y) == x \o y
           a == cat(s, p)
           b == cat(t, q)
<1>1. \A x \in String, y \in String : cat(x, y) \in String
  BY StringsJoin
<1>2. \A x \in String, y \in String, z \in String : cat(x, cat(y, z)) = cat(cat(x, y), z)
  BY StringsAssociate
<1> HIDE DEF cat
<1>3. a \in String /\ b \in String
  BY <1>1
<1>4. cat(a, cat(b, u)) = cat(cat(a, b), u) /\ cat(a, b) = cat(cat(a, t), q)
  BY <1>2, <1>3
<1> QED
  BY <1>4, Zenon DEF cat, Regroups

(* One word more.                                                          *)
LEMMA JoinedAppend ==
  ASSUME NEW sep \in Char, NEW w \in Seq(String), w # <<>>, NEW x \in String
  PROVE  Joined(sep, Append(w, x)) = Joined(sep, w) \o <<sep>> \o x
<1> DEFINE v == Append(w, x)
           N == Len(w)
           J == JoinedFrom(sep, w)
           K == JoinedFrom(sep, v)
<1>1. /\ v \in Seq(String) /\ v # <<>> /\ Len(v) = N + 1 /\ v[N + 1] = x
      /\ \A n \in 1 .. N : v[n] = w[n]
  BY AppendProperties
<1> HIDE DEF v
<1>2. /\ N \in Nat \ {0} /\ Joined(sep, w) = J[1] /\ J[N] = w[N]
      /\ \A n \in 1 .. N : w[n] \in String /\ J[n] \in String
      /\ \A n \in 1 .. N - 1 : J[n] = w[n] \o <<sep>> \o J[n + 1]
  BY JoinedUnfolds
<1>3. /\ Joined(sep, v) = K[1] /\ K[N + 1] = x
      /\ \A n \in 1 .. N : K[n] = w[n] \o <<sep>> \o K[n + 1]
  <2>1. /\ Joined(sep, v) = K[1] /\ K[Len(v)] = v[Len(v)]
        /\ \A n \in 1 .. Len(v) - 1 : K[n] = v[n] \o <<sep>> \o K[n + 1]
    BY <1>1, JoinedUnfolds
  <2>2. Len(v) - 1 = N
    BY <1>1, <1>2
  <2> HIDE DEF K, N
  <2> QED
    BY <1>1, <2>1, <2>2
<1> HIDE DEF J, K, N
<1> DEFINE S == {n \in 1 .. N : K[n] = J[n] \o <<sep>> \o x}
<1>4. ASSUME NEW n \in 1 .. N, \A m \in n + 1 .. N : m \in S
      PROVE  n \in S
  <2>1. CASE n = N
    BY <1>2, <1>3, <2>1
  <2>2. CASE n # N
    <3>1. n \in 1 .. N - 1 /\ n + 1 \in n + 1 .. N /\ n + 1 \in 1 .. N
      BY <1>2, <2>2
    <3>2. K[n] = w[n] \o <<sep>> \o (J[n + 1] \o <<sep>> \o x)
      BY <1>3, <1>4, <3>1
    <3>3. w[n] \in String /\ J[n + 1] \in String
      BY <1>2, <3>1
    <3>4. K[n] = (w[n] \o <<sep>> \o J[n + 1]) \o <<sep>> \o x
      <4> DEFINE y == w[n]
                 z == J[n + 1]
      <4>1. y \in String /\ z \in String /\ <<sep>> \in String
        BY <3>3, OneChar DEF String
      <4> HIDE DEF y, z, S
      <4>2. Regroups(y, <<sep>>, z, <<sep>>, x)
        BY <4>1, SeparatedTwice
      <4> QED
        BY <3>2, <4>2, Zenon DEF y, z, Regroups
    <3> QED
      BY <1>2, <3>1, <3>4
  <2> QED
    BY <2>1, <2>2
<1>5. 1 .. N \subseteq S
  <2> HIDE DEF S
  <2> QED
    BY <1>2, <1>4, Lemmas!Descend
<1>6. 1 \in 1 .. N
  BY <1>2
<1> QED
  BY <1>2, <1>3, <1>5, <1>6 DEF v

(* A longer last word.                                                     *)
LEMMA JoinedExtended ==
  ASSUME NEW sep \in Char, NEW w \in Seq(String), w # <<>>, NEW v \in Seq(String),
         Len(v) = Len(w), NEW t \in String, v[Len(w)] = w[Len(w)] \o t,
         \A n \in 1 .. Len(w) - 1 : v[n] = w[n]
  PROVE  Joined(sep, v) = Joined(sep, w) \o t
<1> DEFINE N == Len(w)
           J == JoinedFrom(sep, w)
           K == JoinedFrom(sep, v)
<1>1. /\ N \in Nat \ {0} /\ Joined(sep, w) = J[1] /\ J[N] = w[N]
      /\ \A n \in 1 .. N : w[n] \in String /\ J[n] \in String
      /\ \A n \in 1 .. N - 1 : J[n] = w[n] \o <<sep>> \o J[n + 1]
  BY JoinedUnfolds
<1>2. v # <<>>
  BY <1>1
<1>3. /\ Joined(sep, v) = K[1] /\ K[N] = w[N] \o t
      /\ \A n \in 1 .. N - 1 : K[n] = w[n] \o <<sep>> \o K[n + 1]
  <2>1. /\ Joined(sep, v) = K[1] /\ K[N] = v[N]
        /\ \A n \in 1 .. N - 1 : K[n] = v[n] \o <<sep>> \o K[n + 1]
    BY <1>2, JoinedUnfolds
  <2> HIDE DEF K
  <2> QED
    BY <2>1
<1> HIDE DEF J, K, N
<1> DEFINE S == {n \in 1 .. N : K[n] = J[n] \o t}
<1>4. ASSUME NEW n \in 1 .. N, \A m \in n + 1 .. N : m \in S
      PROVE  n \in S
  <2>1. CASE n = N
    BY <1>1, <1>3, <2>1
  <2>2. CASE n # N
    <3>1. n \in 1 .. N - 1 /\ n + 1 \in n + 1 .. N /\ n + 1 \in 1 .. N
      BY <1>1, <2>2
    <3>2. K[n] = w[n] \o <<sep>> \o (J[n + 1] \o t)
      BY <1>3, <1>4, <3>1
    <3>3. w[n] \in String /\ J[n + 1] \in String
      BY <1>1, <3>1
    <3>4. w[n] \o <<sep>> \in String
      BY <3>3, OneChar, ConcatProperties DEF String
    <3>5. w[n] \o <<sep>> \o (J[n + 1] \o t) = (w[n] \o <<sep>> \o J[n + 1]) \o t
      <4> DEFINE y == w[n] \o <<sep>>
                 z == J[n + 1]
      <4>1. y \in String /\ z \in String
        BY <3>3, <3>4
      <4> HIDE DEF y, z, S
      <4>2. y \o (z \o t) = (y \o z) \o t
        BY <4>1, StringsAssociate
      <4> QED
        BY <4>2, Zenon DEF y, z
    <3> QED
      BY <1>1, <3>1, <3>2, <3>5
  <2> QED
    BY <2>1, <2>2
<1>5. 1 .. N \subseteq S
  <2> HIDE DEF S
  <2> QED
    BY <1>1, <1>4, Lemmas!Descend
<1>6. 1 \in 1 .. N
  BY <1>1
<1> QED
  BY <1>1, <1>3, <1>5, <1>6

-----------------------------------------------------------------------------
(* The configurations of a variable.                                       *)
Listed == Alnum \cup {","}
Parts  == Seq(Seq(Alnum)) \ {<<>>}

NextPart(x, c) == IF c = "," THEN Append(x, <<>>)
                  ELSE Front(x) \o << Append(Last(x), c) >>

CutAt(s) ==
  CHOOSE last : last = [n \in 0 .. Len(s) |->
                          IF n = 0 THEN << <<>> >> ELSE NextPart(last[n - 1], s[n])]

(* Another comma, or another character of the last part.                   *)
LEMMA NextPartJoins ==
  ASSUME NEW x \in Parts, NEW c \in Listed
  PROVE  /\ NextPart(x, c) \in Parts
         /\ Joined(",", NextPart(x, c)) = Append(Joined(",", x), c)
<1> DEFINE N == Len(x)
<1>1. /\ x \in Seq(Seq(Alnum)) /\ x # <<>> /\ N \in Nat \ {0}
      /\ \A n \in 1 .. N : x[n] \in Seq(Alnum)
  BY LenProperties, ElementOfSeq DEF Parts
<1>2. x \in Seq(String) /\ "," \in Char /\ c \in Char /\ <<>> \in Seq(Alnum) /\ <<>> \in String
  <2>1. Seq(Alnum) \subseteq String
    BY Separators
  <2>2. c \in Char
    BY DEF Listed, Char
  <2>3. <<>> \in Seq(Alnum)
    OBVIOUS
  <2>4. x \in Seq(String)
    BY <1>1, <2>1, SeqMonotonic
  <2> QED
    BY <2>1, <2>2, <2>3, <2>4, Separators
<1>3. Joined(",", x) \in String
  <2>1. /\ Joined(",", x) = JoinedFrom(",", x)[1]
        /\ \A n \in 1 .. Len(x) : JoinedFrom(",", x)[n] \in String
    BY <1>1, <1>2, JoinedUnfolds
  <2>2. 1 \in 1 .. Len(x)
    BY <1>1
  <2> QED
    BY <2>1, <2>2
<1>4. CASE c = ","
  <2>1. NextPart(x, c) = Append(x, <<>>)
    BY <1>4 DEF NextPart
  <2>2. Append(x, <<>>) \in Parts
    <3>1. /\ Append(x, <<>>) \in Seq(Seq(Alnum))
          /\ Append(x, <<>>) # <<>>
      <4>1. x \in Seq(Seq(Alnum)) /\ <<>> \in Seq(Alnum)
        BY <1>1, <1>2
      <4> QED
        BY <4>1, AppendProperties
    <3> QED
      BY <3>1 DEF Parts
  <2>3. Joined(",", Append(x, <<>>)) = Joined(",", x) \o <<",">> \o <<>>
    BY <1>1, <1>2, JoinedAppend
  <2>4. Joined(",", x) \o <<",">> \o <<>> = Append(Joined(",", x), ",")
    <3> DEFINE s == Joined(",", x)
    <3> HIDE DEF s
    <3>1. s \in Seq(Char) /\ "," \in Char
      BY <1>2, <1>3 DEF s, String
    <3>2. s \o <<",">> \in Seq(Char) /\ s \o <<",">> = Append(s, ",")
      BY <3>1, OneChar, ConcatProperties, AppendIsConcat
    <3>3. (s \o <<",">>) \o <<>> = s \o <<",">>
      BY <3>2, ConcatEmptySeq
    <3> QED
      BY <3>2, <3>3 DEF s
  <2> QED
    BY <1>4, <2>1, <2>2, <2>3, <2>4
<1>5. CASE c # ","
  <2> DEFINE y == Append(x[N], c)
             f == SubSeq(x, 1, N - 1)
             v == f \o <<y>>
  <2>1. NextPart(x, c) = v
    BY <1>5 DEF NextPart, Front, Last
  <2>2. c \in Alnum /\ x[N] \in Seq(Alnum) /\ y \in Seq(Alnum) /\ y = x[N] \o <<c>>
    <3>1. c \in Alnum
      BY <1>5 DEF Listed
    <3>2. N \in 1 .. N
      BY <1>1
    <3>3. x[N] \in Seq(Alnum)
      BY <1>1, <3>2
    <3> QED
      BY <3>1, <3>3, AppendProperties, AppendIsConcat
  <2> HIDE DEF y
  <2>3. f \in Seq(Seq(Alnum)) /\ Len(f) = N - 1 /\ \A n \in 1 .. N - 1 : f[n] = x[n]
    <3>1. \A n \in 1 .. N - 1 : x[n] \in Seq(Alnum)
      BY <1>1
    <3>2. /\ f \in Seq(Seq(Alnum)) /\ Len(f) = IF 1 <= N - 1 THEN (N - 1) - 1 + 1 ELSE 0
          /\ \A n \in 1 .. (N - 1) - 1 + 1 : f[n] = x[1 + n - 1]
      <4>1. N - 1 \in Int
        BY <1>1
      <4> QED
        BY <3>1, <4>1, SubSeqProperties
    <3>3. \A n \in 1 .. N - 1 : 1 + n - 1 = n /\ n \in 1 .. (N - 1) - 1 + 1
      BY <1>1
    <3>4. Len(f) = N - 1
      <4>0. N \in Nat \ {0}
        BY <1>1
      <4> HIDE DEF f, N, v
      <4>1. ~(1 <= N - 1) => N - 1 = 0
        BY <4>0
      <4>2. (N - 1) - 1 + 1 = N - 1
        BY <4>0
      <4> HIDE DEF f, N
      <4> QED
        BY <3>2, <4>1, <4>2
    <3> HIDE DEF f, N
    <3> QED
      BY <3>2, <3>3, <3>4
  <2> HIDE DEF f
  <2>4. /\ v \in Seq(Seq(Alnum)) /\ Len(v) = N /\ v[N] = y
        /\ \A n \in 1 .. N - 1 : v[n] = x[n]
    <3>1. <<y>> \in Seq(Seq(Alnum)) /\ Len(<<y>>) = 1 /\ <<y>>[1] = y
      BY <2>2, OneChar
    <3>2. /\ v \in Seq(Seq(Alnum)) /\ Len(v) = (N - 1) + 1
          /\ \A i \in 1 .. (N - 1) + 1 : v[i] = IF i <= N - 1 THEN f[i] ELSE <<y>>[i - (N - 1)]
      BY <2>3, <3>1, ConcatProperties
    <3> HIDE DEF v
    <3>3. (N - 1) + 1 = N /\ N - (N - 1) = 1 /\ N \in 1 .. N /\ ~(N <= N - 1)
          /\ \A n \in 1 .. N - 1 : n \in 1 .. N /\ n <= N - 1
      BY <1>1
    <3> QED
      BY <2>3, <3>1, <3>2, <3>3
  <2> HIDE DEF v
  <2>5. v \in Parts
    BY <1>1, <2>4 DEF Parts
  <2>6. v \in Seq(String) /\ <<c>> \in String
    <3>1. Seq(Alnum) \subseteq String
      BY Separators
    <3>2. v \in Seq(String)
      BY <2>4, <3>1, SeqMonotonic
    <3>3. <<c>> \in String
      BY <1>2, OneChar DEF String
    <3> QED
      BY <3>2, <3>3
  <2>7. Joined(",", v) = Joined(",", x) \o <<c>>
    <3>1. x \in Seq(String) /\ x # <<>> /\ v \in Seq(String) /\ <<c>> \in String /\ "," \in Char
      BY <1>1, <1>2, <2>6
    <3>2. Len(v) = Len(x) /\ v[Len(x)] = x[Len(x)] \o <<c>>
      BY <2>2, <2>4
    <3>3. \A n \in 1 .. Len(x) - 1 : v[n] = x[n]
      BY <2>4
    <3> QED
      BY <3>1, <3>2, <3>3, JoinedExtended
  <2>8. Joined(",", x) \o <<c>> = Append(Joined(",", x), c)
    BY <1>2, <1>3, AppendIsConcat DEF String
  <2> QED
    BY <2>1, <2>5, <2>7, <2>8
<1> QED
  BY <1>4, <1>5

(* The parts joined by commas are the text that was cut.                   *)
LEMMA CutJoins ==
  ASSUME NEW s \in Seq(Listed)
  PROVE  Cut(s) \in Parts /\ Joined(",", Cut(s)) = s
<1> DEFINE L == Len(s)
           last == CutAt(s)
           round == [n \in 1 .. L |-> [x \in Parts |-> NextPart(x, s[n])]]
<1>1. L \in Nat /\ \A n \in 1 .. L : s[n] \in Listed
  BY LenProperties, ElementOfSeq
<1>2. << <<>> >> \in Parts
  <2>1. <<>> \in Seq(Alnum)
    OBVIOUS
  <2>2. << <<>> >> \in Seq(Seq(Alnum)) /\ Len(<< <<>> >>) = 1
    BY <2>1, OneChar
  <2> QED
    BY <2>2 DEF Parts
<1>3. last = [n \in 0 .. L |-> IF n = 0 THEN << <<>> >> ELSE NextPart(last[n - 1], s[n])]
  <2>1. round \in [1 .. L -> [Parts -> Parts]]
    <3>1. \A n \in 1 .. L : \A x \in Parts : NextPart(x, s[n]) \in Parts
      BY <1>1, NextPartJoins
    <3> QED
      BY <3>1
  <2>2. PICK F : Lemmas!Computes(F, L, Parts, << <<>> >>, round)
    <3> HIDE DEF round
    <3>1. Lemmas!IsLoop(L, Parts, << <<>> >>, round)
      BY <1>1, <1>2, <2>1 DEF Lemmas!IsLoop
    <3> QED
      BY <3>1, Lemmas!Iteration
  <2>3. /\ F \in [0 .. L -> Parts] /\ F[0] = << <<>> >>
        /\ \A n \in 1 .. L : F[n] = round[n][F[n - 1]]
    BY <2>2 DEF Lemmas!Computes
  <2>4. ASSUME NEW n \in 1 .. L
        PROVE  F[n] = NextPart(F[n - 1], s[n])
    <3>1. F[n - 1] \in Parts
      <4>1. n - 1 \in 0 .. L
        BY <1>1
      <4> QED
        BY <2>3, <4>1
    <3>2. round[n] = [x \in Parts |-> NextPart(x, s[n])]
      OBVIOUS
    <3> HIDE DEF round
    <3> QED
      BY <2>3, <3>1, <3>2
  <2>5. \A n \in 0 .. L : n # 0 => n \in 1 .. L
    BY <1>1
  <2>6. F = [n \in 0 .. L |-> IF n = 0 THEN << <<>> >> ELSE NextPart(F[n - 1], s[n])]
    <3> HIDE DEF L, round
    <3> QED
      BY <2>3, <2>4, <2>5
  <2> QED
    BY <2>6, Zenon DEF CutAt
<1>4. Cut(s) = last[L]
  BY Zenon DEF Cut, CutAt, NextPart
<1> HIDE DEF last
<1>5. last[0] = << <<>> >> /\ \A n \in 1 .. L : last[n] = NextPart(last[n - 1], s[n])
  <2>1. 0 \in 0 .. L /\ \A n \in 1 .. L : n \in 0 .. L /\ n # 0
    BY <1>1
  <2> HIDE DEF L
  <2> QED
    BY <1>3, <2>1
<1> DEFINE S == {n \in 0 .. L : last[n] \in Parts /\ Joined(",", last[n]) = SubSeq(s, 1, n)}
<1>6. 0 \in S
  <2>1. Joined(",", << <<>> >>) = <<>>
    <3>1. << <<>> >> \in Seq(String) /\ << <<>> >> # <<>> /\ Len(<< <<>> >>) = 1
          /\ << <<>> >>[1] = <<>>
      <4>1. <<>> \in String
        BY DEF String
      <4> QED
        BY <4>1, OneChar
    <3> DEFINE words == << <<>> >>
               from == JoinedFrom(",", words)
    <3>2. /\ Joined(",", words) = from[1] /\ from[Len(words)] = words[Len(words)]
      BY <3>1, JoinedUnfolds, Separators, Zenon
    <3> HIDE DEF words, from
    <3>3. Len(words) = 1 /\ words[1] = <<>>
      BY <3>1, Zenon DEF words
    <3>4. Joined(",", words) = <<>>
      BY <3>2, <3>3, Zenon
    <3> QED
      BY <3>4, Zenon DEF words
  <2>2. SubSeq(s, 1, 0) = <<>>
    BY SubSeqEmpty
  <2>3. 0 \in 0 .. L
    BY <1>1
  <2> QED
    BY <1>2, <1>5, <2>1, <2>2, <2>3
<1>0. L = Len(s)
  OBVIOUS
<1> HIDE DEF L
<1>7. \A n \in 0 .. L - 1 : n \in S => n + 1 \in S
  <2> SUFFICES ASSUME NEW n \in 0 .. L - 1, n \in S PROVE n + 1 \in S
    OBVIOUS
  <2>0. L \in Nat /\ n \in 0 .. L - 1
    BY <1>1
  <2>1. n + 1 \in 1 .. L /\ (n + 1) - 1 = n /\ n + 1 \in 0 .. L /\ n \in Nat
    <3> HIDE DEF S, round
    <3> QED BY <2>0
  <2>2. last[n + 1] = NextPart(last[n], s[n + 1]) /\ s[n + 1] \in Listed
    BY <1>1, <1>5, <2>1
  <2>3. /\ last[n + 1] \in Parts
        /\ Joined(",", last[n + 1]) = Append(SubSeq(s, 1, n), s[n + 1])
    BY <2>2, NextPartJoins
  <2>4. SubSeq(s, 1, n + 1) = Append(SubSeq(s, 1, n), s[n + 1])
    <3>1. 1 \in 1 .. Len(s) /\ n + 1 \in 1 .. Len(s)
      <4> HIDE DEF S, round
      <4>1. 1 \in 1 .. L
        BY <2>0
      <4> QED
        BY <1>0, <2>1, <4>1
    <3>2. SubSeq(s, 1, n + 1) = SubSeq(s, 1, (n + 1) - 1) \o <<s[n + 1]>>
      BY <3>1, SubSeqRecursiveSecond
    <3>3. SubSeq(s, 1, n) \in Seq(Listed)
      <4> HIDE DEF S, round
      <4>1. \A i \in 1 .. n : i \in 1 .. L
        BY <2>0
      <4>2. \A i \in 1 .. n : s[i] \in Listed
        BY <1>1, <4>1
      <4>3. n \in Int /\ 1 \in Int
        BY <2>1
      <4> QED
        BY <4>2, <4>3, SubSeqProperties
    <3>4. SubSeq(s, 1, n) \o <<s[n + 1]>> = Append(SubSeq(s, 1, n), s[n + 1])
      BY <2>2, <3>3, AppendIsConcat, Zenon
    <3> QED
      BY <2>1, <3>2, <3>4, Zenon
  <2> QED
    BY <2>1, <2>3, <2>4
<1>8. L \in S
  <2>1. 0 .. L \subseteq S
    <3> HIDE DEF S
    <3> QED
      BY <1>1, <1>6, <1>7, Lemmas!Climb
  <2>2. L \in 0 .. L
    BY <1>1
  <2> QED
    BY <2>1, <2>2
<1> QED
  BY <1>0, <1>4, <1>8, SubSeqFull

-----------------------------------------------------------------------------
(* The argument of one variable.                                           *)
LEMMA SplitParts ==
  ASSUME NEW arg \in String, NEW e \in DOMAIN arg
  PROVE  /\ Len(arg) \in Nat /\ e \in 1 .. Len(arg)
         /\ SubSeq(arg, 1, e - 1) \in String /\ Len(SubSeq(arg, 1, e - 1)) = e - 1
         /\ \A p \in 1 .. e - 1 : SubSeq(arg, 1, e - 1)[p] = arg[p]
         /\ SubSeq(arg, e + 1, Len(arg)) \in String
         /\ Len(SubSeq(arg, e + 1, Len(arg))) = Len(arg) - e
         /\ \A p \in 1 .. Len(arg) - e : SubSeq(arg, e + 1, Len(arg))[p] = arg[e + p]
<1>1. Len(arg) \in Nat /\ e \in 1 .. Len(arg)
  BY LenProperties DEF String
<1>2. \A p \in 1 .. Len(arg) : arg[p] \in Char
  BY ElementOfSeq DEF String
<1>3. /\ SubSeq(arg, 1, e - 1) \in String /\ Len(SubSeq(arg, 1, e - 1)) = e - 1
      /\ \A p \in 1 .. e - 1 : SubSeq(arg, 1, e - 1)[p] = arg[p]
  <2> DEFINE f == SubSeq(arg, 1, e - 1)
  <2>1. \A p \in 1 .. e - 1 : arg[p] \in Char
    BY <1>1, <1>2
  <2>2. /\ f \in Seq(Char) /\ Len(f) = IF 1 <= e - 1 THEN (e - 1) - 1 + 1 ELSE 0
        /\ \A p \in 1 .. (e - 1) - 1 + 1 : f[p] = arg[1 + p - 1]
    <3>1. e - 1 \in Int /\ 1 \in Int
      BY <1>1
    <3> QED
      BY <2>1, <3>1, SubSeqProperties
  <2> HIDE DEF f
  <2>3. Len(f) = e - 1
    BY <1>1, <2>2
  <2>4. \A p \in 1 .. e - 1 : p \in 1 .. (e - 1) - 1 + 1 /\ 1 + p - 1 = p
    BY <1>1
  <2>5. \A p \in 1 .. e - 1 : f[p] = arg[p]
    BY <2>2, <2>4
  <2> QED
    BY <2>2, <2>3, <2>5 DEF f, String
<1>4. /\ SubSeq(arg, e + 1, Len(arg)) \in String
      /\ Len(SubSeq(arg, e + 1, Len(arg))) = Len(arg) - e
      /\ \A p \in 1 .. Len(arg) - e : SubSeq(arg, e + 1, Len(arg))[p] = arg[e + p]
  <2> DEFINE r == e + 1
             f == SubSeq(arg, r, Len(arg))
  <2>1. r \in 1 .. Len(arg) + 1
    BY <1>1
  <2>2. /\ f \in Seq(Char) /\ Len(f) = Len(arg) - r + 1
        /\ \A p \in 1 .. Len(arg) - r + 1 : f[p] = arg[p + (r - 1)]
    <3> HIDE DEF r
    <3> QED
      BY <2>1, Lemmas!SuffixProperties DEF String
  <2> HIDE DEF f
  <2>3. Len(arg) - r + 1 = Len(arg) - e /\ r - 1 = e
    BY <1>1
  <2>4. \A p \in 1 .. Len(arg) - e : p + (r - 1) = e + p
    BY <1>1
  <2> HIDE DEF r
  <2>5. \A p \in 1 .. Len(arg) - e : f[p] = arg[e + p]
    BY <2>2, <2>3, <2>4
  <2> QED
    BY <2>2, <2>3, <2>5 DEF f, r, String
<1> QED
  BY <1>1, <1>3, <1>4

(* A string whose characters are of a set is a sequence over it.           *)
LEMMA SequenceOver ==
  ASSUME NEW S, NEW s \in String, \A p \in 1 .. Len(s) : s[p] \in S
  PROVE  s \in Seq(S)
<1>1. Len(s) \in Nat /\ s \in [1 .. Len(s) -> Char]
  BY LenProperties DEF String
<1>2. s \in [1 .. Len(s) -> S]
  BY <1>1
<1> QED
  BY <1>1, <1>2, IsSequence

(* What is split at "=" is a name and a list of configurations.            *)
LEMMA SplitsAt ==
  ASSUME NEW arg \in String, NEW e \in DOMAIN arg
  PROVE  Splits(arg, e) <=>
           /\ arg[e] = "=" /\ SubSeq(arg, 1, e - 1) \in Seq(Alnum)
           /\ SubSeq(arg, e + 1, Len(arg)) \in Seq(Listed) /\ Last(arg) \in Alnum
<1> DEFINE name == SubSeq(arg, 1, e - 1)
           list == SubSeq(arg, e + 1, Len(arg))
           L    == Len(arg)
<1>1. /\ L \in Nat /\ e \in 1 .. L
      /\ name \in String /\ Len(name) = e - 1 /\ \A p \in 1 .. e - 1 : name[p] = arg[p]
      /\ list \in String /\ Len(list) = L - e /\ \A p \in 1 .. L - e : list[p] = arg[e + p]
  BY SplitParts
<1>2. Last(arg) = arg[L]
  BY DEF Last
<1> HIDE DEF name, list
<1>3. ASSUME Splits(arg, e)
      PROVE  /\ arg[e] = "=" /\ name \in Seq(Alnum) /\ list \in Seq(Listed)
             /\ Last(arg) \in Alnum
  <2>1. /\ arg[e] = "=" /\ \A p \in 1 .. e - 1 : arg[p] \in Alnum
        /\ e < L /\ arg[L] # "," /\ \A p \in e + 1 .. L : arg[p] \in Listed
    BY <1>2, <1>3 DEF Splits, Listed
  <2> HIDE DEF L
  <2>2. name \in Seq(Alnum)
    BY <1>1, <2>1, SequenceOver
  <2>3. list \in Seq(Listed)
    <3>1. \A p \in 1 .. L - e : e + p \in e + 1 .. L
      BY <1>1
    <3> QED
      BY <1>1, <2>1, <3>1, SequenceOver
  <2>4. Last(arg) \in Alnum
    <3>0. L \in Nat /\ e \in 1 .. L /\ e < L
      BY <1>1, <2>1
    <3>1. L \in e + 1 .. L
      BY <3>0
    <3>2. arg[L] \in Listed
      BY <2>1, <3>1
    <3> QED
      BY <1>2, <2>1, <3>2 DEF Listed
  <2> QED
    BY <2>1, <2>2, <2>3, <2>4
<1>4. ASSUME arg[e] = "=", name \in Seq(Alnum), list \in Seq(Listed), Last(arg) \in Alnum
      PROVE  Splits(arg, e)
  <2>1. \A p \in 1 .. e - 1 : arg[p] \in Alnum
    <3>1. \A p \in 1 .. Len(name) : name[p] \in Alnum
      BY <1>4, ElementOfSeq
    <3> QED
      BY <1>1, <3>1
  <2>2. e < L /\ Last(arg) # ","
    <3>1. "=" \notin Alnum /\ "," \notin Alnum
      BY Separators
    <3>2. e # L
      BY <1>2, <1>4, <3>1
    <3>3. L \in Nat /\ e \in 1 .. L
      BY <1>1
    <3> HIDE DEF L
    <3>4. e < L
      BY <3>2, <3>3
    <3> QED
      BY <1>4, <3>1, <3>4
  <2>3. \A p \in e + 1 .. L : arg[p] \in Alnum \cup {","}
    <3>1. \A p \in 1 .. Len(list) : list[p] \in Listed
      BY <1>4, ElementOfSeq
    <3> HIDE DEF L
    <3>2. \A p \in e + 1 .. L : p - e \in 1 .. L - e /\ e + (p - e) = p
      BY <1>1
    <3>3. \A p \in e + 1 .. L : arg[p] = list[p - e] /\ list[p - e] \in Listed
      BY <1>1, <3>1, <3>2
    <3> QED
      BY <3>3 DEF Listed
  <2> QED
    BY <1>4, <2>1, <2>2, <2>3 DEF Splits
<1> QED
  BY <1>3, <1>4 DEF name, list

(* An argument is understood if and only if it is proper, and what is      *)
(* understood is the argument.                                             *)
AVariable == [name : Seq(Alnum), conf : Parts]

LEMMA ArgumentRead ==
  ASSUME NEW arg \in String
  PROVE  /\ Proper(arg) <=> IsArgument(arg)
         /\ IsArgument(arg) => Variable(arg) \in AVariable /\ Written(Variable(arg)) = arg
<1>1. Proper(arg) <=> IsArgument(arg)
  BY SplitsAt DEF Proper, IsArgument, Listed
<1>2. ASSUME IsArgument(arg)
      PROVE  Variable(arg) \in AVariable /\ Written(Variable(arg)) = arg
  <2> DEFINE e == CHOOSE p \in DOMAIN arg : Splits(arg, p)
             name == SubSeq(arg, 1, e - 1)
             list == SubSeq(arg, e + 1, Len(arg))
  <2>1. e \in DOMAIN arg /\ Splits(arg, e)
    BY <1>2 DEF IsArgument
  <2>2. Variable(arg) = [name |-> name, conf |-> Cut(list)]
    BY DEF Variable
  <2> HIDE DEF e
  <2>3. arg[e] = "=" /\ name \in Seq(Alnum) /\ list \in Seq(Listed)
    BY <2>1, SplitsAt
  <2>4. Cut(list) \in Parts /\ Joined(",", Cut(list)) = list
    BY <2>3, CutJoins
  <2>5. /\ Len(arg) \in Nat /\ e \in 1 .. Len(arg)
        /\ name \in String /\ Len(name) = e - 1 /\ \A p \in 1 .. e - 1 : name[p] = arg[p]
        /\ list \in String /\ Len(list) = Len(arg) - e
        /\ \A p \in 1 .. Len(arg) - e : list[p] = arg[e + p]
    BY <2>1, SplitParts
  <2> HIDE DEF name, list
  <2>6. Written(Variable(arg)) = name \o <<"=">> \o list
    <3>1. Variable(arg).name = name /\ Variable(arg).conf = Cut(list)
      BY <2>2
    <3> QED
      BY <2>4, <3>1, Zenon DEF Written
  <2>7. name \o <<"=">> \o list = arg
    <3> DEFINE s == name \o <<"=">> \o list
    <3>1. /\ s \in String /\ Len(s) = Len(name) + 1 + Len(list)
          /\ \A p \in 1 .. Len(name) : s[p] = name[p]
          /\ s[Len(name) + 1] = "="
          /\ \A p \in 1 .. Len(list) : s[Len(name) + 1 + p] = list[p]
      <4>1. name \in Seq(Char) /\ list \in Seq(Char) /\ "=" \in Char
        BY <2>5, Separators DEF String
      <4> QED
        BY <4>1, Separated DEF String
    <3> HIDE DEF s
    <3>2. Len(s) = Len(arg)
      BY <2>5, <3>1
    <3>3. ASSUME NEW p \in 1 .. Len(arg)
          PROVE  s[p] = arg[p]
      <4>1. CASE p < e
        <5>1. p \in 1 .. e - 1
          BY <2>5, <4>1
        <5> QED
          BY <2>5, <3>1, <5>1
      <4>2. CASE p = e
        <5>1. Len(name) + 1 = e
          BY <2>5
        <5> QED
          BY <2>3, <3>1, <4>2, <5>1
      <4>3. CASE p > e
        <5>1. p - e \in 1 .. Len(arg) - e /\ Len(name) + 1 + (p - e) = p /\ e + (p - e) = p
          BY <2>5, <4>3
        <5> QED
          BY <2>5, <3>1, <5>1
      <4> QED
        BY <2>5, <4>1, <4>2, <4>3
    <3>4. s \in Seq(Char) /\ arg \in Seq(Char)
      BY <3>1 DEF String
    <3>5. s = arg
      <4>1. \A p \in 1 .. Len(s) : s[p] = arg[p]
        BY <3>2, <3>3
      <4> QED
        BY <3>2, <3>4, <4>1, SeqEqual
    <3> QED
      BY <3>5 DEF s
  <2>8. Variable(arg) \in AVariable
    <3>1. name \in Seq(Alnum) /\ Cut(list) \in Parts
      BY <2>3, <2>4
    <3> QED
      BY <2>2, <3>1, SMT DEF AVariable
  <2> QED
    BY <2>6, <2>7, <2>8
<1> QED
  BY <1>1, <1>2

-----------------------------------------------------------------------------
(* The round and the place in it of a line.                                *)
LEMMA RoundOf ==
  ASSUME NEW K \in Nat \ {0}, NEW L \in Nat \ {0}, NEW ln \in 1 .. K * L
  PROVE  /\ (ln - 1) \div L + 1 \in 1 .. K /\ ((ln - 1) % L) + 1 \in 1 .. L
         /\ ln = (((ln - 1) \div L + 1) - 1) * L + (((ln - 1) % L) + 1)
<1> DEFINE q == (ln - 1) \div L
           r == (ln - 1) % L
<1>1. ln - 1 \in Int /\ q \in Int /\ ln - 1 = L * q + r /\ r \in 0 .. L - 1
  <2>1. ln - 1 \in Int
    OBVIOUS
  <2> QED
    BY <2>1, Lemmas!DivMod, Lemmas!ModRange
<1>2. ln \in Nat \ {0} /\ ln <= K * L
  OBVIOUS
<1> HIDE DEF q, r
<1>3. q >= 0
  <2>1. q <= -1 => L * q <= -L
    BY <1>1
  <2> QED
    BY <1>1, <1>2, <2>1
<1>4. q <= K - 1
  <2>1. q >= K => L * q >= K * L
    BY <1>1
  <2> QED
    BY <1>1, <1>2, <2>1
<1>5. q + 1 \in 1 .. K /\ r + 1 \in 1 .. L
  BY <1>1, <1>3, <1>4
<1>6. (q + 1) - 1 = q /\ L * q = q * L
  BY <1>1
<1>7. ln = q * L + (r + 1)
  BY <1>1, <1>2, <1>6
<1> QED
  BY <1>5, <1>6, <1>7 DEF q, r

(* The line of a round and a place in it.                                  *)
LEMMA LineOf ==
  ASSUME NEW K \in Nat \ {0}, NEW L \in Nat \ {0}, NEW i \in 1 .. K, NEW j \in 1 .. L
  PROVE  /\ (i - 1) * L + j \in 1 .. K * L
         /\ ((i - 1) * L + j - 1) \div L + 1 = i
         /\ (((i - 1) * L + j - 1) % L) + 1 = j
<1> DEFINE ln == (i - 1) * L + j
           x == ln - 1
<1>1. (i - 1) * L \in Nat /\ (i - 1) * L = i * L - L /\ i * L <= K * L /\ K * L \in Nat
  <2>1. (i - 1) * L \in Nat
    OBVIOUS
  <2>2. (i - 1) * L = i * L - L
    OBVIOUS
  <2>3. i * L <= K * L /\ K * L \in Nat
    <3>1. (K - i) * L >= 0 /\ (K - i) * L = K * L - i * L
      OBVIOUS
    <3> QED
      BY <3>1
  <2> QED
    BY <2>1, <2>2, <2>3
<1>2. ln \in 1 .. K * L
  BY <1>1
<1>3. x \in Int /\ i - 1 \in Int /\ j - 1 \in 0 .. L - 1 /\ x = L * (i - 1) + (j - 1)
  BY <1>1
<1> HIDE DEF x
<1>4. x % L = j - 1
  BY <1>3, Lemmas!ModUnique
<1>5. x \div L = i - 1
  <2> DEFINE q == x \div L
  <2>1. q \in Int /\ x = L * q + (x % L)
    BY <1>3, Lemmas!DivMod
  <2> HIDE DEF q
  <2>2. L * (q - (i - 1)) = L * q - L * (i - 1)
    BY <1>3, <2>1
  <2>3. L * (q - (i - 1)) = 0
    BY <1>3, <1>4, <2>1, <2>2
  <2>4. q - (i - 1) = 0
    BY <1>3, <2>1, <2>3, Lemmas!SmallMultiple
  <2> QED
    BY <1>3, <2>1, <2>4 DEF q
<1> QED
  BY <1>2, <1>4, <1>5 DEF x

(* Different rounds, or places in a round, are different lines.            *)
LEMMA SameLine ==
  ASSUME NEW K \in Nat \ {0}, NEW L \in Nat \ {0}, NEW i \in 1 .. K, NEW j \in 1 .. L,
         NEW p \in 1 .. K, NEW q \in 1 .. L
  PROVE  (i - 1) * L + j = (p - 1) * L + q <=> i = p /\ j = q
<1> DEFINE x == (i - 1) * L + j
           y == (p - 1) * L + q
<1>1. (x - 1) \div L + 1 = i /\ ((x - 1) % L) + 1 = j
  BY LineOf
<1>2. (y - 1) \div L + 1 = p /\ ((y - 1) % L) + 1 = q
  BY LineOf
<1>3. i = p /\ j = q => x = y
  OBVIOUS
<1> HIDE DEF x, y
<1>4. x = y => i = p /\ j = q
  BY <1>1, <1>2, Zenon
<1> QED
  BY <1>3, <1>4 DEF x, y

-----------------------------------------------------------------------------
(* The sizes of the rounds, the place of an assignment and the lines, from *)
(* each variable on.                                                       *)
CountFrom(vs) ==
  CHOOSE count : count = [n \in 1 .. Len(vs) + 1 |->
                            IF n > Len(vs) THEN 1 ELSE Len(vs[n].conf) * count[n + 1]]

PlaceFrom(vs, a) ==
  CHOOSE from : from = [n \in 1 .. Len(vs) + 1 |->
                          IF n > Len(vs) THEN 1
                          ELSE (a[n] - 1) * CountFrom(vs)[n + 1] + from[n + 1]]

(* An assignment gives each variable the number of a configuration.        *)
LEMMA AssignmentFacts ==
  ASSUME NEW vs \in Seq(AVariable), NEW a
  PROVE  /\ Len(vs) \in Nat /\ DOMAIN vs = 1 .. Len(vs)
         /\ \A n \in 1 .. Len(vs) :
              /\ vs[n] \in AVariable /\ Len(vs[n].conf) \in Nat \ {0}
              /\ \A i \in 1 .. Len(vs[n].conf) : vs[n].conf[i] \in Seq(Alnum)
         /\ a \in Assignments(vs) <=>
              /\ a \in [1 .. Len(vs) -> Nat]
              /\ \A n \in 1 .. Len(vs) : a[n] \in 1 .. Len(vs[n].conf)
<1>1. Len(vs) \in Nat /\ DOMAIN vs = 1 .. Len(vs)
  BY LenProperties
<1>2. ASSUME NEW n \in 1 .. Len(vs)
      PROVE  /\ vs[n] \in AVariable /\ Len(vs[n].conf) \in Nat \ {0}
             /\ DOMAIN vs[n].conf = 1 .. Len(vs[n].conf)
             /\ \A i \in 1 .. Len(vs[n].conf) : vs[n].conf[i] \in Seq(Alnum)
  <2>1. vs[n] \in AVariable
    BY ElementOfSeq
  <2>2. vs[n].conf \in Seq(Seq(Alnum)) /\ vs[n].conf # <<>>
    BY <2>1 DEF AVariable, Parts
  <2> QED
    BY <2>1, <2>2, LenProperties, ElementOfSeq
<1>3. ASSUME a \in Assignments(vs)
      PROVE  /\ a \in [1 .. Len(vs) -> Nat]
             /\ \A n \in 1 .. Len(vs) : a[n] \in 1 .. Len(vs[n].conf)
  <2>1. DOMAIN a = 1 .. Len(vs) /\ a = [n \in 1 .. Len(vs) |-> a[n]]
    BY <1>1, <1>3 DEF Assignments
  <2>2. \A n \in 1 .. Len(vs) : a[n] \in 1 .. Len(vs[n].conf)
    BY <1>1, <1>2, <1>3 DEF Assignments
  <2>3. \A n \in 1 .. Len(vs) : a[n] \in Nat
    BY <1>2, <2>2
  <2> QED
    BY <2>1, <2>2, <2>3
<1>4. ASSUME a \in [1 .. Len(vs) -> Nat],
             \A n \in 1 .. Len(vs) : a[n] \in 1 .. Len(vs[n].conf)
      PROVE  a \in Assignments(vs)
  <2> DEFINE U == UNION {DOMAIN vs[n].conf : n \in DOMAIN vs}
  <2>1. \A n \in DOMAIN vs : a[n] \in DOMAIN vs[n].conf
    BY <1>1, <1>2, <1>4
  <2>2. \A n \in DOMAIN vs : a[n] \in U
    BY <2>1
  <2>3. a \in [DOMAIN vs -> U]
    <3> HIDE DEF U
    <3> QED BY <1>1, <1>4, <2>2
  <2> QED
    BY <2>1, <2>3 DEF Assignments
<1> QED
  BY <1>1, <1>2, <1>3, <1>4

(* The lines from the last variable on: as many as its configurations,     *)
(* and for each variable before it as many times as many.                  *)
LEMMA CountUnfolds ==
  ASSUME NEW vs \in Seq(AVariable)
  PROVE  /\ CountFrom(vs)[Len(vs) + 1] = 1
         /\ \A n \in 1 .. Len(vs) + 1 : CountFrom(vs)[n] \in Nat \ {0}
         /\ \A n \in 1 .. Len(vs) :
              CountFrom(vs)[n] = Len(vs[n].conf) * CountFrom(vs)[n + 1]
<1> DEFINE N == Len(vs)
           C == CountFrom(vs)
           V == Nat \ {0}
           round == [n \in 1 .. N |-> [x \in V |-> Len(vs[n].conf) * x]]
<1>1. N \in Nat /\ \A n \in 1 .. N : Len(vs[n].conf) \in V
  BY AssignmentFacts
<1>2. round \in [1 .. N -> [V -> V]]
  <2>1. \A n \in 1 .. N : \A x \in V : Len(vs[n].conf) * x \in V
    <3> TAKE n \in 1 .. N
    <3> TAKE x \in V
    <3> DEFINE y == Len(vs[n].conf)
    <3>1. y \in Nat \ {0}
      BY <1>1
    <3> HIDE DEF y
    <3>2. y * x \in Nat \ {0}
      BY <3>1
    <3> QED
      BY <3>2 DEF y
  <2> HIDE DEF V
  <2> QED
    BY <2>1
<1>3. PICK F : Lemmas!ComputesBack(F, N, V, 1, round)
  <2> HIDE DEF round
  <2>1. Lemmas!IsLoop(N, V, 1, round)
    BY <1>1, <1>2 DEF Lemmas!IsLoop
  <2> QED
    BY <2>1, Lemmas!Backwards
<1>4. /\ F \in [1 .. N + 1 -> V] /\ F[N + 1] = 1
      /\ \A n \in 1 .. N : F[n] = round[n][F[n + 1]]
  BY <1>3 DEF Lemmas!ComputesBack
<1>5. ASSUME NEW n \in 1 .. N
      PROVE  F[n] = Len(vs[n].conf) * F[n + 1]
  <2>1. n + 1 \in 1 .. N + 1
    BY <1>1
  <2>2. F[n + 1] \in V
    BY <1>4, <2>1
  <2>3. round[n] = [x \in V |-> Len(vs[n].conf) * x]
    OBVIOUS
  <2> HIDE DEF round, V
  <2> QED
    BY <1>4, <2>2, <2>3
<1>6. \A n \in 1 .. N + 1 : n > N <=> n = N + 1
  BY <1>1
<1>7. \A n \in 1 .. N + 1 : n # N + 1 => n \in 1 .. N
  BY <1>1
<1>8. F = [n \in 1 .. N + 1 |-> IF n > N THEN 1 ELSE Len(vs[n].conf) * F[n + 1]]
  <2> HIDE DEF round, V, N
  <2> QED
    BY <1>4, <1>5, <1>6, <1>7
<1>9. C = [n \in 1 .. N + 1 |-> IF n > N THEN 1 ELSE Len(vs[n].conf) * C[n + 1]]
  BY <1>8, Zenon DEF CountFrom
<1> HIDE DEF C, round
<1>10. C[N + 1] = 1 /\ \A n \in 1 .. N : C[n] = Len(vs[n].conf) * C[n + 1]
  <2>1. N + 1 \in 1 .. N + 1 /\ N + 1 > N /\ \A n \in 1 .. N : n \in 1 .. N + 1 /\ ~(n > N)
    BY <1>1
  <2> HIDE DEF N, V
  <2> QED
    BY <1>9, <2>1
<1> DEFINE S == {n \in 1 .. N + 1 : C[n] \in V}
<1>11. ASSUME NEW n \in 1 .. N + 1, \A m \in n + 1 .. N + 1 : m \in S
       PROVE  n \in S
  <2>1. CASE n = N + 1
    BY <1>10, <2>1
  <2>2. CASE n # N + 1
    <3>1. n \in 1 .. N /\ n + 1 \in n + 1 .. N + 1
      BY <1>1, <2>2
    <3>2. C[n + 1] \in V /\ Len(vs[n].conf) \in V /\ C[n] = Len(vs[n].conf) * C[n + 1]
      BY <1>1, <1>10, <1>11, <3>1
    <3>3. C[n] \in V
      <4> DEFINE y == Len(vs[n].conf)
                 z == C[n + 1]
      <4>1. y \in Nat \ {0} /\ z \in Nat \ {0}
        BY <3>2
      <4> HIDE DEF y, z
      <4>2. y * z \in Nat \ {0}
        BY <4>1
      <4> QED
        BY <3>2, <4>2 DEF y, z
    <3> QED
      BY <3>1, <3>3
  <2> QED
    BY <2>1, <2>2
<1>12. 1 .. N + 1 \subseteq S
  <2>1. N + 1 \in Nat
    BY <1>1
  <2> HIDE DEF S, N
  <2> QED
    BY <1>11, <2>1, Lemmas!Descend
<1> QED
  BY <1>10, <1>12 DEF C, N

(* The place of an assignment among the lines from each variable on.       *)
LEMMA PlaceUnfolds ==
  ASSUME NEW vs \in Seq(AVariable), NEW a \in Assignments(vs)
  PROVE  /\ Place(vs, a) = PlaceFrom(vs, a)[1]
         /\ PlaceFrom(vs, a)[Len(vs) + 1] = 1
         /\ \A n \in 1 .. Len(vs) :
              PlaceFrom(vs, a)[n] =
                (a[n] - 1) * CountFrom(vs)[n + 1] + PlaceFrom(vs, a)[n + 1]
         /\ \A n \in 1 .. Len(vs) + 1 : PlaceFrom(vs, a)[n] \in 1 .. CountFrom(vs)[n]
<1> DEFINE N == Len(vs)
           C == CountFrom(vs)
           G == PlaceFrom(vs, a)
           round == [n \in 1 .. N |-> [x \in Int |-> (a[n] - 1) * C[n + 1] + x]]
<1>1. /\ N \in Nat /\ C[N + 1] = 1
      /\ \A n \in 1 .. N + 1 : C[n] \in Nat \ {0}
      /\ \A n \in 1 .. N : /\ a[n] \in 1 .. Len(vs[n].conf) /\ Len(vs[n].conf) \in Nat \ {0}
                           /\ C[n] = Len(vs[n].conf) * C[n + 1]
  BY AssignmentFacts, CountUnfolds
<1> HIDE DEF C
<1>2. \A n \in 1 .. N : n \in 1 .. N + 1 /\ n + 1 \in 1 .. N + 1
  BY <1>1
<1>3. \A n \in 1 .. N : (a[n] - 1) * C[n + 1] \in Int
  <2> TAKE n \in 1 .. N
  <2>1. a[n] \in Int /\ C[n + 1] \in Int
    BY <1>1, <1>2
  <2> QED
    BY <2>1
<1>4. round \in [1 .. N -> [Int -> Int]]
  <2>1. \A n \in 1 .. N : \A x \in Int : (a[n] - 1) * C[n + 1] + x \in Int
    <3> TAKE n \in 1 .. N
    <3> TAKE x \in Int
    <3> DEFINE y == (a[n] - 1) * C[n + 1]
    <3>1. y \in Int
      BY <1>3
    <3> HIDE DEF y
    <3>2. y + x \in Int
      BY <3>1
    <3> QED
      BY <3>2 DEF y
  <2> QED
    BY <2>1
<1>5. PICK F : Lemmas!ComputesBack(F, N, Int, 1, round)
  <2> HIDE DEF round
  <2>1. Lemmas!IsLoop(N, Int, 1, round)
    BY <1>1, <1>4 DEF Lemmas!IsLoop
  <2> QED
    BY <2>1, Lemmas!Backwards
<1>6. /\ F \in [1 .. N + 1 -> Int] /\ F[N + 1] = 1
      /\ \A n \in 1 .. N : F[n] = round[n][F[n + 1]]
  BY <1>5 DEF Lemmas!ComputesBack
<1>7. ASSUME NEW n \in 1 .. N
      PROVE  F[n] = (a[n] - 1) * C[n + 1] + F[n + 1]
  <2>1. F[n + 1] \in Int
    BY <1>2, <1>6
  <2>2. round[n] = [x \in Int |-> (a[n] - 1) * C[n + 1] + x]
    OBVIOUS
  <2> HIDE DEF round
  <2> QED
    BY <1>6, <2>1, <2>2
<1>8. \A n \in 1 .. N + 1 : (n > N <=> n = N + 1) /\ (n # N + 1 => n \in 1 .. N)
  BY <1>1
<1>9. F = [n \in 1 .. N + 1 |-> IF n > N THEN 1 ELSE (a[n] - 1) * C[n + 1] + F[n + 1]]
  <2> HIDE DEF round, N
  <2> QED
    BY <1>6, <1>7, <1>8
<1>10. G = [n \in 1 .. N + 1 |-> IF n > N THEN 1 ELSE (a[n] - 1) * C[n + 1] + G[n + 1]]
  BY <1>9, Zenon DEF PlaceFrom, C
<1>11. Place(vs, a) = G[1]
  BY Zenon DEF Place, PlaceFrom, CountFrom
<1> HIDE DEF G, round
<1>12. G[N + 1] = 1 /\ \A n \in 1 .. N : G[n] = (a[n] - 1) * C[n + 1] + G[n + 1]
  <2>1. N + 1 \in 1 .. N + 1 /\ N + 1 > N /\ \A n \in 1 .. N : n \in 1 .. N + 1 /\ ~(n > N)
    BY <1>1
  <2> HIDE DEF N
  <2> QED
    BY <1>10, <2>1
<1> DEFINE S == {n \in 1 .. N + 1 : G[n] \in 1 .. C[n]}
<1>13. ASSUME NEW n \in 1 .. N + 1, \A m \in n + 1 .. N + 1 : m \in S
       PROVE  n \in S
  <2>1. CASE n = N + 1
    BY <1>1, <1>12, <2>1
  <2>2. CASE n # N + 1
    <3>1. n \in 1 .. N /\ n + 1 \in n + 1 .. N + 1
      BY <1>1, <2>2
    <3>2. /\ G[n + 1] \in 1 .. C[n + 1] /\ a[n] \in 1 .. Len(vs[n].conf)
          /\ Len(vs[n].conf) \in Nat \ {0} /\ C[n + 1] \in Nat \ {0}
      BY <1>1, <1>2, <1>13, <3>1
    <3>3. (a[n] - 1) * C[n + 1] + G[n + 1] \in 1 .. Len(vs[n].conf) * C[n + 1]
      <4> DEFINE K == Len(vs[n].conf)
                 L == C[n + 1]
                 i == a[n]
                 j == G[n + 1]
      <4>1. K \in Nat \ {0} /\ L \in Nat \ {0} /\ i \in 1 .. K /\ j \in 1 .. L
        BY <3>2
      <4> HIDE DEF K, L, i, j, S, N
      <4>2. (i - 1) * L + j \in 1 .. K * L
        BY <4>1, LineOf
      <4> QED
        BY <4>2, Zenon DEF K, L, i, j
    <3>4. G[n] \in 1 .. C[n]
      BY <1>1, <1>12, <3>1, <3>3
    <3> QED
      BY <3>4
  <2> QED
    BY <2>1, <2>2
<1>14. 1 .. N + 1 \subseteq S
  <2>1. N + 1 \in Nat
    BY <1>1
  <2> HIDE DEF S, N
  <2> QED
    BY <1>13, <2>1, Lemmas!Descend
<1> QED
  BY <1>11, <1>12, <1>14 DEF G, C, N

(* The place from a variable on depends on the assignment from it on, and  *)
(* on nothing else.                                                        *)
LEMMA PlaceDepends ==
  ASSUME NEW vs \in Seq(AVariable), NEW a \in Assignments(vs), NEW b \in Assignments(vs),
         NEW m \in 1 .. Len(vs) + 1
  PROVE  PlaceFrom(vs, a)[m] = PlaceFrom(vs, b)[m]
           <=> \A n \in m .. Len(vs) : a[n] = b[n]
<1> DEFINE N == Len(vs)
           C == CountFrom(vs)
           F == PlaceFrom(vs, a)
           G == PlaceFrom(vs, b)
           S == {n \in 1 .. N + 1 : F[n] = G[n] <=> \A l \in n .. N : a[l] = b[l]}
<1>1. /\ N \in Nat
      /\ \A n \in 1 .. N + 1 : C[n] \in Nat \ {0}
      /\ \A n \in 1 .. N : /\ a[n] \in 1 .. Len(vs[n].conf) /\ b[n] \in 1 .. Len(vs[n].conf)
                           /\ Len(vs[n].conf) \in Nat \ {0}
  BY AssignmentFacts, CountUnfolds
<1>2. /\ F[N + 1] = 1 /\ \A n \in 1 .. N : F[n] = (a[n] - 1) * C[n + 1] + F[n + 1]
      /\ \A n \in 1 .. N + 1 : F[n] \in 1 .. C[n]
  BY PlaceUnfolds
<1>3. /\ G[N + 1] = 1 /\ \A n \in 1 .. N : G[n] = (b[n] - 1) * C[n + 1] + G[n + 1]
      /\ \A n \in 1 .. N + 1 : G[n] \in 1 .. C[n]
  BY PlaceUnfolds
<1> HIDE DEF C, F, G
<1>4. ASSUME NEW n \in 1 .. N + 1, \A l \in n + 1 .. N + 1 : l \in S
      PROVE  n \in S
  <2>1. CASE n = N + 1
    <3>1. n .. N = {}
      BY <1>1, <2>1
    <3> QED
      BY <1>2, <1>3, <2>1, <3>1
  <2>2. CASE n # N + 1
    <3>1. n \in 1 .. N /\ n + 1 \in n + 1 .. N + 1 /\ n + 1 \in 1 .. N + 1
      BY <1>1, <2>2
    <3>2. F[n + 1] = G[n + 1] <=> \A l \in n + 1 .. N : a[l] = b[l]
      BY <1>4, <3>1
    <3>3. \A l \in n .. N : l = n \/ l \in n + 1 .. N
      BY <1>1
    <3>4. n \in n .. N /\ \A l \in n + 1 .. N : l \in n .. N
      BY <1>1, <3>1
    <3>5. (\A l \in n .. N : a[l] = b[l]) <=> a[n] = b[n] /\ F[n + 1] = G[n + 1]
      BY <3>2, <3>3, <3>4
    <3>6. F[n] = G[n] <=> a[n] = b[n] /\ F[n + 1] = G[n + 1]
      <4> DEFINE K == Len(vs[n].conf)
                 L == C[n + 1]
      <4>1. /\ K \in Nat \ {0} /\ L \in Nat \ {0} /\ a[n] \in 1 .. K /\ b[n] \in 1 .. K
            /\ F[n + 1] \in 1 .. L /\ G[n + 1] \in 1 .. L
            /\ F[n] = (a[n] - 1) * L + F[n + 1] /\ G[n] = (b[n] - 1) * L + G[n + 1]
        BY <1>1, <1>2, <1>3, <3>1
      <4> HIDE DEF K, L
      <4> DEFINE f == F[n + 1]
                 g == G[n + 1]
      <4>2. /\ K \in Nat \ {0} /\ L \in Nat \ {0} /\ a[n] \in 1 .. K /\ b[n] \in 1 .. K
            /\ f \in 1 .. L /\ g \in 1 .. L
        BY <4>1
      <4> HIDE DEF f, g
      <4>3. (a[n] - 1) * L + f = (b[n] - 1) * L + g <=> a[n] = b[n] /\ f = g
        <5> DEFINE x == a[n]
                   y == b[n]
        <5>1. /\ K \in Nat \ {0} /\ L \in Nat \ {0} /\ x \in 1 .. K /\ y \in 1 .. K
              /\ f \in 1 .. L /\ g \in 1 .. L
          BY <4>2
        <5> HIDE DEF x, y, S, N
        <5>2. (x - 1) * L + f = (y - 1) * L + g <=> x = y /\ f = g
          BY <5>1, SameLine
        <5> QED
          BY <5>2 DEF x, y
      <4> QED
        BY <4>1, <4>3, Zenon DEF f, g
    <3> QED
      BY <3>5, <3>6
  <2> QED
    BY <2>1, <2>2
<1>5. 1 .. N + 1 \subseteq S
  <2>1. N + 1 \in Nat
    BY <1>1
  <2> HIDE DEF S, N
  <2> QED
    BY <1>4, <2>1, Lemmas!Descend
<1> QED
  BY <1>5 DEF F, G, N

(* Every line from a variable on is the place of an assignment.            *)
LEMMA PlaceFound ==
  ASSUME NEW vs \in Seq(AVariable), NEW m \in 1 .. Len(vs) + 1,
         NEW ln \in 1 .. CountFrom(vs)[m]
  PROVE  \E a \in Assignments(vs) : PlaceFrom(vs, a)[m] = ln
<1> DEFINE N == Len(vs)
           C == CountFrom(vs)
           S == {n \in 1 .. N + 1 : \A l \in 1 .. C[n] :
                   \E a \in Assignments(vs) : PlaceFrom(vs, a)[n] = l}
<1>1. /\ N \in Nat /\ C[N + 1] = 1
      /\ \A n \in 1 .. N + 1 : C[n] \in Nat \ {0}
      /\ \A n \in 1 .. N : /\ Len(vs[n].conf) \in Nat \ {0}
                           /\ C[n] = Len(vs[n].conf) * C[n + 1]
  BY AssignmentFacts, CountUnfolds
<1> HIDE DEF C
<1>2. ASSUME NEW n \in 1 .. N + 1, \A l \in n + 1 .. N + 1 : l \in S
      PROVE  n \in S
  <2>1. CASE n = N + 1
    <3> DEFINE a == [l \in 1 .. N |-> 1]
    <3>1. a \in Assignments(vs)
      <4>1. a \in [1 .. N -> Nat] /\ \A l \in 1 .. N : a[l] \in 1 .. Len(vs[l].conf)
        BY <1>1
      <4> HIDE DEF a
      <4> QED
        BY <4>1, AssignmentFacts
    <3> HIDE DEF a
    <3>2. PlaceFrom(vs, a)[n] = 1
      BY <2>1, <3>1, PlaceUnfolds
    <3>3. \A l \in 1 .. C[n] : l = 1
      BY <1>1, <2>1
    <3> QED
      BY <3>1, <3>2, <3>3
  <2>2. CASE n # N + 1
    <3> SUFFICES ASSUME NEW l \in 1 .. C[n]
                 PROVE  \E a \in Assignments(vs) : PlaceFrom(vs, a)[n] = l
      OBVIOUS
    <3> DEFINE K == Len(vs[n].conf)
               L == C[n + 1]
               i == (l - 1) \div L + 1
               j == ((l - 1) % L) + 1
    <3>1. n \in 1 .. N /\ n + 1 \in n + 1 .. N + 1 /\ n + 1 \in 1 .. N + 1
      BY <1>1, <2>2
    <3>2. K \in Nat \ {0} /\ L \in Nat \ {0} /\ l \in 1 .. K * L
      BY <1>1, <3>1
    <3>3. i \in 1 .. K /\ j \in 1 .. L /\ l = (i - 1) * L + j
      <4> HIDE DEF K, L
      <4> QED
        BY <3>2, RoundOf
    <3> HIDE DEF i, j
    <3>4. PICK b \in Assignments(vs) : PlaceFrom(vs, b)[n + 1] = j
      BY <1>2, <3>1, <3>3
    <3> DEFINE a == [b EXCEPT ![n] = i]
    <3>5. b \in [1 .. N -> Nat] /\ \A p \in 1 .. N : b[p] \in 1 .. Len(vs[p].conf)
      BY AssignmentFacts
    <3>6. /\ a \in [1 .. N -> Nat] /\ a[n] = i
          /\ \A p \in 1 .. N : p # n => a[p] = b[p]
      BY <3>1, <3>3, <3>5
    <3> HIDE DEF a
    <3>7. a \in Assignments(vs)
      <4>1. \A p \in 1 .. N : a[p] \in 1 .. Len(vs[p].conf)
        BY <3>3, <3>5, <3>6
      <4> QED
        BY <3>6, <4>1, AssignmentFacts
    <3>8. PlaceFrom(vs, a)[n + 1] = j
      <4>1. \A p \in n + 1 .. N : p \in 1 .. N /\ p # n
        BY <1>1, <3>1
      <4>2. \A p \in n + 1 .. N : a[p] = b[p]
        BY <3>6, <4>1
      <4> QED
        BY <3>1, <3>4, <3>7, <4>2, PlaceDepends
    <3>9. PlaceFrom(vs, a)[n] = (a[n] - 1) * C[n + 1] + PlaceFrom(vs, a)[n + 1]
      BY <3>1, <3>7, PlaceUnfolds DEF C
    <3> QED
      BY <3>3, <3>6, <3>7, <3>8, <3>9
  <2> QED
    BY <2>1, <2>2
<1>3. 1 .. N + 1 \subseteq S
  <2>1. N + 1 \in Nat
    BY <1>1
  <2> HIDE DEF S, N
  <2> QED
    BY <1>2, <2>1, Lemmas!Descend
<1> QED
  BY <1>3 DEF C, N

-----------------------------------------------------------------------------
(* The lines from a variable on: in each round those of the next variable, *)
(* each after a configuration.                                             *)
Prefixed(vs, n, x) ==
  [ln \in 1 .. Len(vs[n].conf) * Len(x) |->
     LET mystring == vs[n].name \o <<"_">> \o vs[n].conf[(ln - 1) \div Len(x) + 1]
     IN  IF n < Len(vs) THEN mystring \o <<"_">> \o x[((ln - 1) % Len(x)) + 1] ELSE mystring]

LinesFrom(vs) ==
  CHOOSE from : from = [n \in 1 .. Len(vs) + 1 |->
                          IF n > Len(vs) THEN << <<>> >> ELSE Prefixed(vs, n, from[n + 1])]

(* A configuration of a variable, written after its name.                  *)
LEMMA NamedString ==
  ASSUME NEW vs \in Seq(AVariable), NEW n \in 1 .. Len(vs),
         NEW i \in 1 .. Len(vs[n].conf), NEW sep \in Char
  PROVE  /\ vs[n].name \in Seq(Alnum) /\ vs[n].conf[i] \in Seq(Alnum)
         /\ vs[n].name \in String /\ vs[n].conf[i] \in String
         /\ vs[n].name \o <<sep>> \o vs[n].conf[i] \in String
<1>1. vs[n] \in AVariable /\ vs[n].conf[i] \in Seq(Alnum)
  BY AssignmentFacts
<1>2. vs[n].name \in Seq(Alnum)
  BY <1>1 DEF AVariable
<1>3. vs[n].name \in String /\ vs[n].conf[i] \in String
  BY <1>1, <1>2, Separators
<1>4. vs[n].name \o <<sep>> \o vs[n].conf[i] \in Seq(Char)
  <2> DEFINE s == vs[n].name
             t == vs[n].conf[i]
  <2>1. s \in Seq(Char) /\ t \in Seq(Char)
    BY <1>3 DEF String
  <2> HIDE DEF s, t
  <2>2. s \o <<sep>> \o t \in Seq(Char)
    BY <2>1, Separated
  <2> QED
    BY <2>2 DEF s, t
<1> QED
  BY <1>1, <1>2, <1>3, <1>4 DEF String

(* The lines of a round are lines.                                         *)
LEMMA PrefixedLines ==
  ASSUME NEW vs \in Seq(AVariable), NEW n \in 1 .. Len(vs),
         NEW x \in Seq(String), x # <<>>
  PROVE  /\ Prefixed(vs, n, x) \in Seq(String) /\ Prefixed(vs, n, x) # <<>>
         /\ Len(Prefixed(vs, n, x)) = Len(vs[n].conf) * Len(x)
<1> DEFINE K == Len(vs[n].conf)
           L == Len(x)
           Line(ln) ==
             LET mystring == vs[n].name \o <<"_">> \o vs[n].conf[(ln - 1) \div Len(x) + 1]
             IN  IF n < Len(vs) THEN mystring \o <<"_">> \o x[((ln - 1) % Len(x)) + 1]
                 ELSE mystring
<1>1. K \in Nat \ {0} /\ L \in Nat \ {0} /\ \A j \in 1 .. L : x[j] \in String
  <2>1. L \in Nat \ {0} /\ \A j \in 1 .. L : x[j] \in String
    BY LenProperties, ElementOfSeq
  <2> QED
    BY <2>1, AssignmentFacts
<1>2. ASSUME NEW ln \in 1 .. K * L
      PROVE  Line(ln) \in String
  <2> DEFINE i == (ln - 1) \div L + 1
             j == ((ln - 1) % L) + 1
             m == vs[n].name \o <<"_">> \o vs[n].conf[i]
  <2>1. i \in 1 .. K /\ j \in 1 .. L
    <3> HIDE DEF K, L
    <3> QED
      BY <1>1, RoundOf
  <2> HIDE DEF i, j
  <2>2. m \in String
    BY <2>1, NamedString, Separators
  <2>3. x[j] \in String
    BY <1>1, <2>1
  <2> HIDE DEF m
  <2>4. m \o <<"_">> \o x[j] \in String
    BY <2>2, <2>3, Separated, Separators DEF String
  <2>5. Line(ln) = IF n < Len(vs) THEN m \o <<"_">> \o x[j] ELSE m
    BY Zenon DEF m, i, j
  <2> HIDE DEF Line
  <2> QED
    BY <2>2, <2>4, <2>5
<1>3. Prefixed(vs, n, x) = [ln \in 1 .. K * L |-> Line(ln)]
  BY Zenon DEF Prefixed
<1> HIDE DEF Line
<1>4. K * L \in Nat \ {0}
  <2> HIDE DEF K, L
  <2> QED
    BY <1>1
<1>5. Prefixed(vs, n, x) \in [1 .. K * L -> String]
  <2> HIDE DEF K, L
  <2> QED
    BY <1>2, <1>3
<1>6. Prefixed(vs, n, x) \in Seq(String) /\ Len(Prefixed(vs, n, x)) = K * L
  <2> HIDE DEF K, L
  <2> QED
    BY <1>4, <1>5, IsSequence
<1>7. Prefixed(vs, n, x) # <<>>
  <2> HIDE DEF K, L
  <2> QED
    BY <1>4, <1>6
<1> QED
  BY <1>6, <1>7

(* From each variable on there is a line for every place.                  *)
LEMMA LinesUnfold ==
  ASSUME NEW vs \in Seq(AVariable)
  PROVE  /\ print_permutations(vs) = LinesFrom(vs)[1]
         /\ LinesFrom(vs)[Len(vs) + 1] = << <<>> >>
         /\ \A n \in 1 .. Len(vs) :
              LinesFrom(vs)[n] = Prefixed(vs, n, LinesFrom(vs)[n + 1])
         /\ \A n \in 1 .. Len(vs) + 1 :
              /\ LinesFrom(vs)[n] \in Seq(String)
              /\ Len(LinesFrom(vs)[n]) = CountFrom(vs)[n]
<1> DEFINE N == Len(vs)
           C == CountFrom(vs)
           P == LinesFrom(vs)
           V == Seq(String) \ {<<>>}
           round == [n \in 1 .. N |-> [x \in V |-> Prefixed(vs, n, x)]]
<1>1. N \in Nat
  BY LenProperties
<1>2. << <<>> >> \in V /\ Len(<< <<>> >>) = 1
  <2>1. <<>> \in String
    BY DEF String
  <2> QED
    BY <2>1, OneChar
<1>3. round \in [1 .. N -> [V -> V]]
  <2>1. \A n \in 1 .. N : \A x \in V : Prefixed(vs, n, x) \in V
    BY PrefixedLines
  <2> HIDE DEF V
  <2> QED
    BY <2>1
<1>4. PICK F : Lemmas!ComputesBack(F, N, V, << <<>> >>, round)
  <2> HIDE DEF round, V
  <2>1. Lemmas!IsLoop(N, V, << <<>> >>, round)
    BY <1>1, <1>2, <1>3 DEF Lemmas!IsLoop
  <2> QED
    BY <2>1, Lemmas!Backwards
<1>5. /\ F \in [1 .. N + 1 -> V] /\ F[N + 1] = << <<>> >>
      /\ \A n \in 1 .. N : F[n] = round[n][F[n + 1]]
  BY <1>4 DEF Lemmas!ComputesBack
<1>6. ASSUME NEW n \in 1 .. N
      PROVE  F[n] = Prefixed(vs, n, F[n + 1])
  <2>1. n + 1 \in 1 .. N + 1
    BY <1>1
  <2>2. F[n + 1] \in V
    <3> HIDE DEF V
    <3> QED BY <1>5, <2>1
  <2>3. round[n] = [x \in V |-> Prefixed(vs, n, x)]
    OBVIOUS
  <2> HIDE DEF round, V
  <2> QED
    BY <1>5, <2>2, <2>3
<1>7. \A n \in 1 .. N + 1 : (n > N <=> n = N + 1) /\ (n # N + 1 => n \in 1 .. N)
  BY <1>1
<1>8. F = [n \in 1 .. N + 1 |-> IF n > N THEN << <<>> >> ELSE Prefixed(vs, n, F[n + 1])]
  <2> HIDE DEF round, N, V
  <2> QED
    BY <1>5, <1>6, <1>7
<1>9. P = [n \in 1 .. N + 1 |-> IF n > N THEN << <<>> >> ELSE Prefixed(vs, n, P[n + 1])]
  BY <1>8, Zenon DEF LinesFrom
<1>10. print_permutations(vs) = P[1]
  BY Zenon DEF print_permutations, LinesFrom, Prefixed
<1> HIDE DEF P, round
<1>11. P[N + 1] = << <<>> >> /\ \A n \in 1 .. N : P[n] = Prefixed(vs, n, P[n + 1])
  <2>1. N + 1 \in 1 .. N + 1 /\ N + 1 > N /\ \A n \in 1 .. N : n \in 1 .. N + 1 /\ ~(n > N)
    BY <1>1
  <2> HIDE DEF N, V
  <2> QED
    BY <1>9, <2>1
<1> DEFINE S == {n \in 1 .. N + 1 : P[n] \in V /\ Len(P[n]) = C[n]}
<1>12. ASSUME NEW n \in 1 .. N + 1, \A m \in n + 1 .. N + 1 : m \in S
       PROVE  n \in S
  <2>1. CASE n = N + 1
    <3>1. C[N + 1] = 1
      BY CountUnfolds
    <3> QED
      BY <1>2, <1>11, <2>1, <3>1
  <2>2. CASE n # N + 1
    <3>1. n \in 1 .. N /\ n + 1 \in n + 1 .. N + 1
      BY <1>1, <2>2
    <3>2. P[n + 1] \in V /\ Len(P[n + 1]) = C[n + 1]
      BY <1>12, <3>1
    <3>3. P[n] \in V /\ Len(P[n]) = Len(vs[n].conf) * Len(P[n + 1])
      <4>1. P[n] = Prefixed(vs, n, P[n + 1])
        BY <1>11, <3>1
      <4> QED
        <5> DEFINE x == P[n + 1]
        <5>1. x \in Seq(String) /\ x # <<>> /\ P[n] = Prefixed(vs, n, x)
          BY <3>2, <4>1
        <5> HIDE DEF x, S, C
        <5>2. /\ Prefixed(vs, n, x) \in V
              /\ Len(Prefixed(vs, n, x)) = Len(vs[n].conf) * Len(x)
          BY <3>1, <5>1, PrefixedLines
        <5> QED
          BY <5>1, <5>2, Zenon DEF x
    <3>4. C[n] = Len(vs[n].conf) * C[n + 1]
      BY <3>1, CountUnfolds
    <3> HIDE DEF C, V
    <3> QED
      BY <3>2, <3>3, <3>4
  <2> QED
    BY <2>1, <2>2
<1>13. 1 .. N + 1 \subseteq S
  <2>1. N + 1 \in Nat
    BY <1>1
  <2> HIDE DEF S, N
  <2> QED
    BY <1>12, <2>1, Lemmas!Descend
<1> QED
  BY <1>10, <1>11, <1>13 DEF P, N, C

-----------------------------------------------------------------------------
(* What an assignment makes of the variables, with a separator in each.    *)
Words(vs, a, sep) == [n \in DOMAIN vs |-> vs[n].name \o <<sep>> \o vs[n].conf[a[n]]]

(* They are words.                                                         *)
AreWords(vs, a, sep) ==
  /\ Len(vs) \in Nat \ {0}
  /\ Words(vs, a, sep) \in Seq(String) /\ Words(vs, a, sep) # <<>>
  /\ Len(Words(vs, a, sep)) = Len(vs)
  /\ \A n \in 1 .. Len(vs) :
       /\ a[n] \in 1 .. Len(vs[n].conf)
       /\ Words(vs, a, sep)[n] = vs[n].name \o <<sep>> \o vs[n].conf[a[n]]

LEMMA WordsAreStrings ==
  ASSUME NEW vs \in Seq(AVariable), vs # <<>>, NEW a \in Assignments(vs), NEW sep \in Char
  PROVE  AreWords(vs, a, sep)
<1> DEFINE N == Len(vs)
           w == Words(vs, a, sep)
<1>1. /\ N \in Nat \ {0} /\ DOMAIN vs = 1 .. N
      /\ \A n \in 1 .. N : a[n] \in 1 .. Len(vs[n].conf)
  BY AssignmentFacts, EmptySeq, LenProperties
<1>2. \A n \in 1 .. N : vs[n].name \o <<sep>> \o vs[n].conf[a[n]] \in String
  BY <1>1, NamedString
<1>3. w = [n \in 1 .. N |-> vs[n].name \o <<sep>> \o vs[n].conf[a[n]]]
  BY <1>1 DEF Words
<1> HIDE DEF w
<1>4. \A n \in 1 .. N : w[n] = vs[n].name \o <<sep>> \o vs[n].conf[a[n]]
  BY <1>3
<1>5. w \in [1 .. N -> String]
  <2> HIDE DEF N
  <2> QED
    BY <1>2, <1>3
<1>6. w \in Seq(String) /\ Len(w) = N
  BY <1>1, <1>5, IsSequence
<1>7. w # <<>>
  BY <1>1, <1>6
<1> QED
  BY <1>1, <1>4, <1>6, <1>7, Zenon DEF w, N, AreWords

(* In the place of an assignment is the line made of its words.            *)
LEMMA LineInPlace ==
  ASSUME NEW vs \in Seq(AVariable), vs # <<>>, NEW a \in Assignments(vs)
  PROVE  /\ Place(vs, a) \in DOMAIN print_permutations(vs)
         /\ print_permutations(vs)[Place(vs, a)] = Joined("_", Words(vs, a, "_"))
<1> DEFINE N == Len(vs)
           C == CountFrom(vs)
           P == LinesFrom(vs)
           F == PlaceFrom(vs, a)
           w == Words(vs, a, "_")
           J == JoinedFrom("_", w)
           S == {n \in 1 .. N : P[n][F[n]] = J[n]}
<1>1. /\ N \in Nat \ {0}
      /\ w \in Seq(String) /\ w # <<>> /\ Len(w) = N
      /\ \A n \in 1 .. N : /\ a[n] \in 1 .. Len(vs[n].conf)
                           /\ w[n] = vs[n].name \o <<"_">> \o vs[n].conf[a[n]]
  <2>1. AreWords(vs, a, "_")
    BY WordsAreStrings, Separators
  <2> QED
    BY <2>1, Zenon DEF AreWords
<1>2. /\ \A n \in 1 .. N + 1 : C[n] \in Nat \ {0}
      /\ \A n \in 1 .. N : Len(vs[n].conf) \in Nat \ {0}
  BY AssignmentFacts, CountUnfolds
<1>3. /\ Place(vs, a) = F[1] /\ F[N + 1] = 1
      /\ \A n \in 1 .. N : F[n] = (a[n] - 1) * C[n + 1] + F[n + 1]
      /\ \A n \in 1 .. N + 1 : F[n] \in 1 .. C[n]
  BY PlaceUnfolds
<1>4. /\ print_permutations(vs) = P[1]
      /\ \A n \in 1 .. N : P[n] = Prefixed(vs, n, P[n + 1])
      /\ \A n \in 1 .. N + 1 : P[n] \in Seq(String) /\ Len(P[n]) = C[n]
  BY LinesUnfold
<1>5. /\ Joined("_", w) = J[1] /\ J[N] = w[N]
      /\ \A n \in 1 .. N - 1 : J[n] = w[n] \o <<"_">> \o J[n + 1]
  <2>1. /\ Joined("_", w) = J[1] /\ J[Len(w)] = w[Len(w)]
        /\ \A n \in 1 .. Len(w) - 1 : J[n] = w[n] \o <<"_">> \o J[n + 1]
    BY <1>1, JoinedUnfolds, Separators
  <2> HIDE DEF J, w
  <2> QED
    BY <1>1, <2>1
<1> HIDE DEF C, P, F, w, J
<1>0. N \in Nat \ {0} /\ \A n \in 1 .. N : n + 1 \in 1 .. N + 1
  <2>1. N \in Nat \ {0}
    BY <1>1
  <2> HIDE DEF N, S
  <2> QED
    BY <2>1
<1>6. ASSUME NEW n \in 1 .. N
      PROVE  P[n][F[n]] = IF n < N THEN w[n] \o <<"_">> \o P[n + 1][F[n + 1]] ELSE w[n]
  <2> DEFINE K == Len(vs[n].conf)
             L == C[n + 1]
             x == P[n + 1]
             f == F[n + 1]
             i == a[n]
             ln == (i - 1) * L + f
  <2>1. n + 1 \in 1 .. N + 1
    BY <1>0
  <2>2. K \in Nat \ {0} /\ L \in Nat \ {0} /\ i \in 1 .. K /\ f \in 1 .. L
    BY <1>1, <1>2, <1>3, <2>1
  <2>3. Len(x) = L /\ P[n] = Prefixed(vs, n, x) /\ F[n] = ln
    BY <1>3, <1>4, <2>1
  <2>4. ln \in 1 .. K * L /\ (ln - 1) \div L + 1 = i /\ ((ln - 1) % L) + 1 = f
    <3> HIDE DEF K, L, f, i, S, N
    <3> QED
      BY <2>2, LineOf
  <2>5. w[n] = vs[n].name \o <<"_">> \o vs[n].conf[i]
    BY <1>1
  <2> HIDE DEF L, x, f, i, ln, S
  <2>6. Prefixed(vs, n, x)[ln] =
          IF n < N THEN vs[n].name \o <<"_">> \o vs[n].conf[i] \o <<"_">> \o x[f]
          ELSE vs[n].name \o <<"_">> \o vs[n].conf[i]
    <3>1. ln \in 1 .. Len(vs[n].conf) * Len(x)
      BY <2>3, <2>4
    <3>2. Prefixed(vs, n, x)[ln] =
            LET mystring == vs[n].name \o <<"_">> \o vs[n].conf[(ln - 1) \div Len(x) + 1]
            IN  IF n < Len(vs) THEN mystring \o <<"_">> \o x[((ln - 1) % Len(x)) + 1]
                ELSE mystring
      BY <3>1, Zenon DEF Prefixed
    <3>3. (ln - 1) \div Len(x) + 1 = i /\ ((ln - 1) % Len(x)) + 1 = f
      BY <2>3, <2>4, Zenon
    <3> QED
      BY <3>2, <3>3, Zenon
  <2> QED
    BY <2>3, <2>5, <2>6, Zenon DEF x, f
<1>7. ASSUME NEW n \in 1 .. N, \A m \in n + 1 .. N : m \in S
      PROVE  n \in S
  <2>1. CASE n = N
    <3>1. ~(n < N)
      <4> HIDE DEF N, S
      <4> QED BY <1>0, <2>1
    <3> QED
      BY <1>5, <1>6, <2>1, <3>1
  <2>2. CASE n # N
    <3>1. n \in 1 .. N - 1 /\ n + 1 \in n + 1 .. N /\ n < N
      <4> HIDE DEF N, S
      <4> QED BY <1>0, <2>2
    <3>2. P[n + 1][F[n + 1]] = J[n + 1]
      BY <1>7, <3>1
    <3> HIDE DEF N
    <3> QED
      BY <1>5, <1>6, <3>1, <3>2
  <2> QED
    BY <2>1, <2>2
<1>8. 1 .. N \subseteq S
  <2> HIDE DEF S, N
  <2> QED
    BY <1>1, <1>7, Lemmas!Descend
<1>9. 1 \in 1 .. N /\ 1 \in 1 .. N + 1
  <2> HIDE DEF N, S
  <2> QED
    BY <1>0
<1>10. P[1][F[1]] = J[1]
  BY <1>8, <1>9
<1>11. F[1] \in 1 .. Len(P[1]) /\ P[1] \in Seq(String)
  BY <1>3, <1>4, <1>9
<1>12. F[1] \in DOMAIN P[1]
  BY <1>11, LenProperties
<1> QED
  BY <1>3, <1>4, <1>5, <1>10, <1>12 DEF w

-----------------------------------------------------------------------------
(* The underscores before a character.                                     *)
LEMMA UnderscoresUnfold ==
  ASSUME NEW s, NEW p \in Nat
  PROVE  /\ Underscores(s, 0) = 0 /\ Underscores(s, p) \in Nat
         /\ Underscores(s, p + 1) = Underscores(s, p) + (IF s[p + 1] = "_" THEN 1 ELSE 0)
<1> DEFINE U(r) == {q \in 1 .. r : s[q] = "_"}
<1>1. Underscores(s, 0) = 0
  <2>1. U(0) = {}
    OBVIOUS
  <2> QED
    BY <2>1, FS_EmptySet DEF Underscores
<1>2. IsFiniteSet(U(p)) /\ Cardinality(U(p)) \in Nat
  <2>1. IsFiniteSet(1 .. p)
    BY FS_Interval
  <2>2. IsFiniteSet(U(p))
    BY <2>1, FS_Subset
  <2> QED
    BY <2>2, FS_CardinalityType
<1>3. Cardinality(U(p + 1)) = Cardinality(U(p)) + (IF s[p + 1] = "_" THEN 1 ELSE 0)
  <2>1. \A q \in 1 .. p + 1 : q = p + 1 \/ q \in 1 .. p
    OBVIOUS
  <2>2. p + 1 \in 1 .. p + 1 /\ p + 1 \notin 1 .. p /\ \A q \in 1 .. p : q \in 1 .. p + 1
    OBVIOUS
  <2>3. CASE s[p + 1] = "_"
    <3>1. U(p + 1) = U(p) \cup {p + 1} /\ p + 1 \notin U(p)
      BY <2>1, <2>2, <2>3
    <3> HIDE DEF U
    <3> QED
      BY <1>2, <2>3, <3>1, FS_AddElement
  <2>4. CASE s[p + 1] # "_"
    <3>1. U(p + 1) = U(p)
      BY <2>1, <2>2, <2>4
    <3>2. (IF s[p + 1] = "_" THEN 1 ELSE 0) = 0
      BY <2>4
    <3> DEFINE x == Cardinality(U(p))
    <3>3. x \in Nat /\ Cardinality(U(p + 1)) = x
      BY <1>2, <3>1
    <3> HIDE DEF U, x
    <3>4. x = x + 0
      BY <3>3
    <3> QED
      BY <3>2, <3>3, <3>4, Zenon DEF x
  <2> QED
    BY <2>3, <2>4
<1> QED
  BY <1>1, <1>2, <1>3 DEF Underscores

(* The underscores of a string before another, and of one after another.   *)
LEMMA UnderscoresConcat ==
  ASSUME NEW s \in String, NEW t \in String
  PROVE  /\ \A p \in 0 .. Len(s) : Underscores(s \o t, p) = Underscores(s, p)
         /\ \A p \in 0 .. Len(t) :
              Underscores(s \o t, Len(s) + p) = Underscores(s, Len(s)) + Underscores(t, p)
<1> DEFINE u == s \o t
           N == Len(s)
           L == Len(t)
<1>1. /\ N \in Nat /\ L \in Nat /\ u \in String /\ Len(u) = N + L
      /\ \A p \in 1 .. N + L : u[p] = IF p <= N THEN s[p] ELSE t[p - N]
  BY LenProperties, ConcatProperties DEF String
<1> HIDE DEF u, N, L
<1>2. \A p \in 0 .. N : Underscores(u, p) = Underscores(s, p)
  <2> TAKE p \in 0 .. N
  <2>1. \A q \in 1 .. p : u[q] = s[q]
    BY <1>1
  <2>2. {q \in 1 .. p : u[q] = "_"} = {q \in 1 .. p : s[q] = "_"}
    BY <2>1
  <2> QED
    BY <2>2 DEF Underscores
<1> DEFINE S == {p \in 0 .. L : Underscores(u, N + p) = Underscores(s, N) + Underscores(t, p)}
<1>3. 0 \in S
  <2>1. N + 0 = N /\ N \in 0 .. N /\ 0 \in 0 .. L
    BY <1>1
  <2>2. Underscores(t, 0) = 0 /\ Underscores(s, N) \in Nat
    BY <1>1, UnderscoresUnfold
  <2>3. Underscores(u, N) = Underscores(s, N)
    BY <1>2, <2>1
  <2> QED
    BY <2>1, <2>2, <2>3
<1>4. \A p \in 0 .. L - 1 : p \in S => p + 1 \in S
  <2> SUFFICES ASSUME NEW p \in 0 .. L - 1, p \in S PROVE p + 1 \in S
    OBVIOUS
  <2>0. Underscores(u, N + p) = Underscores(s, N) + Underscores(t, p)
    OBVIOUS
  <2> HIDE DEF S
  <2>1. /\ N + p \in Nat /\ p \in Nat /\ p + 1 \in 0 .. L /\ (N + p) + 1 = N + (p + 1)
        /\ (N + p) + 1 \in 1 .. N + L /\ ~((N + p) + 1 <= N) /\ (N + p) + 1 - N = p + 1
    BY <1>1
  <2>2. u[(N + p) + 1] = t[p + 1]
    BY <1>1, <2>1
  <2>3. /\ Underscores(u, (N + p) + 1)
             = Underscores(u, N + p) + (IF u[(N + p) + 1] = "_" THEN 1 ELSE 0)
        /\ Underscores(t, p + 1) = Underscores(t, p) + (IF t[p + 1] = "_" THEN 1 ELSE 0)
        /\ Underscores(s, N) \in Nat /\ Underscores(t, p) \in Nat
    BY <1>1, <2>1, UnderscoresUnfold
  <2>4. Underscores(u, N + (p + 1)) = Underscores(s, N) + Underscores(t, p + 1)
    <3> DEFINE c == IF t[p + 1] = "_" THEN 1 ELSE 0
               x == Underscores(s, N)
               y == Underscores(t, p)
    <3>1. c \in Nat /\ x \in Nat /\ y \in Nat
      BY <2>3
    <3>2. /\ Underscores(u, N + (p + 1)) = Underscores(u, N + p) + c
          /\ Underscores(t, p + 1) = y + c
      BY <2>1, <2>2, <2>3, Zenon
    <3>3. Underscores(u, N + p) = x + y
      BY <2>0
    <3> HIDE DEF c, x, y
    <3>4. (x + y) + c = x + (y + c)
      BY <3>1
    <3> QED
      BY <3>2, <3>3, <3>4, Zenon DEF x
  <2> QED
    BY <2>1, <2>4 DEF S
<1>5. 0 .. L \subseteq S
  <2> HIDE DEF S
  <2> QED
    BY <1>1, <1>3, <1>4, Lemmas!Climb
<1> QED
  BY <1>2, <1>5 DEF u, N, L

-----------------------------------------------------------------------------
(* A line taken apart is a string of its length.                           *)
LEMMA DemuxAt ==
  ASSUME NEW s \in String
  PROVE  /\ confparser_demux(s) \in String /\ Len(confparser_demux(s)) = Len(s)
         /\ confparser_demux2(s) \in String /\ Len(confparser_demux2(s)) = Len(s)
         /\ \A p \in 1 .. Len(s) :
              /\ confparser_demux(s)[p] =
                   IF s[p] # "_" THEN s[p] ELSE IF Underscores(s, p) % 2 = 1 THEN "=" ELSE " "
              /\ confparser_demux2(s)[p] =
                   IF s[p] # "_" /\ Underscores(s, p) % 2 = 1 THEN s[p] ELSE " "
<1>1. /\ Len(s) \in Nat /\ DOMAIN s = 1 .. Len(s)
      /\ \A p \in 1 .. Len(s) : s[p] \in Char
  BY LenProperties, ElementOfSeq DEF String
<1> DEFINE d == confparser_demux(s)
           e == confparser_demux2(s)
<1>2. /\ d = [p \in 1 .. Len(s) |-> IF s[p] # "_" THEN s[p]
                ELSE IF Underscores(s, p) % 2 = 1 THEN "=" ELSE " "]
      /\ e = [p \in 1 .. Len(s) |->
                IF s[p] # "_" /\ Underscores(s, p) % 2 = 1 THEN s[p] ELSE " "]
  BY <1>1, Zenon DEF confparser_demux, confparser_demux2, EqualFirst
<1> HIDE DEF d, e
<1>3. d \in [1 .. Len(s) -> Char] /\ e \in [1 .. Len(s) -> Char]
  BY <1>1, <1>2, Separators
<1>4. d \in String /\ Len(d) = Len(s) /\ e \in String /\ Len(e) = Len(s)
  BY <1>1, <1>3, IsSequence DEF String
<1> QED
  BY <1>2, <1>4 DEF d, e

(* What follows an even number of underscores is taken apart by itself.    *)
LEMMA DemuxConcat ==
  ASSUME NEW s \in String, NEW t \in String, Underscores(s, Len(s)) % 2 = 0
  PROVE  /\ confparser_demux(s \o t) = confparser_demux(s) \o confparser_demux(t)
         /\ confparser_demux2(s \o t) = confparser_demux2(s) \o confparser_demux2(t)
<1> DEFINE u == s \o t
           N == Len(s)
           L == Len(t)
           n(r, p) == Underscores(r, p)
           d(r) == confparser_demux(r)
           e(r) == confparser_demux2(r)
<1>1. /\ N \in Nat /\ L \in Nat /\ u \in String /\ Len(u) = N + L
      /\ \A p \in 1 .. N + L : u[p] = IF p <= N THEN s[p] ELSE t[p - N]
  BY LenProperties, ConcatProperties DEF String
<1>2. /\ \A p \in 0 .. N : n(u, p) = n(s, p)
      /\ \A p \in 0 .. L : n(u, N + p) = n(s, N) + n(t, p)
      /\ \A p \in Nat : n(s, p) \in Nat /\ n(t, p) \in Nat
  BY UnderscoresConcat, UnderscoresUnfold
<1>3. n(s, N) % 2 = 0
  OBVIOUS
<1> HIDE DEF u, N, L
<1>4. /\ d(u) \in Seq(Char) /\ Len(d(u)) = N + L /\ e(u) \in Seq(Char) /\ Len(e(u)) = N + L
      /\ d(s) \in Seq(Char) /\ Len(d(s)) = N /\ e(s) \in Seq(Char) /\ Len(e(s)) = N
      /\ d(t) \in Seq(Char) /\ Len(d(t)) = L /\ e(t) \in Seq(Char) /\ Len(e(t)) = L
  BY <1>1, DemuxAt DEF N, L, String
<1>5. \A p \in 1 .. N + L :
        /\ d(u)[p] = IF u[p] # "_" THEN u[p] ELSE IF n(u, p) % 2 = 1 THEN "=" ELSE " "
        /\ e(u)[p] = IF u[p] # "_" /\ n(u, p) % 2 = 1 THEN u[p] ELSE " "
  BY <1>1, DemuxAt
<1>6. \A p \in 1 .. N :
        /\ d(s)[p] = IF s[p] # "_" THEN s[p] ELSE IF n(s, p) % 2 = 1 THEN "=" ELSE " "
        /\ e(s)[p] = IF s[p] # "_" /\ n(s, p) % 2 = 1 THEN s[p] ELSE " "
  BY DemuxAt DEF N
<1>7. \A p \in 1 .. L :
        /\ d(t)[p] = IF t[p] # "_" THEN t[p] ELSE IF n(t, p) % 2 = 1 THEN "=" ELSE " "
        /\ e(t)[p] = IF t[p] # "_" /\ n(t, p) % 2 = 1 THEN t[p] ELSE " "
  BY DemuxAt DEF L
<1> HIDE DEF d, e, n
<1>8. ASSUME NEW p \in 1 .. N + L
      PROVE  /\ d(u)[p] = IF p <= N THEN d(s)[p] ELSE d(t)[p - N]
             /\ e(u)[p] = IF p <= N THEN e(s)[p] ELSE e(t)[p - N]
  <2>1. CASE p <= N
    <3>1. p \in 1 .. N /\ p \in 0 .. N
      BY <1>1, <2>1
    <3>2. u[p] = s[p] /\ n(u, p) = n(s, p)
      BY <1>1, <1>2, <2>1, <3>1
    <3> QED
      BY <1>5, <1>6, <2>1, <3>1, <3>2
  <2>2. CASE ~(p <= N)
    <3> DEFINE q == p - N
    <3>1. q \in 1 .. L /\ q \in 0 .. L /\ N + q = p /\ q \in Nat
      BY <1>1, <2>2
    <3>2. u[p] = t[q] /\ n(u, p) = n(s, N) + n(t, q)
      BY <1>1, <1>2, <2>2, <3>1
    <3>3. n(u, p) % 2 = 1 <=> n(t, q) % 2 = 1
      <4> DEFINE x == n(s, N)
                 y == n(t, q)
      <4>1. x \in Nat /\ y \in Nat /\ x % 2 = 0
        BY <1>1, <1>2, <1>3, <3>1
      <4> HIDE DEF x, y
      <4>2. (x + y) % 2 = 1 <=> y % 2 = 1
        BY <4>1
      <4> QED
        BY <3>2, <4>2 DEF x, y
    <3> HIDE DEF q
    <3>4. /\ d(u)[p] = d(t)[q]
          /\ e(u)[p] = e(t)[q]
      BY <1>5, <1>7, <3>1, <3>2, <3>3
    <3> QED
      BY <2>2, <3>4 DEF q
  <2> QED
    BY <2>1, <2>2
<1>9. /\ d(s) \o d(t) \in Seq(Char) /\ Len(d(s) \o d(t)) = N + L
      /\ \A p \in 1 .. N + L : (d(s) \o d(t))[p] = IF p <= N THEN d(s)[p] ELSE d(t)[p - N]
  <2> DEFINE x == d(s)
             y == d(t)
  <2>1. x \in Seq(Char) /\ y \in Seq(Char) /\ Len(x) = N /\ Len(y) = L
    BY <1>4
  <2> DEFINE c == x \o y
  <2> HIDE DEF x, y
  <2>2. /\ c \in Seq(Char) /\ Len(c) = Len(x) + Len(y)
        /\ \A p \in 1 .. Len(x) + Len(y) : c[p] = IF p <= Len(x) THEN x[p] ELSE y[p - Len(x)]
    BY <2>1, ConcatProperties, Zenon
  <2> HIDE DEF c, N, L
  <2>3. /\ c \in Seq(Char) /\ Len(c) = N + L
        /\ \A p \in 1 .. N + L : c[p] = IF p <= N THEN x[p] ELSE y[p - N]
    BY <2>1, <2>2
  <2> QED
    BY <2>3, Zenon DEF x, y, c
<1>10. /\ e(s) \o e(t) \in Seq(Char) /\ Len(e(s) \o e(t)) = N + L
       /\ \A p \in 1 .. N + L : (e(s) \o e(t))[p] = IF p <= N THEN e(s)[p] ELSE e(t)[p - N]
  <2> DEFINE x == e(s)
             y == e(t)
  <2>1. x \in Seq(Char) /\ y \in Seq(Char) /\ Len(x) = N /\ Len(y) = L
    BY <1>4
  <2> DEFINE c == x \o y
  <2> HIDE DEF x, y
  <2>2. /\ c \in Seq(Char) /\ Len(c) = Len(x) + Len(y)
        /\ \A p \in 1 .. Len(x) + Len(y) : c[p] = IF p <= Len(x) THEN x[p] ELSE y[p - Len(x)]
    BY <2>1, ConcatProperties, Zenon
  <2> HIDE DEF c, N, L
  <2>3. /\ c \in Seq(Char) /\ Len(c) = N + L
        /\ \A p \in 1 .. N + L : c[p] = IF p <= N THEN x[p] ELSE y[p - N]
    BY <2>1, <2>2
  <2> QED
    BY <2>3, Zenon DEF x, y, c
<1>11. d(u) = d(s) \o d(t)
  <2>1. \A p \in 1 .. Len(d(u)) : d(u)[p] = (d(s) \o d(t))[p]
    BY <1>4, <1>8, <1>9
  <2> QED
    BY <1>4, <1>9, <2>1, SeqEqual
<1>12. e(u) = e(s) \o e(t)
  <2>1. \A p \in 1 .. Len(e(u)) : e(u)[p] = (e(s) \o e(t))[p]
    BY <1>4, <1>8, <1>10
  <2> QED
    BY <1>4, <1>10, <2>1, SeqEqual
<1> QED
  BY <1>11, <1>12 DEF u, d, e

-----------------------------------------------------------------------------
(* A name and a configuration, taken apart.                                *)
Blank(name) == [p \in 1 .. Len(name) + 1 |-> " "]

LEMMA WordDemuxed ==
  ASSUME NEW name \in Seq(Alnum), NEW conf \in Seq(Alnum)
  PROVE  /\ name \o <<"_">> \o conf \in String /\ name \o <<"=">> \o conf \in String
         /\ Blank(name) \o conf \in String
         /\ \A p \in 0 .. Len(name) + 1 + Len(conf) :
              Underscores(name \o <<"_">> \o conf, p) = IF p <= Len(name) THEN 0 ELSE 1
         /\ Len(name \o <<"_">> \o conf) = Len(name) + 1 + Len(conf)
         /\ confparser_demux(name \o <<"_">> \o conf) = name \o <<"=">> \o conf
         /\ confparser_demux2(name \o <<"_">> \o conf) = Blank(name) \o conf
<1> DEFINE A == Len(name)
           B == Len(conf)
           m == name \o <<"_">> \o conf
           w == name \o <<"=">> \o conf
           b == Blank(name)
           v == b \o conf
           d == confparser_demux(m)
           e == confparser_demux2(m)
<1>1. /\ A \in Nat /\ B \in Nat /\ name \in Seq(Char) /\ conf \in Seq(Char)
      /\ \A p \in 1 .. A : name[p] \in Alnum
      /\ \A p \in 1 .. B : conf[p] \in Alnum
  BY LenProperties, ElementOfSeq, Separators DEF String
<1>0. \A c \in Char :
        /\ name \o <<c>> \o conf \in Seq(Char)
        /\ Len(name \o <<c>> \o conf) = Len(name) + 1 + Len(conf)
        /\ \A p \in 1 .. Len(name) : (name \o <<c>> \o conf)[p] = name[p]
        /\ (name \o <<c>> \o conf)[Len(name) + 1] = c
        /\ \A p \in 1 .. Len(conf) : (name \o <<c>> \o conf)[Len(name) + 1 + p] = conf[p]
  <2> TAKE c \in Char
  <2> DEFINE x == name
             y == conf
  <2>1. x \in Seq(Char) /\ y \in Seq(Char)
    BY <1>1
  <2> HIDE DEF x, y, A, B, m, w, b, v, d, e
  <2>2. /\ x \o <<c>> \o y \in Seq(Char)
        /\ Len(x \o <<c>> \o y) = Len(x) + 1 + Len(y)
        /\ \A p \in 1 .. Len(x) : (x \o <<c>> \o y)[p] = x[p]
        /\ (x \o <<c>> \o y)[Len(x) + 1] = c
        /\ \A p \in 1 .. Len(y) : (x \o <<c>> \o y)[Len(x) + 1 + p] = y[p]
    BY <2>1, Separated
  <2> QED
    BY <2>2, Zenon DEF x, y
<1>2. /\ m \in Seq(Char) /\ Len(m) = A + 1 + B /\ m[A + 1] = "_"
      /\ \A p \in 1 .. A : m[p] = name[p]
      /\ \A p \in 1 .. B : m[A + 1 + p] = conf[p]
  BY <1>0, Separators
<1>3. /\ w \in Seq(Char) /\ Len(w) = A + 1 + B /\ w[A + 1] = "="
      /\ \A p \in 1 .. A : w[p] = name[p]
      /\ \A p \in 1 .. B : w[A + 1 + p] = conf[p]
  BY <1>0, Separators
<1>4. b \in Seq(Char) /\ Len(b) = A + 1 /\ \A p \in 1 .. A + 1 : b[p] = " "
  <2>1. A + 1 \in Nat /\ b = [p \in 1 .. A + 1 |-> " "]
    BY <1>1 DEF Blank
  <2> HIDE DEF A, b
  <2>2. b \in [1 .. A + 1 -> Char]
    BY <2>1, Separators
  <2> QED
    BY <2>1, <2>2, IsSequence
<1> HIDE DEF b
<1>5. /\ v \in Seq(Char) /\ Len(v) = (A + 1) + B
      /\ \A p \in 1 .. (A + 1) + B : v[p] = IF p <= A + 1 THEN b[p] ELSE conf[p - (A + 1)]
  <2>1. b \in Seq(Char) /\ conf \in Seq(Char) /\ Len(b) = A + 1 /\ Len(conf) = B
    BY <1>1, <1>4
  <2>2. /\ v \in Seq(Char) /\ Len(v) = Len(b) + Len(conf)
        /\ \A p \in 1 .. Len(b) + Len(conf) :
             v[p] = IF p <= Len(b) THEN b[p] ELSE conf[p - Len(b)]
    BY <2>1, ConcatProperties
  <2> HIDE DEF v, A, B
  <2> QED
    BY <2>1, <2>2
<1> HIDE DEF A, B, m, w, v
<1>6. /\ d \in Seq(Char) /\ Len(d) = A + 1 + B /\ e \in Seq(Char) /\ Len(e) = A + 1 + B
      /\ \A p \in 1 .. A + 1 + B :
           /\ d[p] = IF m[p] # "_" THEN m[p] ELSE IF Underscores(m, p) % 2 = 1 THEN "=" ELSE " "
           /\ e[p] = IF m[p] # "_" /\ Underscores(m, p) % 2 = 1 THEN m[p] ELSE " "
  BY <1>2, DemuxAt DEF String
<1> HIDE DEF d, e
<1>7. \A p \in 1 .. A + 1 + B :
        \/ p \in 1 .. A
        \/ p = A + 1
        \/ p - (A + 1) \in 1 .. B /\ A + 1 + (p - (A + 1)) = p /\ ~(p <= A) /\ ~(p <= A + 1)
  BY <1>1
<1>8. \A p \in 1 .. A : m[p] # "_"
  BY <1>1, <1>2, Separators
<1>9. \A p \in 1 .. B : conf[p] # "_"
  BY <1>1, Separators
<1>10. ASSUME NEW p \in 0 .. A + 1 + B
       PROVE  Underscores(m, p) = IF p <= A THEN 0 ELSE 1
  <2> DEFINE U == {q \in 1 .. p : m[q] = "_"}
  <2>1. CASE p <= A
    <3>1. \A q \in 1 .. p : q \in 1 .. A
      BY <1>1, <2>1
    <3>2. U = {}
      BY <1>8, <3>1
    <3> QED
      BY <2>1, <3>2, FS_EmptySet DEF Underscores
  <2>2. CASE ~(p <= A)
    <3>1. A + 1 \in 1 .. p /\ \A q \in 1 .. p : q \in 1 .. A + 1 + B
      BY <1>1, <2>2
    <3>2. \A q \in U : q = A + 1
      <4> TAKE q \in U
      <4>1. q \in 1 .. A + 1 + B /\ m[q] = "_"
        BY <3>1
      <4>2. CASE q \in 1 .. A
        BY <1>8, <4>1, <4>2
      <4>3. CASE q - (A + 1) \in 1 .. B /\ A + 1 + (q - (A + 1)) = q
        <5>1. m[A + 1 + (q - (A + 1))] = conf[q - (A + 1)] /\ conf[q - (A + 1)] # "_"
          BY <1>2, <1>9, <4>3
        <5> QED
          BY <4>1, <4>3, <5>1
      <4> QED
        BY <1>7, <4>1, <4>2, <4>3
    <3>3. A + 1 \in U
      BY <1>2, <3>1
    <3>4. U = {A + 1}
      BY <3>2, <3>3, Zenon
    <3>5. Cardinality(U) = 1
      BY <3>4, FS_Singleton, Zenon
    <3> QED
      BY <2>2, <3>5 DEF Underscores
  <2> QED
    BY <2>1, <2>2
<1>11. ASSUME NEW p \in 1 .. A + 1 + B
       PROVE  d[p] = w[p] /\ e[p] = v[p]
  <2>1. /\ Underscores(m, p) = IF p <= A THEN 0 ELSE 1
        /\ p \in 1 .. (A + 1) + B
    <3>1. p \in 0 .. A + 1 + B /\ p \in 1 .. (A + 1) + B
      BY <1>1
    <3> QED
      BY <1>10, <3>1
  <2>2. CASE p \in 1 .. A
    <3>1. p <= A /\ p <= A + 1 /\ p \in 1 .. A + 1
      BY <1>1, <2>2
    <3>2. Underscores(m, p) % 2 = 0
      BY <2>1, <3>1
    <3>3. d[p] = m[p] /\ e[p] = " "
      <4>1. m[p] # "_" /\ ~(Underscores(m, p) % 2 = 1)
        <5>1. m[p] # "_"
          BY <1>8, <2>2, Zenon
        <5>2. ~(Underscores(m, p) % 2 = 1)
          <6> DEFINE x == Underscores(m, p) % 2
          <6>1. x = 0
            BY <3>2, Zenon
          <6> HIDE DEF x
          <6>2. x # 1
            BY <6>1
          <6> QED
            BY <6>2 DEF x
        <5> QED
          BY <5>1, <5>2
      <4> QED
        BY <1>6, <4>1, Zenon
    <3>4. v[p] = " "
      BY <1>4, <1>5, <2>1, <3>1
    <3> QED
      BY <1>2, <1>3, <2>2, <3>3, <3>4
  <2>3. CASE p = A + 1
    <3>1. ~(p <= A) /\ p <= A + 1 /\ p \in 1 .. A + 1
      BY <1>1, <2>3
    <3>2. Underscores(m, p) % 2 = 1
      BY <2>1, <3>1
    <3>3. d[p] = "=" /\ e[p] = " "
      BY <1>2, <1>6, <2>3, <3>2
    <3>4. v[p] = " "
      BY <1>4, <1>5, <2>1, <3>1
    <3> QED
      BY <1>3, <2>3, <3>3, <3>4
  <2>4. CASE p - (A + 1) \in 1 .. B /\ A + 1 + (p - (A + 1)) = p /\ ~(p <= A) /\ ~(p <= A + 1)
    <3> DEFINE q == p - (A + 1)
    <3>1. q \in 1 .. B /\ A + 1 + q = p
      BY <2>4
    <3>2. Underscores(m, p) % 2 = 1
      BY <2>1, <2>4
    <3>3. v[p] = conf[q]
      BY <1>5, <2>1, <2>4
    <3> HIDE DEF q
    <3>4. m[p] = conf[q] /\ w[p] = conf[q] /\ conf[q] # "_"
      BY <1>2, <1>3, <1>9, <3>1
    <3>5. d[p] = conf[q] /\ e[p] = conf[q]
      BY <1>6, <3>2, <3>4
    <3> QED
      BY <3>3, <3>4, <3>5
  <2>5. \/ p \in 1 .. A
        \/ p = A + 1
        \/ p - (A + 1) \in 1 .. B /\ A + 1 + (p - (A + 1)) = p /\ ~(p <= A) /\ ~(p <= A + 1)
    <3>1. p \in 1 .. A + 1 + B
      OBVIOUS
    <3> QED
      BY <1>7, <3>1, Zenon
  <2> QED
    BY <2>2, <2>3, <2>4, <2>5, Zenon
<1>12. d = w
  <2>1. Len(d) = Len(w) /\ \A p \in 1 .. Len(d) : d[p] = w[p]
    BY <1>3, <1>6, <1>11
  <2> QED
    BY <1>3, <1>6, <2>1, SeqEqual
<1>13. e = v
  <2>1. Len(e) = Len(v)
    BY <1>1, <1>5, <1>6
  <2> QED
    BY <1>5, <1>6, <1>11, <2>1, SeqEqual
<1>14. m \in String /\ w \in String /\ v \in String
  BY <1>2, <1>3, <1>5 DEF String
<1> QED
  BY <1>2, <1>10, <1>12, <1>13, <1>14 DEF A, B, m, w, v, d, e, b

(* Before another underscore it is the same, and a blank.                  *)
LEMMA WordBefore ==
  ASSUME NEW m \in String, Underscores(m, Len(m)) = 1
  PROVE  /\ m \o <<"_">> \in String
         /\ Underscores(m \o <<"_">>, Len(m \o <<"_">>)) % 2 = 0
         /\ confparser_demux(m \o <<"_">>) = confparser_demux(m) \o <<" ">>
         /\ confparser_demux2(m \o <<"_">>) = confparser_demux2(m) \o <<" ">>
<1> DEFINE M == Len(m)
           x == m \o <<"_">>
           D == confparser_demux(m)
           E == confparser_demux2(m)
           d == confparser_demux(x)
           e == confparser_demux2(x)
<1>0. M \in Nat
  BY LenProperties DEF String
<1>1. /\ M \in Nat /\ <<"_">> \in Seq(Char) /\ Len(<<"_">>) = 1 /\ <<"_">>[1] = "_"
      /\ <<" ">> \in Seq(Char) /\ Len(<<" ">>) = 1 /\ <<" ">>[1] = " "
  BY LenProperties, Separators, OneChar DEF String
<1>2. /\ x \in Seq(Char) /\ Len(x) = M + 1
      /\ \A p \in 1 .. M + 1 : x[p] = IF p <= M THEN m[p] ELSE <<"_">>[p - M]
  <2>1. m \in Seq(Char)
    BY DEF String
  <2>2. /\ x \in Seq(Char) /\ Len(x) = M + Len(<<"_">>)
        /\ \A p \in 1 .. M + Len(<<"_">>) : x[p] = IF p <= M THEN m[p] ELSE <<"_">>[p - M]
    BY <1>1, <2>1, ConcatProperties, Zenon
  <2> QED
    BY <1>1, <2>2, Zenon
<1>3. /\ \A p \in 0 .. M : Underscores(x, p) = Underscores(m, p)
      /\ Underscores(m, M) = 1
  BY <1>1, UnderscoresConcat DEF String
<1>4. Underscores(x, M + 1) = Underscores(x, M) + (IF x[M + 1] = "_" THEN 1 ELSE 0)
  BY <1>1, UnderscoresUnfold
<1> HIDE DEF x, M
<1>5. x[M + 1] = "_" /\ \A p \in 1 .. M : x[p] = m[p] /\ p \in 1 .. M + 1 /\ p \in 0 .. M
  <2>1. M + 1 \in 1 .. M + 1 /\ ~(M + 1 <= M) /\ (M + 1) - M = 1
    BY <1>0
  <2>2. \A p \in 1 .. M : p <= M /\ p \in 1 .. M + 1 /\ p \in 0 .. M
    BY <1>0
  <2> QED
    BY <1>1, <1>2, <2>1, <2>2
<1>6. Underscores(x, M + 1) = 2
  <2>1. M \in 0 .. M
    BY <1>0
  <2>2. Underscores(x, M) = 1
    BY <1>3, <2>1
  <2>3. Underscores(x, M + 1) = 1 + 1
    BY <1>4, <1>5, <2>2, Zenon
  <2> QED
    BY <2>3
<1>7. /\ D \in Seq(Char) /\ Len(D) = M /\ E \in Seq(Char) /\ Len(E) = M
      /\ \A p \in 1 .. M :
           /\ D[p] = IF m[p] # "_" THEN m[p] ELSE IF Underscores(m, p) % 2 = 1 THEN "=" ELSE " "
           /\ E[p] = IF m[p] # "_" /\ Underscores(m, p) % 2 = 1 THEN m[p] ELSE " "
  BY DemuxAt DEF String, M
<1>8. /\ d \in Seq(Char) /\ Len(d) = M + 1 /\ e \in Seq(Char) /\ Len(e) = M + 1
      /\ \A p \in 1 .. M + 1 :
           /\ d[p] = IF x[p] # "_" THEN x[p] ELSE IF Underscores(x, p) % 2 = 1 THEN "=" ELSE " "
           /\ e[p] = IF x[p] # "_" /\ Underscores(x, p) % 2 = 1 THEN x[p] ELSE " "
  BY <1>2, DemuxAt DEF String
<1> HIDE DEF D, E, d, e
<1>9. ASSUME NEW p \in 1 .. M
      PROVE  d[p] = D[p] /\ e[p] = E[p]
  <2>1. x[p] = m[p] /\ p \in 1 .. M + 1 /\ Underscores(x, p) = Underscores(m, p)
    BY <1>3, <1>5, Zenon
  <2>2. /\ d[p] = IF m[p] # "_" THEN m[p] ELSE IF Underscores(m, p) % 2 = 1 THEN "=" ELSE " "
        /\ e[p] = IF m[p] # "_" /\ Underscores(m, p) % 2 = 1 THEN m[p] ELSE " "
    BY <1>8, <2>1, Zenon
  <2> QED
    BY <1>7, <2>2, Zenon
<1>10. d[M + 1] = " " /\ e[M + 1] = " "
  <2>1. M + 1 \in 1 .. M + 1 /\ ~(2 % 2 = 1)
    BY <1>0
  <2>2. x[M + 1] = "_" /\ ~(Underscores(x, M + 1) % 2 = 1)
    BY <1>5, <1>6, <2>1, Zenon
  <2> QED
    BY <1>8, <2>1, <2>2, Zenon
<1>11. \A p \in 1 .. M + 1 : (p <= M => p \in 1 .. M) /\ (~(p <= M) => p = M + 1 /\ p - M = 1)
  BY <1>0
<1>12. d = D \o <<" ">>
  <2>1. /\ D \o <<" ">> \in Seq(Char) /\ Len(D \o <<" ">>) = M + 1
        /\ \A p \in 1 .. M + 1 : (D \o <<" ">>)[p] = IF p <= M THEN D[p] ELSE <<" ">>[p - M]
    <3>1. D \in Seq(Char) /\ Len(D) = M /\ <<" ">> \in Seq(Char) /\ Len(<<" ">>) = 1
      BY <1>1, <1>7
    <3>2. /\ D \o <<" ">> \in Seq(Char) /\ Len(D \o <<" ">>) = Len(D) + Len(<<" ">>)
          /\ \A p \in 1 .. Len(D) + Len(<<" ">>) :
               (D \o <<" ">>)[p] = IF p <= Len(D) THEN D[p] ELSE <<" ">>[p - Len(D)]
      BY <3>1, ConcatProperties
    <3> QED
      BY <3>1, <3>2, Zenon
  <2>2. \A p \in 1 .. M + 1 : d[p] = (D \o <<" ">>)[p]
    BY <1>1, <1>9, <1>10, <1>11, <2>1
  <2> QED
    BY <1>8, <2>1, <2>2, SeqEqual
<1>13. e = E \o <<" ">>
  <2>1. /\ E \o <<" ">> \in Seq(Char) /\ Len(E \o <<" ">>) = M + 1
        /\ \A p \in 1 .. M + 1 : (E \o <<" ">>)[p] = IF p <= M THEN E[p] ELSE <<" ">>[p - M]
    <3>1. E \in Seq(Char) /\ Len(E) = M /\ <<" ">> \in Seq(Char) /\ Len(<<" ">>) = 1
      BY <1>1, <1>7
    <3>2. /\ E \o <<" ">> \in Seq(Char) /\ Len(E \o <<" ">>) = Len(E) + Len(<<" ">>)
          /\ \A p \in 1 .. Len(E) + Len(<<" ">>) :
               (E \o <<" ">>)[p] = IF p <= Len(E) THEN E[p] ELSE <<" ">>[p - Len(E)]
      BY <3>1, ConcatProperties
    <3> QED
      BY <3>1, <3>2, Zenon
  <2>2. \A p \in 1 .. M + 1 : e[p] = (E \o <<" ">>)[p]
    BY <1>1, <1>9, <1>10, <1>11, <2>1
  <2> QED
    BY <1>8, <2>1, <2>2, SeqEqual
<1>14. Underscores(x, Len(x)) % 2 = 0
  <2>1. Underscores(x, Len(x)) = 2
    BY <1>2, <1>6, Zenon
  <2> QED
    BY <2>1
<1> QED
  BY <1>2, <1>12, <1>13, <1>14 DEF x, d, e, D, E, String

-----------------------------------------------------------------------------
(* What confparser_demux2 leaves of the words.                             *)
Blanks(vs, a) ==
  [n \in DOMAIN vs |->
     [p \in 1 .. Len(vs[n].name) + 1 |-> " "] \o vs[n].conf[a[n]]]

(* The line of an assignment, taken apart: a word after the other.         *)
LEMMA LineDemuxed ==
  ASSUME NEW vs \in Seq(AVariable), vs # <<>>, NEW a \in Assignments(vs)
  PROVE  LET line == Joined("_", Words(vs, a, "_"))
         IN  /\ confparser_demux(line) = Joined(" ", Words(vs, a, "="))
             /\ confparser_demux2(line) = Joined(" ", Blanks(vs, a))
<1> DEFINE N == Len(vs)
           w == Words(vs, a, "_")
           v == Words(vs, a, "=")
           b == Blanks(vs, a)
           J == JoinedFrom("_", w)
           K == JoinedFrom(" ", v)
           L == JoinedFrom(" ", b)
           d(s) == confparser_demux(s)
           e(s) == confparser_demux2(s)
           S == {n \in 1 .. N : d(J[n]) = K[n] /\ e(J[n]) = L[n]}
<1>1. /\ N \in Nat \ {0} /\ DOMAIN vs = 1 .. N
      /\ w \in Seq(String) /\ w # <<>> /\ Len(w) = N
      /\ v \in Seq(String) /\ v # <<>> /\ Len(v) = N
      /\ \A n \in 1 .. N : /\ a[n] \in 1 .. Len(vs[n].conf)
                           /\ w[n] = vs[n].name \o <<"_">> \o vs[n].conf[a[n]]
                           /\ v[n] = vs[n].name \o <<"=">> \o vs[n].conf[a[n]]
  <2>1. AreWords(vs, a, "_") /\ AreWords(vs, a, "=")
    BY WordsAreStrings, Separators
  <2>2. /\ N \in Nat \ {0}
        /\ w \in Seq(String) /\ w # <<>> /\ Len(w) = N
        /\ \A n \in 1 .. N : /\ a[n] \in 1 .. Len(vs[n].conf)
                             /\ w[n] = vs[n].name \o <<"_">> \o vs[n].conf[a[n]]
    BY <2>1, Zenon DEF AreWords
  <2>3. /\ v \in Seq(String) /\ v # <<>> /\ Len(v) = N
        /\ \A n \in 1 .. N : v[n] = vs[n].name \o <<"=">> \o vs[n].conf[a[n]]
    BY <2>1, Zenon DEF AreWords
  <2>4. DOMAIN vs = 1 .. N
    BY LenProperties
  <2> HIDE DEF N, w, v, J, K
  <2> QED
    BY <2>2, <2>3, <2>4
<1>0. N \in Nat \ {0}
  BY <1>1, Zenon
<1> HIDE DEF N, w, v
<1>2. \A n \in 1 .. N : b[n] = Blank(vs[n].name) \o vs[n].conf[a[n]]
  BY <1>1 DEF Blank, Blanks
<1>3. ASSUME NEW n \in 1 .. N
      PROVE  /\ w[n] \in String /\ b[n] \in String /\ Underscores(w[n], Len(w[n])) = 1
             /\ d(w[n]) = v[n] /\ e(w[n]) = b[n]
  <2> DEFINE s == vs[n].name
             c == vs[n].conf[a[n]]
  <2>1. /\ s \in Seq(Alnum) /\ c \in Seq(Alnum)
        /\ w[n] = s \o <<"_">> \o c /\ v[n] = s \o <<"=">> \o c /\ b[n] = Blank(s) \o c
    BY <1>1, <1>2, NamedString, Separators DEF N
  <2> HIDE DEF s, c, b, S
  <2>2. Len(s) \in Nat /\ Len(c) \in Nat
    BY <2>1, LenProperties
  <2>3. /\ s \o <<"_">> \o c \in String /\ Blank(s) \o c \in String
        /\ \A p \in 0 .. Len(s) + 1 + Len(c) :
             Underscores(s \o <<"_">> \o c, p) = IF p <= Len(s) THEN 0 ELSE 1
        /\ Len(s \o <<"_">> \o c) = Len(s) + 1 + Len(c)
        /\ d(s \o <<"_">> \o c) = s \o <<"=">> \o c
        /\ e(s \o <<"_">> \o c) = Blank(s) \o c
    BY <2>1, WordDemuxed
  <2>4. /\ Len(s) + 1 + Len(c) \in 0 .. Len(s) + 1 + Len(c)
        /\ ~(Len(s) + 1 + Len(c) <= Len(s))
    BY <2>2
  <2> HIDE DEF d, e
  <2> QED
    BY <2>1, <2>3, <2>4, Zenon
<1>4. b \in Seq(String) /\ b # <<>> /\ Len(b) = N
  <2>1. b \in [1 .. N -> String]
    <3>1. b = [n \in 1 .. N |-> b[n]]
      BY <1>1 DEF Blanks
    <3> HIDE DEF b, S
    <3> QED
      BY <1>3, <3>1
  <2> HIDE DEF b, S
  <2>2. b \in Seq(String) /\ Len(b) = N
    BY <1>0, <2>1, IsSequence
  <2> QED
    BY <1>0, <2>2
<1> HIDE DEF b
<1>5. /\ Joined("_", w) = J[1] /\ J[N] = w[N]
      /\ \A n \in 1 .. N : J[n] \in String
      /\ \A n \in 1 .. N - 1 : J[n] = w[n] \o <<"_">> \o J[n + 1]
  <2>1. /\ Joined("_", w) = J[1] /\ J[Len(w)] = w[Len(w)]
        /\ \A n \in 1 .. Len(w) : J[n] \in String
        /\ \A n \in 1 .. Len(w) - 1 : J[n] = w[n] \o <<"_">> \o J[n + 1]
    BY <1>1, JoinedUnfolds, Separators
  <2>2. Len(w) = N
    BY <1>1, Zenon
  <2> HIDE DEF J
  <2> QED
    BY <2>1, <2>2, Zenon
<1>6. /\ Joined(" ", v) = K[1] /\ K[N] = v[N]
      /\ \A n \in 1 .. N - 1 : K[n] = v[n] \o <<" ">> \o K[n + 1]
  <2>1. /\ Joined(" ", v) = K[1] /\ K[Len(v)] = v[Len(v)]
        /\ \A n \in 1 .. Len(v) - 1 : K[n] = v[n] \o <<" ">> \o K[n + 1]
    BY <1>1, JoinedUnfolds, Separators
  <2>2. Len(v) = N
    BY <1>1, Zenon
  <2> HIDE DEF K
  <2> QED
    BY <2>1, <2>2, Zenon
<1>7. /\ Joined(" ", b) = L[1] /\ L[N] = b[N]
      /\ \A n \in 1 .. N - 1 : L[n] = b[n] \o <<" ">> \o L[n + 1]
  <2>1. /\ Joined(" ", b) = L[1] /\ L[Len(b)] = b[Len(b)]
        /\ \A n \in 1 .. Len(b) - 1 : L[n] = b[n] \o <<" ">> \o L[n + 1]
    BY <1>4, JoinedUnfolds, Separators
  <2>2. Len(b) = N
    BY <1>4, Zenon
  <2> HIDE DEF L
  <2> QED
    BY <2>1, <2>2, Zenon
<1> HIDE DEF J, K, L, d, e
<1>8. ASSUME NEW n \in 1 .. N, \A m \in n + 1 .. N : m \in S
      PROVE  n \in S
  <2>1. CASE n = N
    BY <1>3, <1>5, <1>6, <1>7, <2>1
  <2>2. CASE n # N
    <3>1. n \in 1 .. N - 1 /\ n + 1 \in n + 1 .. N /\ n + 1 \in 1 .. N
      <4> HIDE DEF S
      <4> QED BY <1>0, <2>2
    <3>2. d(J[n + 1]) = K[n + 1] /\ e(J[n + 1]) = L[n + 1]
      BY <1>8, <3>1
    <3> HIDE DEF S
    <3>3. w[n] \in String /\ Underscores(w[n], Len(w[n])) = 1 /\ J[n + 1] \in String
      BY <1>3, <1>5, <3>1
    <3>4. /\ w[n] \o <<"_">> \in String
          /\ Underscores(w[n] \o <<"_">>, Len(w[n] \o <<"_">>)) % 2 = 0
          /\ d(w[n] \o <<"_">>) = d(w[n]) \o <<" ">>
          /\ e(w[n] \o <<"_">>) = e(w[n]) \o <<" ">>
      BY <3>3, WordBefore DEF d, e
    <3>5. /\ d(w[n] \o <<"_">> \o J[n + 1]) = d(w[n] \o <<"_">>) \o d(J[n + 1])
          /\ e(w[n] \o <<"_">> \o J[n + 1]) = e(w[n] \o <<"_">>) \o e(J[n + 1])
      BY <3>3, <3>4, DemuxConcat DEF d, e
    <3>6. d(J[n]) = K[n] /\ e(J[n]) = L[n]
      <4>1. /\ J[n] = w[n] \o <<"_">> \o J[n + 1]
            /\ K[n] = v[n] \o <<" ">> \o K[n + 1] /\ L[n] = b[n] \o <<" ">> \o L[n + 1]
        BY <1>5, <1>6, <1>7, <3>1, Zenon
      <4>2. d(w[n]) = v[n] /\ e(w[n]) = b[n]
        BY <1>3, Zenon
      <4>3. d(J[n]) = d(w[n] \o <<"_">>) \o d(J[n + 1])
        BY <3>5, <4>1, Zenon
      <4>4. e(J[n]) = e(w[n] \o <<"_">>) \o e(J[n + 1])
        BY <3>5, <4>1, Zenon
      <4>5. d(J[n]) = K[n]
        BY <3>2, <3>4, <4>1, <4>2, <4>3, Zenon
      <4>6. e(J[n]) = L[n]
        BY <3>2, <3>4, <4>1, <4>2, <4>4, Zenon
      <4> QED
        BY <4>5, <4>6
    <3> QED
      BY <3>6 DEF S
  <2> QED
    BY <2>1, <2>2
<1>9. 1 .. N \subseteq S
  <2> HIDE DEF S
  <2> QED
    BY <1>0, <1>8, Lemmas!Descend
<1>10. 1 \in 1 .. N
  BY <1>0
<1>11. d(J[1]) = K[1] /\ e(J[1]) = L[1]
  BY <1>9, <1>10
<1> QED
  BY <1>5, <1>6, <1>7, <1>11, Zenon DEF w, v, b, d, e

-----------------------------------------------------------------------------
(* Nothing is printed without an argument, or with one in error.           *)
LEMMA ParsedArguments ==
  ASSUME NEW argv \in Seq(Arguments)
  PROVE  /\ argv = <<>> \/ (\E n \in DOMAIN argv : ~Proper(argv[n]))
              => confparser_mux(argv) = error
         /\ ~(argv = <<>> \/ \E n \in DOMAIN argv : ~Proper(argv[n])) =>
              /\ parse_commandline(argv) \in Seq(AVariable) /\ parse_commandline(argv) # <<>>
              /\ DOMAIN parse_commandline(argv) = DOMAIN argv
              /\ confparser_mux(argv) = print_permutations(parse_commandline(argv))
              /\ \A n \in DOMAIN argv : Written(parse_commandline(argv)[n]) = argv[n]
<1> DEFINE vs == parse_commandline(argv)
<1>1. Len(argv) \in Nat /\ DOMAIN argv = 1 .. Len(argv)
  BY LenProperties
<1>2. \A n \in DOMAIN argv : argv[n] \in String
  <2>1. \A s \in Arguments : s \in String
    BY PureCallsAssumption, SeqMonotonic DEF String, Char
  <2> QED
    BY <1>1, <2>1, ElementOfSeq
<1>3. \A n \in DOMAIN argv :
        /\ Proper(argv[n]) <=> IsArgument(argv[n])
        /\ IsArgument(argv[n]) =>
             Variable(argv[n]) \in AVariable /\ Written(Variable(argv[n])) = argv[n]
  BY <1>2, ArgumentRead
<1>4. ASSUME argv = <<>> \/ \E n \in DOMAIN argv : ~Proper(argv[n])
      PROVE  confparser_mux(argv) = error
  <2>1. vs = <<>>
    <3>1. CASE argv = <<>>
      <4>1. DOMAIN argv = {}
        BY <3>1
      <4>2. vs = [n \in {} |-> Variable(argv[n])]
        BY <4>1 DEF parse_commandline
      <4>3. vs \in [1 .. 0 -> AVariable]
        BY <4>2
      <4> HIDE DEF vs
      <4>4. vs \in Seq(AVariable) /\ Len(vs) = 0
        BY <4>3, IsSequence
      <4> QED
        BY <4>4, EmptySeq
    <3>2. CASE \E n \in DOMAIN argv : ~Proper(argv[n])
      BY <1>3, <3>2, Zenon DEF parse_commandline
    <3> QED
      BY <1>4, <3>1, <3>2
  <2> QED
    BY <2>1, Zenon DEF confparser_mux
<1>5. ASSUME ~(argv = <<>> \/ \E n \in DOMAIN argv : ~Proper(argv[n]))
      PROVE  /\ vs \in Seq(AVariable) /\ vs # <<>> /\ DOMAIN vs = DOMAIN argv
             /\ confparser_mux(argv) = print_permutations(vs)
             /\ \A n \in DOMAIN argv : Written(vs[n]) = argv[n]
  <2>1. argv # <<>> /\ \A n \in DOMAIN argv : IsArgument(argv[n])
    BY <1>3, <1>5, Zenon
  <2>2. vs = [n \in DOMAIN argv |-> Variable(argv[n])]
    BY <2>1, Zenon DEF parse_commandline
  <2> HIDE DEF vs
  <2>3. vs \in [1 .. Len(argv) -> AVariable]
    BY <1>1, <1>3, <2>1, <2>2
  <2>4. vs \in Seq(AVariable) /\ Len(vs) = Len(argv) /\ DOMAIN vs = DOMAIN argv
    BY <1>1, <2>3, IsSequence
  <2>5. vs # <<>>
    <3>1. Len(argv) # 0
      BY <2>1, EmptySeq
    <3> QED
      BY <2>4, <3>1
  <2>6. confparser_mux(argv) = print_permutations(vs)
    BY <2>5, Zenon DEF confparser_mux, vs
  <2>7. \A n \in DOMAIN argv : Written(vs[n]) = argv[n]
    BY <1>3, <2>1, <2>2
  <2> QED
    BY <2>4, <2>5, <2>6, <2>7
<1> QED
  BY <1>4, <1>5

(* The lines and the places of the assignments are the same, and no two    *)
(* assignments have the same place.                                        *)
LEMMA PlacesOfLines ==
  ASSUME NEW vs \in Seq(AVariable)
  PROVE  /\ {Place(vs, a) : a \in Assignments(vs)} = DOMAIN print_permutations(vs)
         /\ \A a, b \in Assignments(vs) : Place(vs, a) = Place(vs, b) => a = b
<1> DEFINE N == Len(vs)
           D == DOMAIN print_permutations(vs)
<1>1. N \in Nat /\ 1 \in 1 .. N + 1
  <2>1. N \in Nat
    BY LenProperties
  <2> HIDE DEF N
  <2> QED
    BY <2>1
<1>2. D = 1 .. CountFrom(vs)[1]
  <2>1. /\ print_permutations(vs) = LinesFrom(vs)[1]
        /\ LinesFrom(vs)[1] \in Seq(String) /\ Len(LinesFrom(vs)[1]) = CountFrom(vs)[1]
    BY <1>1, LinesUnfold
  <2> QED
    BY <2>1, LenProperties
<1>3. \A a \in Assignments(vs) : Place(vs, a) = PlaceFrom(vs, a)[1]
  BY PlaceUnfolds
<1>4. \A a \in Assignments(vs) : Place(vs, a) \in D
  BY <1>1, <1>2, <1>3, PlaceUnfolds
<1>5. \A ln \in D : \E a \in Assignments(vs) : Place(vs, a) = ln
  BY <1>1, <1>2, <1>3, PlaceFound
<1>6. ASSUME NEW a \in Assignments(vs), NEW b \in Assignments(vs),
             Place(vs, a) = Place(vs, b)
      PROVE  a = b
  <2>1. PlaceFrom(vs, a)[1] = PlaceFrom(vs, b)[1]
    BY <1>3, <1>6
  <2>2. \A n \in 1 .. N : a[n] = b[n]
    BY <1>1, <2>1, PlaceDepends
  <2>3. a \in [1 .. N -> Nat] /\ b \in [1 .. N -> Nat]
    BY AssignmentFacts
  <2>4. a = [n \in 1 .. N |-> a[n]] /\ b = [n \in 1 .. N |-> b[n]]
    BY <2>3
  <2>5. [n \in 1 .. N |-> a[n]] = [n \in 1 .. N |-> b[n]]
    BY <2>2, Zenon
  <2> QED
    BY <2>4, <2>5, Zenon
<1> HIDE DEF D
<1>7. {Place(vs, a) : a \in Assignments(vs)} = D
  BY <1>4, <1>5
<1> QED
  BY <1>6, <1>7 DEF D

(* A call of confparser_mux of its arguments.                              *)
LEMMA RoundTripOfMux ==
  ASSUME NEW x, IsMux(x)
  PROVE  RoundTrip
<1> DEFINE argv == call.argv
           vs == parse_commandline(argv)
           lines == confparser_mux(argv)
           wrong == argv = <<>> \/ \E n \in DOMAIN argv : ~Proper(argv[n])
           Right == /\ DOMAIN vs = DOMAIN argv
                    /\ \A n \in DOMAIN vs : Written(vs[n]) = argv[n]
                    /\ {Place(vs, a) : a \in Assignments(vs)} = DOMAIN lines
                    /\ \A a, b \in Assignments(vs) : Place(vs, a) = Place(vs, b) => a = b
                    /\ \A a \in Assignments(vs) :
                         /\ confparser_demux(lines[Place(vs, a)])
                              = Joined(" ", Words(vs, a, "="))
                         /\ confparser_demux2(lines[Place(vs, a)])
                              = Joined(" ", Blanks(vs, a))
<1>1. argv \in Seq(Arguments)
  BY DEF IsMux
<1> HIDE DEF argv
<1>2. wrong => lines = error
  BY <1>1, ParsedArguments
<1>3. ASSUME ~wrong PROVE Right
  <2>1. /\ vs \in Seq(AVariable) /\ vs # <<>> /\ DOMAIN vs = DOMAIN argv
        /\ lines = print_permutations(vs)
        /\ \A n \in DOMAIN argv : Written(vs[n]) = argv[n]
    BY <1>1, <1>3, ParsedArguments
  <2> HIDE DEF vs, lines
  <2>2. /\ {Place(vs, a) : a \in Assignments(vs)} = DOMAIN lines
        /\ \A a, b \in Assignments(vs) : Place(vs, a) = Place(vs, b) => a = b
    BY <2>1, PlacesOfLines
  <2>3. \A a \in Assignments(vs) :
          lines[Place(vs, a)] = Joined("_", Words(vs, a, "_"))
    BY <2>1, LineInPlace
  <2>4. \A a \in Assignments(vs) :
          LET line == Joined("_", Words(vs, a, "_"))
          IN  /\ confparser_demux(line) = Joined(" ", Words(vs, a, "="))
              /\ confparser_demux2(line) = Joined(" ", Blanks(vs, a))
    BY <2>1, LineDemuxed
  <2> QED
    BY <2>1, <2>2, <2>3, <2>4, Zenon
<1>4. IF wrong THEN lines = error ELSE Right
  BY <1>2, <1>3, Zenon
<1> QED
  BY <1>4, Zenon DEF RoundTrip, Words, Blanks, argv

(* What confparser_mux prints and confparser_demux and confparser_demux2   *)
(* make of it: RoundTrip, for every set of arguments and of characters.    *)
THEOREM LinesRoundTrip == CallSpec => []RoundTrip
<1>1. CallInv => RoundTrip
  <2> SUFFICES ASSUME CallInv, call.fn = "mux" PROVE RoundTrip
    BY Zenon DEF RoundTrip
  <2>1. \E argv : IsMux(argv)
    BY DEF CallInv, IsGain, IsSummation
  <2> QED
    BY <2>1, RoundTripOfMux, Zenon
<1> QED
  BY <1>1, CallInvariant, PTL

-----------------------------------------------------------------------------
(* The least of a set of naturals, which the kernel and FirstOf choose.    *)
LEMMA LeastExists ==
  ASSUME NEW S, S \subseteq Nat, S # {}
  PROVE  \E m \in S : \A n \in S : m <= n
<1> SUFFICES ASSUME \A m \in S : \E n \in S : ~(m <= n) PROVE FALSE
  BY Zenon
<1> DEFINE T == {m \in Nat : \A n \in S : m <= n}
<1>1. 0 \in T
  OBVIOUS
<1>2. \A m \in Nat : m \in T => m + 1 \in T
  <2> SUFFICES ASSUME NEW m \in Nat, \A n \in S : m <= n, NEW n \in S PROVE m + 1 <= n
    OBVIOUS
  <2>1. m # n
    OBVIOUS
  <2> QED
    BY <2>1
<1>3. Nat \subseteq T
  <2> HIDE DEF T
  <2> QED
    BY <1>1, <1>2, Lemmas!SetInduction
<1>4. PICK n \in S : TRUE
  OBVIOUS
<1>5. n \in Nat /\ n + 1 \in T
  BY <1>3
<1>6. n + 1 <= n
  BY <1>4, <1>5
<1> QED
  BY <1>5, <1>6

(* FirstOf is the first position, or none.                                 *)
LEMMA FirstIsLeast ==
  ASSUME NEW S, S \subseteq Nat
  PROVE  /\ S = {} => FirstOf(S) = none
         /\ S # {} => FirstOf(S) \in S /\ \A n \in S : FirstOf(S) <= n
<1>1. S # {} => \E m \in S : \A n \in S : m <= n
  BY LeastExists
<1> QED
  BY <1>1, Zenon DEF FirstOf

(* The descriptor that the kernel gives is free.                           *)
LEMMA NewFdIsFree ==
  ASSUME NEW fs, HasFree(fs)
  PROVE  NewFd(fs) \in Fds /\ fs[NewFd(fs)] = Free
<1> DEFINE S == {f \in Fds : fs[f] = Free}
<1>1. S \subseteq Nat /\ S # {}
  BY FdsAssumption DEF HasFree
<1>2. \E m \in S : \A n \in S : m <= n
  <2> HIDE DEF S
  <2> QED
    BY <1>1, LeastExists
<1>3. \E m \in Fds : fs[m] = Free /\ \A n \in Fds : fs[n] = Free => m <= n
  BY <1>2
<1> QED
  BY <1>3, Zenon DEF NewFd

(* The number of a new process has not been given before.                  *)
LEMMA NewPidIsUnused ==
  ASSUME \E p \in Pids : engine[p] = "unused"
  PROVE  NewPid \in Pids /\ engine[NewPid] = "unused"
<1> DEFINE S == {p \in Pids : engine[p] = "unused"}
<1>1. S \subseteq Nat /\ S # {}
  BY PidsAssumption
<1>2. \E m \in S : \A n \in S : m <= n
  <2> HIDE DEF S
  <2> QED
    BY <1>1, LeastExists
<1>3. \E m \in Pids : engine[m] = "unused" /\ \A n \in Pids : engine[n] = "unused" => m <= n
  BY <1>2
<1> QED
  BY <1>3, Zenon DEF NewPid

-----------------------------------------------------------------------------
(* What the reads of an answer add up to.                                  *)
SumTo(s) == CHOOSE sum : sum = [i \in 0 .. Len(s) |-> IF i = 0 THEN 0 ELSE sum[i - 1] + s[i]]

(* The sum of the reads, read by read.                                     *)
LEMMA SumUnfolds ==
  ASSUME NEW s \in Seq(Nat)
  PROVE  /\ SumOf(s) = SumTo(s)[Len(s)] /\ SumTo(s) \in [0 .. Len(s) -> Nat]
         /\ SumTo(s)[0] = 0
         /\ \A n \in 1 .. Len(s) : SumTo(s)[n] = SumTo(s)[n - 1] + s[n]
<1> DEFINE m == Len(s)
           round == [n \in 1 .. m |-> [x \in Nat |-> x + s[n]]]
           sum == SumTo(s)
<1>0. m \in Nat
  BY LenProperties
<1>1. \A n \in 1 .. m : s[n] \in Nat
  BY ElementOfSeq
<1> HIDE DEF m
<1>2. round \in [1 .. m -> [Nat -> Nat]]
  BY <1>1
<1>3. PICK F : Lemmas!Computes(F, m, Nat, 0, round)
  <2> HIDE DEF round
  <2>1. Lemmas!IsLoop(m, Nat, 0, round)
    BY <1>0, <1>2 DEF Lemmas!IsLoop
  <2> QED
    BY <2>1, Lemmas!Iteration
<1>4. F \in [0 .. m -> Nat] /\ F[0] = 0 /\ \A n \in 1 .. m : F[n] = round[n][F[n - 1]]
  BY <1>3 DEF Lemmas!Computes
<1>5. \A n \in 1 .. m : F[n] = F[n - 1] + s[n]
  <2>1. \A n \in 1 .. m : F[n - 1] \in Nat
    BY <1>0, <1>4
  <2> QED
    BY <1>4, <2>1
<1> HIDE DEF round
<1>6. F = [n \in 0 .. m |-> IF n = 0 THEN 0 ELSE F[n - 1] + s[n]]
  BY <1>0, <1>4, <1>5
<1>7. sum = [n \in 0 .. m |-> IF n = 0 THEN 0 ELSE sum[n - 1] + s[n]]
  BY <1>6, Zenon DEF SumTo, m
<1>8. SumOf(s) = sum[m]
  BY Zenon DEF SumOf, SumTo, m
<1> HIDE DEF sum
<1>9. sum[0] = 0 /\ DOMAIN sum = 0 .. m /\ sum = [n \in 0 .. m |-> sum[n]]
      /\ \A n \in 1 .. m : sum[n] = sum[n - 1] + s[n]
  <2>1. DOMAIN sum = 0 .. m /\ sum = [n \in 0 .. m |-> sum[n]]
    BY <1>7
  <2>2. \A n \in 0 .. m : sum[n] = IF n = 0 THEN 0 ELSE sum[n - 1] + s[n]
    BY <1>7
  <2>3. 0 \in 0 .. m /\ \A n \in 1 .. m : n \in 0 .. m /\ n # 0
    BY <1>0
  <2> QED
    BY <2>1, <2>2, <2>3
<1>10. \A n \in 0 .. m : sum[n] \in Nat
  <2> DEFINE S == {n \in 0 .. m : sum[n] \in Nat}
  <2>1. 0 \in S
    BY <1>0, <1>9
  <2>2. \A n \in 0 .. m - 1 : n \in S => n + 1 \in S
    <3> SUFFICES ASSUME NEW n \in 0 .. m - 1, sum[n] \in Nat PROVE sum[n + 1] \in Nat
      BY <1>0
    <3>1. n + 1 \in 1 .. m /\ (n + 1) - 1 = n
      BY <1>0
    <3>2. sum[n + 1] = sum[n] + s[n + 1]
      BY <1>9, <3>1
    <3> QED
      BY <1>1, <3>1, <3>2
  <2>3. 0 .. m \subseteq S
    <3> HIDE DEF S
    <3> QED
      BY <1>0, <2>1, <2>2, Lemmas!Climb
  <2> QED
    BY <2>3
<1> QED
  BY <1>8, <1>9, <1>10 DEF sum, m

(* An update that reads nothing gets no answer.                            *)
LEMMA SumOfNone == SumOf(<<>>) = 0
<1>1. <<>> \in Seq(Nat) /\ Len(<<>>) = 0
  BY EmptySeq
<1> QED
  BY <1>1, SumUnfolds

(* What is left when the first read has got n bytes, or all of its bytes.  *)
LEMMA SumOfShorter ==
  ASSUME NEW s \in Seq(Nat), NEW u \in Seq(Nat), NEW n \in Nat, Len(s) >= 1,
         Len(u) = Len(s), u[1] = s[1] - n, \A i \in 2 .. Len(s) : u[i] = s[i]
  PROVE  SumOf(u) = SumOf(s) - n
<1> DEFINE m == Len(s) - 1
           S == {i \in 0 .. m : SumTo(u)[i + 1] = SumTo(s)[i + 1] - n}
<1>1. Len(s) \in Nat /\ m \in Nat /\ Len(s) = m + 1 /\ \A i \in 1 .. m + 1 : s[i] \in Nat /\ u[i] \in Nat
  BY LenProperties, ElementOfSeq
<1>2. /\ SumOf(s) = SumTo(s)[m + 1] /\ SumTo(s) \in [0 .. m + 1 -> Nat] /\ SumTo(s)[0] = 0
      /\ \A i \in 1 .. m + 1 : SumTo(s)[i] = SumTo(s)[i - 1] + s[i]
  BY <1>1, SumUnfolds
<1>3. /\ SumOf(u) = SumTo(u)[m + 1] /\ SumTo(u) \in [0 .. m + 1 -> Nat] /\ SumTo(u)[0] = 0
      /\ \A i \in 1 .. m + 1 : SumTo(u)[i] = SumTo(u)[i - 1] + u[i]
  BY <1>1, SumUnfolds
<1>4. \A i \in 2 .. m + 1 : u[i] = s[i]
  BY <1>1
<1> HIDE DEF m
<1>5. 0 \in S
  <2>1. 0 \in 0 .. m /\ 0 + 1 \in 1 .. m + 1 /\ (0 + 1) - 1 = 0 /\ 0 + 1 = 1
    BY <1>1
  <2> QED
    BY <1>1, <1>2, <1>3, <2>1
<1>6. \A i \in 0 .. m - 1 : i \in S => i + 1 \in S
  <2> SUFFICES ASSUME NEW i \in 0 .. m - 1, SumTo(u)[i + 1] = SumTo(s)[i + 1] - n
               PROVE  SumTo(u)[(i + 1) + 1] = SumTo(s)[(i + 1) + 1] - n
    BY <1>1
  <2> DEFINE c == i + 1
             d == c + 1
  <2>1. c \in 0 .. m + 1 /\ d \in 1 .. m + 1 /\ d \in 2 .. m + 1 /\ d - 1 = c
    BY <1>1
  <2> HIDE DEF c, d
  <2>2. SumTo(u)[d] = SumTo(u)[c] + u[d] /\ SumTo(s)[d] = SumTo(s)[c] + s[d] /\ u[d] = s[d]
    BY <1>2, <1>3, <1>4, <2>1
  <2>3. SumTo(s)[c] \in Nat /\ s[d] \in Nat
    BY <1>1, <1>2, <2>1
  <2>4. SumTo(u)[c] = SumTo(s)[c] - n
    BY DEF c
  <2>5. SumTo(u)[d] = SumTo(s)[d] - n
    BY <2>2, <2>3, <2>4
  <2> QED
    BY <2>5 DEF c, d
<1>7. 0 .. m \subseteq S
  <2> HIDE DEF S
  <2> QED
    BY <1>1, <1>5, <1>6, Lemmas!Climb
<1>8. m \in S
  BY <1>1, <1>7
<1> QED
  BY <1>2, <1>3, <1>8

(* What is left when the first read is complete.                           *)
LEMMA SumOfTail ==
  ASSUME NEW s \in Seq(Nat), s # <<>>
  PROVE  SumOf(Tail(s)) = SumOf(s) - Head(s)
<1> DEFINE m == Len(s) - 1
           u == Tail(s)
           n == Head(s)
           S == {i \in 0 .. m : SumTo(u)[i] = SumTo(s)[i + 1] - n}
<1>1. /\ Len(s) \in Nat /\ m \in Nat /\ Len(s) = m + 1 /\ \A i \in 1 .. m + 1 : s[i] \in Nat
      /\ u \in Seq(Nat) /\ Len(u) = m /\ \A i \in 1 .. m : u[i] = s[i + 1]
      /\ n = s[1]
  BY LenProperties, ElementOfSeq, HeadTailProperties, EmptySeq
<1> HIDE DEF m, u, n
<1>2. /\ SumOf(s) = SumTo(s)[m + 1] /\ SumTo(s) \in [0 .. m + 1 -> Nat] /\ SumTo(s)[0] = 0
      /\ \A i \in 1 .. m + 1 : SumTo(s)[i] = SumTo(s)[i - 1] + s[i]
  BY <1>1, SumUnfolds
<1>3. /\ SumOf(u) = SumTo(u)[m] /\ SumTo(u) \in [0 .. m -> Nat] /\ SumTo(u)[0] = 0
      /\ \A i \in 1 .. m : SumTo(u)[i] = SumTo(u)[i - 1] + u[i]
  BY <1>1, SumUnfolds
<1>5. 0 \in S
  <2>1. 0 \in 0 .. m /\ 0 + 1 \in 1 .. m + 1 /\ (0 + 1) - 1 = 0 /\ 0 + 1 = 1
    BY <1>1
  <2> QED
    BY <1>1, <1>2, <1>3, <2>1
<1>6. \A i \in 0 .. m - 1 : i \in S => i + 1 \in S
  <2> SUFFICES ASSUME NEW i \in 0 .. m - 1, SumTo(u)[i] = SumTo(s)[i + 1] - n
               PROVE  SumTo(u)[i + 1] = SumTo(s)[(i + 1) + 1] - n
    BY <1>1
  <2> DEFINE c == i + 1
             d == c + 1
  <2>1. c \in 1 .. m /\ c \in 0 .. m + 1 /\ d \in 1 .. m + 1 /\ d - 1 = c /\ c - 1 = i
    BY <1>1
  <2>4. SumTo(u)[i] = SumTo(s)[c] - n /\ u[c] = s[d]
    BY <1>1, <2>1
  <2> HIDE DEF c, d
  <2>2. SumTo(u)[c] = SumTo(u)[i] + u[c] /\ SumTo(s)[d] = SumTo(s)[c] + s[d]
    BY <1>2, <1>3, <2>1
  <2>3. SumTo(s)[c] \in Nat /\ s[d] \in Nat /\ n \in Nat
    BY <1>1, <1>2, <2>1
  <2>5. SumTo(u)[c] = SumTo(s)[d] - n
    BY <2>2, <2>3, <2>4
  <2> QED
    BY <2>5 DEF c, d
<1>7. 0 .. m \subseteq S
  <2> HIDE DEF S
  <2> QED
    BY <1>1, <1>5, <1>6, Lemmas!Climb
<1>8. m \in S
  BY <1>1, <1>7
<1> QED
  BY <1>2, <1>3, <1>8 DEF u, n

(* The first elements of a sequence.                                       *)
LEMMA PrefixProperties ==
  ASSUME NEW S, NEW s \in Seq(S), NEW n \in 0 .. Len(s)
  PROVE  /\ SubSeq(s, 1, n) \in Seq(S) /\ Len(SubSeq(s, 1, n)) = n
         /\ \A i \in 1 .. n : SubSeq(s, 1, n)[i] = s[i]
<1> DEFINE b == 1
           t == SubSeq(s, b, n)
<1>1. /\ Len(s) \in Nat /\ n \in Nat /\ b \in Int /\ b = 1 /\ n - b + 1 = n
      /\ \A i \in b .. n : s[i] \in S
  BY LenProperties, ElementOfSeq
<1> HIDE DEF b
<1>2. /\ t \in Seq(S)
      /\ Len(t) = IF b <= n THEN n - b + 1 ELSE 0
      /\ \A i \in 1 .. n - b + 1 : t[i] = s[b + i - 1]
  BY <1>1, SubSeqProperties
<1> HIDE DEF t
<1>3. Len(t) = n
  BY <1>1, <1>2
<1>4. \A i \in 1 .. n : t[i] = s[i]
  <2>1. \A i \in 1 .. n : b + i - 1 = i
    BY <1>1
  <2> QED
    BY <1>1, <1>2, <2>1
<1> QED
  BY <1>2, <1>3, <1>4 DEF t, b

-----------------------------------------------------------------------------
(* The invariant of SimBlocks.                                             *)
Channels == [handle : Fds \cup {none}, listenHandle : Fds \cup {none}]
EntryType == [id : Nat, pid : Pids \cup {none}, channel : Channels, exists : BOOLEAN]
FileType == {Free} \cup {Listening(name) : name \in Nat \cup {none}}
                   \cup {Connected(p) : p \in Pids}

PlaceType ==
  /\ diagram \in Diagrams /\ phase \in {"off", "init", "run", "end"}
  /\ at \in {"scicos", "open", "launch", "poll", "clean", "wait", "recv"}
  /\ k \in DOMAIN diagram.ids /\ failed \in BOOLEAN /\ erase_blocks \in BOOLEAN
  /\ blocks_data \in Seq(EntryType) /\ work \in [DOMAIN diagram.ids -> Int]

DataType ==
  /\ asked \in Nat /\ reads \in Seq(Nat \ {0}) /\ got \in Seq(Nat)
  /\ inbox \in [Pids -> Seq(Nat)] /\ files \in [Fds -> FileType]
  /\ engine \in [Pids -> {"unused", "starting", "connecting", "connected", "dead", "reaped"}]
  /\ handler_already_registered \in BOOLEAN

IsFirst(s, i) == \A j \in DOMAIN s : s[j].id = s[i].id => i <= j

IsFlex == diagram.lib = "flex"

(* Where a call may be, and the entry it works on.                         *)
Places ==
  /\ at \in {"open", "launch", "poll"} => phase = "init"
  /\ at = "recv" => phase = "run"
  /\ at \in {"clean", "wait"} => phase = "end" \/ (phase = "init" /\ IsFlex)
  /\ phase = "run" => ~failed
  /\ at # "scicos" => current \in DOMAIN blocks_data
  /\ erase_blocks => /\ ~IsFlex
                     /\ \/ phase \in {"end", "off"}
                        \/ phase = "init" /\ k = 1 /\ at = "scicos"

Pointed ==
  at \in {"open", "launch", "poll", "clean", "wait"} =>
    IF IsFlex THEN Entry.id = diagram.ids[k] /\ IsFirst(blocks_data, current) ELSE current = k

(* SMCube: the entry of a block has its position.                          *)
InPlace ==
  ~IsFlex =>
    /\ DOMAIN blocks_data \subseteq DOMAIN diagram.ids
    /\ \A i \in DOMAIN blocks_data : blocks_data[i].id = i /\ work[i] = i
    /\ phase = "off" => erase_blocks \/ blocks_data = <<>>
    /\ phase = "init" => \/ erase_blocks
                         \/ Len(blocks_data) = IF at = "scicos" THEN k - 1 ELSE k
    /\ phase \in {"run", "end"} => Len(blocks_data) = Len(diagram.ids)
    /\ phase = "end" /\ k > 1 => erase_blocks

(* Flex: the boards in the order of the diagram.                           *)
Before(d, n) == {d.ids[c] : c \in 1 .. n - 1}

InOrder ==
  IsFlex /\ Numbered /\ phase = "init" =>
    /\ \A i \in DOMAIN blocks_data : blocks_data[i].id = i - 1
    /\ at = "scicos" => Before(diagram, k) = 0 .. Len(blocks_data) - 1
    /\ at # "scicos" => /\ Before(diagram, k + 1) = 0 .. Len(blocks_data) - 1
                        /\ current = Len(blocks_data)

(* The blocks whose flag 5 is still to come, and their entries.            *)
Rest == IF phase = "off" \/ (phase = "init" /\ erase_blocks) THEN {}
        ELSE IF phase = "end" THEN k .. Len(diagram.ids) ELSE DOMAIN diagram.ids

Kept == {i \in DOMAIN blocks_data :
           IF IsFlex THEN \E b \in Rest : diagram.ids[b] = blocks_data[i].id ELSE i \in Rest}

Touched(e) == e.exists \/ e.pid # none \/ e.channel # init_channel

Owned ==
  IsFlex => \A i \in DOMAIN blocks_data :
              Touched(blocks_data[i]) \/ Numbered => IsFirst(blocks_data, i) /\ i \in Kept

PlaceInv == PlaceType /\ Places /\ Pointed /\ InPlace /\ InOrder /\ Owned

(* Of every engine and every descriptor there is an entry to end it.       *)
Waiting == at = "wait" => Entry.pid \in Pids /\ engine[Entry.pid] # "reaped"

Handled ==
  handler_already_registered =>
    \E i \in Kept : blocks_data[i].pid \in Pids /\ engine[blocks_data[i].pid] # "reaped"

Fresh ==
  Numbered =>
    /\ at \in {"open", "launch"} => Entry.pid = none
    /\ at \in {"open", "launch", "poll"} => Entry.channel.handle = none
    /\ at = "open" => Entry.channel.listenHandle = none

EnginesKept ==
  Numbered => \A p \in Pids : engine[p] \notin {"unused", "reaped"} /\ p \notin abandoned =>
                \E i \in Kept : blocks_data[i].pid = p

FilesKept ==
  Numbered => \A f \in Fds : files[f] # Free =>
    \E i \in Kept : /\ blocks_data[i].channel.handle = f \/ blocks_data[i].channel.listenHandle = f
                    /\ phase = "end" /\ at \in {"clean", "wait"} => i # current

(* While no call has failed.                                               *)
Good == ~failed /\ (phase = "run" \/ (phase = "init" /\ at \notin {"clean", "wait"}))

Live == IF erase_blocks THEN {} ELSE DOMAIN blocks_data

Listens(i) == \/ blocks_data[i].channel.listenHandle = none
              \/ /\ blocks_data[i].channel.listenHandle \in Fds
                 /\ files[blocks_data[i].channel.listenHandle] = Listening(blocks_data[i].id)

Idle(p) == inbox[p] = <<>> \/ (at = "recv" /\ p = Peer(Entry))
Connects(i) ==
  /\ blocks_data[i].channel.handle \in Fds
  /\ \E p \in Pids : files[blocks_data[i].channel.handle] = Connected(p) /\ Idle(p)

Sockets ==
  Good => \A i \in Live :
    /\ Listens(i)
    /\ blocks_data[i].exists /\ ~(phase = "init" /\ at # "scicos" /\ i = current) => Connects(i)

Inboxes == \A p \in Pids : engine[p] \in {"unused", "starting", "connecting"} => inbox[p] = <<>>

Reading ==
  at = "recv" =>
    /\ reads # <<>> /\ Entry.exists
    /\ Len(inbox[Peer(Entry)]) <= SumOf(reads)
    /\ \A i \in DOMAIN inbox[Peer(Entry)] : inbox[Peer(Entry)][i] = asked

SimInv ==
  /\ PlaceInv /\ DataType /\ Waiting /\ Handled /\ Fresh /\ EnginesKept /\ FilesKept
  /\ Sockets /\ Inboxes /\ Reading /\ InStep

-----------------------------------------------------------------------------
(* Diagrams and entries.                                                   *)
LEMMA DiagramFacts ==
  ASSUME diagram \in Diagrams
  PROVE  /\ diagram.lib \in {"flex", "smcube"} /\ diagram.ids \in Seq(Nat)
         /\ Len(diagram.ids) \in Nat \ {0} /\ DOMAIN diagram.ids = 1 .. Len(diagram.ids)
         /\ \A b \in DOMAIN diagram.ids : diagram.ids[b] \in Nat
         /\ DOMAIN diagram.reads = DOMAIN diagram.ids
         /\ \A b \in DOMAIN diagram.ids : diagram.reads[b] \in Seq(Nat \ {0})
<1>1. /\ diagram.lib \in {"flex", "smcube"} /\ diagram.ids \in Seq(Nat) \ {<<>>}
      /\ DOMAIN diagram.reads = DOMAIN diagram.ids
      /\ \A b \in DOMAIN diagram.reads : diagram.reads[b] \in Seq(Nat \ {0})
  BY SimBlocksAssumption
<1>2. Len(diagram.ids) \in Nat /\ DOMAIN diagram.ids = 1 .. Len(diagram.ids)
      /\ Len(diagram.ids) # 0
  BY <1>1, LenProperties, EmptySeq
<1>3. \A b \in DOMAIN diagram.ids : diagram.ids[b] \in Nat
  BY <1>1, <1>2, ElementOfSeq
<1> QED
  BY <1>1, <1>2, <1>3

(* The fields of an entry.                                                 *)
LEMMA EntryFacts ==
  ASSUME NEW e \in EntryType
  PROVE  /\ e.id \in Nat /\ e.pid \in Pids \cup {none} /\ e.exists \in BOOLEAN
         /\ e.channel \in Channels
         /\ e.channel.handle \in Fds \cup {none} /\ e.channel.listenHandle \in Fds \cup {none}
BY DEF EntryType, Channels

(* An entry with one field written.                                        *)
LEMMA EntryUpdates ==
  ASSUME NEW e \in EntryType, NEW b \in BOOLEAN, NEW p \in Pids \cup {none},
         NEW c \in Channels
  PROVE  /\ [e EXCEPT !.exists = b] =
              [id |-> e.id, pid |-> e.pid, channel |-> e.channel, exists |-> b]
         /\ [e EXCEPT !.pid = p] =
              [id |-> e.id, pid |-> p, channel |-> e.channel, exists |-> e.exists]
         /\ [e EXCEPT !.channel = c] =
              [id |-> e.id, pid |-> e.pid, channel |-> c, exists |-> e.exists]
<1>1. PICK i, q, d, x : e = [id |-> i, pid |-> q, channel |-> d, exists |-> x]
  BY DEF EntryType
<1>2. e.id = i /\ e.pid = q /\ e.channel = d /\ e.exists = x
  BY <1>1
<1>3. [e EXCEPT !.exists = b] = [id |-> i, pid |-> q, channel |-> d, exists |-> b]
  BY <1>1
<1>4. [e EXCEPT !.pid = p] = [id |-> i, pid |-> p, channel |-> d, exists |-> x]
  BY <1>1
<1>5. [e EXCEPT !.channel = c] = [id |-> i, pid |-> q, channel |-> c, exists |-> x]
  BY <1>1
<1> QED
  BY <1>2, <1>3, <1>4, <1>5

(* An entry, field by field.                                               *)
LEMMA EntryMade ==
  ASSUME NEW i \in Nat, NEW p \in Pids \cup {none}, NEW c \in Channels, NEW b \in BOOLEAN,
         NEW e, e = [id |-> i, pid |-> p, channel |-> c, exists |-> b]
  PROVE  e \in EntryType /\ e.id = i /\ e.pid = p /\ e.channel = c /\ e.exists = b
BY DEF EntryType

(* The entries of blocks_data.                                             *)
LEMMA Entries ==
  ASSUME blocks_data \in Seq(EntryType)
  PROVE  /\ Len(blocks_data) \in Nat /\ DOMAIN blocks_data = 1 .. Len(blocks_data)
         /\ \A i \in DOMAIN blocks_data : blocks_data[i] \in EntryType /\ blocks_data[i].id \in Nat
<1>1. Len(blocks_data) \in Nat /\ DOMAIN blocks_data = 1 .. Len(blocks_data)
  BY LenProperties
<1>2. \A i \in DOMAIN blocks_data : blocks_data[i] \in EntryType
  BY <1>1, ElementOfSeq
<1> QED
  BY <1>1, <1>2, EntryFacts

(* An entry that is written over.                                          *)
LEMMA EntryWritten ==
  ASSUME blocks_data \in Seq(EntryType), NEW e \in DOMAIN blocks_data, NEW x \in EntryType,
         blocks_data' = [blocks_data EXCEPT ![e] = x]
  PROVE  /\ blocks_data' \in Seq(EntryType) /\ DOMAIN blocks_data' = DOMAIN blocks_data
         /\ Len(blocks_data') = Len(blocks_data) /\ blocks_data'[e] = x
         /\ \A i \in DOMAIN blocks_data : i # e => blocks_data'[i] = blocks_data[i]
<1>1. Len(blocks_data) \in Nat /\ DOMAIN blocks_data = 1 .. Len(blocks_data)
  BY Entries
<1>2. blocks_data' \in Seq(EntryType) /\ Len(blocks_data') = Len(blocks_data)
  BY <1>1, ExceptSeq
<1> QED
  BY <1>1, <1>2

(* Steps after which the entries have the same numbers.                    *)
SameIds ==
  /\ diagram' = diagram /\ DOMAIN blocks_data' = DOMAIN blocks_data
  /\ Len(blocks_data') = Len(blocks_data)
  /\ \A i \in DOMAIN blocks_data : blocks_data'[i].id = blocks_data[i].id

(* Which entry is the first with its number depends on the numbers only.   *)
LEMMA SameIdsFacts ==
  ASSUME SameIds
  PROVE  /\ \A i \in DOMAIN blocks_data : IsFirst(blocks_data', i) <=> IsFirst(blocks_data, i)
         /\ Rest' = Rest => Kept' = Kept
         /\ IsFlex' = IsFlex /\ Numbered' = Numbered
<1>1. \A i \in DOMAIN blocks_data : IsFirst(blocks_data', i) <=> IsFirst(blocks_data, i)
  BY DEF SameIds, IsFirst
<1>2. Rest' = Rest => Kept' = Kept
  BY DEF SameIds, Kept, IsFlex
<1>3. IsFlex' = IsFlex /\ Numbered' = Numbered
  <2>1. diagram' = diagram
    BY DEF SameIds
  <2>2. Numbered' = Numbered
    BY <2>1 DEF Numbered
  <2>3. IsFlex' = IsFlex
    BY <2>1, Zenon DEF IsFlex
  <2> QED
    BY <2>2, <2>3
<1> QED
  BY <1>1, <1>2, <1>3

(* The blocks whose flag 5 is still to come, phase by phase.               *)
LEMMA RestFacts ==
  ASSUME PlaceType
  PROVE  /\ phase = "off" => Rest = {}
         /\ phase = "init" /\ erase_blocks => Rest = {}
         /\ phase = "init" /\ ~erase_blocks => Rest = 1 .. Len(diagram.ids)
         /\ phase = "run" => Rest = 1 .. Len(diagram.ids)
         /\ phase = "end" => Rest = k .. Len(diagram.ids)
BY DiagramFacts DEF PlaceType, Rest

-----------------------------------------------------------------------------
(* How Scicos goes on.                                                     *)
LEMMA NextInitFacts ==
  ASSUME PlaceType, phase = "init", NEW w \in BOOLEAN, NextInit(w)
  PROVE  /\ at' = "scicos" /\ failed' \in BOOLEAN /\ (w => failed') /\ (failed => failed')
         /\ ~failed' => ~failed /\ ~w
         /\ \/ k < Len(diagram.ids) /\ k' = k + 1 /\ phase' = "init"
            \/ k = Len(diagram.ids) /\ k' = 1 /\ phase' = "run" /\ ~failed'
            \/ k = Len(diagram.ids) /\ k' = 1 /\ phase' = "end" /\ failed'
BY DiagramFacts DEF PlaceType, NextInit, More, Go

(* After an update Scicos goes on, with a next round or with flag 5.       *)
LEMMA NextUpdateFacts ==
  ASSUME PlaceType, phase = "run", NextUpdate
  PROVE  /\ at' = "scicos" /\ failed' = failed
         /\ \/ k < Len(diagram.ids) /\ k' = k + 1 /\ phase' = "run"
            \/ k' = 1 /\ phase' \in {"run", "end"}
BY DiagramFacts DEF PlaceType, NextUpdate, More, Go

(* After the last flag 5 the simulation is over.                           *)
LEMMA NextEndFacts ==
  ASSUME PlaceType, phase = "end", NextEnd
  PROVE  /\ at' = "scicos" /\ failed' = failed
         /\ \/ k < Len(diagram.ids) /\ k' = k + 1 /\ phase' = "end"
            \/ k = Len(diagram.ids) /\ k' = 1 /\ phase' = "off"
BY DiagramFacts DEF PlaceType, NextEnd, More, Go

-----------------------------------------------------------------------------
(* A step of flag 4 after the entry has been made: its value changes.      *)
Working(x) ==
  /\ at \in {"open", "launch", "poll"}
  /\ x \in EntryType /\ x.id = Entry.id
  /\ blocks_data' = [blocks_data EXCEPT ![current] = x]
  /\ UNCHANGED <<diagram, current, work, erase_blocks>>
  /\ \/ /\ at' \in {"launch", "poll"} \/ (at' = "clean" /\ IsFlex)
        /\ UNCHANGED <<phase, k, failed>>
     \/ \E w \in BOOLEAN : NextInit(w)

(* A step of flag 4 changes the entry it works on and no other.            *)
LEMMA WorkingFacts ==
  ASSUME PlaceInv, NEW x, Working(x)
  PROVE  /\ phase = "init" /\ ~erase_blocks /\ current \in DOMAIN blocks_data
         /\ k' \in DOMAIN diagram.ids
         /\ SameIds /\ Entry' = x /\ blocks_data' \in Seq(EntryType)
         /\ \A i \in DOMAIN blocks_data : i # current => blocks_data'[i] = blocks_data[i]
         /\ \/ /\ at' \in {"launch", "poll"} \/ (at' = "clean" /\ IsFlex)
               /\ UNCHANGED <<phase, k, failed>>
            \/ /\ at' = "scicos" /\ failed' \in BOOLEAN
               /\ \/ k < Len(diagram.ids) /\ k' = k + 1 /\ phase' = "init"
                  \/ k = Len(diagram.ids) /\ k' = 1 /\ phase' = "run" /\ ~failed'
                  \/ k = Len(diagram.ids) /\ k' = 1 /\ phase' = "end" /\ failed'
<1>1. /\ phase = "init" /\ ~erase_blocks /\ current \in DOMAIN blocks_data
      /\ blocks_data \in Seq(EntryType) /\ PlaceType /\ diagram \in Diagrams
      /\ k \in DOMAIN diagram.ids
  BY DEF PlaceInv, PlaceType, Places, Working
<1>2. /\ x \in EntryType /\ x.id = Entry.id /\ UNCHANGED <<diagram, current>>
      /\ blocks_data' = [blocks_data EXCEPT ![current] = x]
  BY DEF Working
<1>3. /\ blocks_data' \in Seq(EntryType) /\ DOMAIN blocks_data' = DOMAIN blocks_data
      /\ Len(blocks_data') = Len(blocks_data) /\ blocks_data'[current] = x
      /\ \A i \in DOMAIN blocks_data : i # current => blocks_data'[i] = blocks_data[i]
  BY <1>1, <1>2, EntryWritten
<1>4. SameIds /\ Entry' = x
  BY <1>2, <1>3 DEF SameIds, Entry
<1>5. \/ /\ at' \in {"launch", "poll"} \/ (at' = "clean" /\ IsFlex)
         /\ UNCHANGED <<phase, k, failed>>
      \/ \E w \in BOOLEAN : NextInit(w)
  BY DEF Working
<1>6. ASSUME NEW w \in BOOLEAN, NextInit(w)
      PROVE  /\ at' = "scicos" /\ failed' \in BOOLEAN
             /\ \/ k < Len(diagram.ids) /\ k' = k + 1 /\ phase' = "init"
                \/ k = Len(diagram.ids) /\ k' = 1 /\ phase' = "run" /\ ~failed'
                \/ k = Len(diagram.ids) /\ k' = 1 /\ phase' = "end" /\ failed'
  BY <1>1, <1>6, NextInitFacts
<1>7. Len(diagram.ids) \in Nat \ {0} /\ DOMAIN diagram.ids = 1 .. Len(diagram.ids)
  BY <1>1, DiagramFacts
<1>8. k < Len(diagram.ids) => k + 1 \in DOMAIN diagram.ids
  BY <1>1, <1>7
<1>9. 1 \in DOMAIN diagram.ids
  BY <1>7
<1> QED
  BY <1>1, <1>3, <1>4, <1>5, <1>6, <1>8, <1>9

(* ... and leaves PlaceInv and the entries that are kept.                  *)
LEMMA WorkingPlaces ==
  ASSUME PlaceInv, NEW x, Working(x)
  PROVE  PlaceInv' /\ Kept' = Kept
<1> DEFINE N == Len(diagram.ids)
<1>1. /\ phase = "init" /\ ~erase_blocks /\ current \in DOMAIN blocks_data
      /\ SameIds /\ Entry' = x /\ blocks_data' \in Seq(EntryType) /\ k' \in DOMAIN diagram.ids
      /\ \A i \in DOMAIN blocks_data : i # current => blocks_data'[i] = blocks_data[i]
  BY WorkingFacts
<1>2. \/ /\ at' \in {"launch", "poll"} \/ (at' = "clean" /\ IsFlex)
         /\ UNCHANGED <<phase, k, failed>>
      \/ /\ at' = "scicos" /\ failed' \in BOOLEAN
         /\ \/ k < N /\ k' = k + 1 /\ phase' = "init"
            \/ k = N /\ k' = 1 /\ phase' = "run" /\ ~failed'
            \/ k = N /\ k' = 1 /\ phase' = "end" /\ failed'
  BY WorkingFacts
<1>3. /\ PlaceType /\ Places /\ Pointed /\ InPlace /\ InOrder /\ Owned
      /\ diagram \in Diagrams /\ k \in DOMAIN diagram.ids /\ N \in Nat \ {0}
      /\ DOMAIN diagram.ids = 1 .. N /\ failed \in BOOLEAN
  BY DiagramFacts DEF PlaceInv, PlaceType
<1>4. UNCHANGED <<diagram, current, work, erase_blocks>> /\ at \in {"open", "launch", "poll"}
  BY DEF Working
<1>5. /\ \A i \in DOMAIN blocks_data : IsFirst(blocks_data', i) <=> IsFirst(blocks_data, i)
      /\ Rest' = Rest => Kept' = Kept
      /\ IsFlex' = IsFlex /\ Numbered' = Numbered
  BY <1>1, SameIdsFacts
<1>6. DOMAIN blocks_data' = DOMAIN blocks_data /\ Len(blocks_data') = Len(blocks_data)
      /\ \A i \in DOMAIN blocks_data : blocks_data'[i].id = blocks_data[i].id
  BY <1>1 DEF SameIds
<1>7. Rest = 1 .. N /\ Rest' = 1 .. N
  BY <1>1, <1>2, <1>3, <1>4 DEF Rest
<1>8. Kept' = Kept
  BY <1>5, <1>7
<1> HIDE DEF N
<1>11. PlaceType'
  BY <1>1, <1>2, <1>3, <1>4 DEF PlaceType
<1>12. Places'
  BY <1>1, <1>2, <1>3, <1>4, <1>5, <1>6 DEF Places
<1>13. Pointed'
  <2>1. IF IsFlex THEN Entry.id = diagram.ids[k] /\ IsFirst(blocks_data, current) ELSE current = k
    BY <1>3, <1>4 DEF Pointed
  <2>2. Entry'.id = Entry.id /\ (IsFirst(blocks_data', current) <=> IsFirst(blocks_data, current))
    BY <1>1, <1>5 DEF Working
  <2>3. at' # "scicos" => k' = k
    BY <1>2
  <2> QED
    BY <1>4, <1>5, <2>1, <2>2, <2>3 DEF Pointed
<1>14. InPlace'
  <2> SUFFICES ASSUME ~IsFlex PROVE InPlace'
    BY <1>5 DEF InPlace
  <2>1. /\ DOMAIN blocks_data \subseteq DOMAIN diagram.ids
        /\ \A i \in DOMAIN blocks_data : blocks_data[i].id = i /\ work[i] = i
        /\ Len(blocks_data) = k
    BY <1>1, <1>3, <1>4 DEF InPlace
  <2>2. /\ phase' # "off"
        /\ phase' = "init" => Len(blocks_data') = IF at' = "scicos" THEN k' - 1 ELSE k'
        /\ phase' \in {"run", "end"} => Len(blocks_data') = N /\ k' = 1
    BY <1>1, <1>2, <1>3, <1>6, <2>1
  <2> QED
    BY <1>4, <1>6, <2>1, <2>2 DEF InPlace, N
<1>15. InOrder'
  <2> SUFFICES ASSUME IsFlex, Numbered, phase' = "init" PROVE InOrder'
    BY <1>5 DEF InOrder
  <2>1. /\ \A i \in DOMAIN blocks_data : blocks_data[i].id = i - 1
        /\ Before(diagram, k + 1) = 0 .. Len(blocks_data) - 1 /\ current = Len(blocks_data)
    BY <1>1, <1>3, <1>4 DEF InOrder
  <2>2. k' = IF at' = "scicos" THEN k + 1 ELSE k
    BY <1>2
  <2>3. diagram' = diagram
    BY <1>4
  <2>4. at' = "scicos" => Before(diagram', k') = 0 .. Len(blocks_data') - 1
    BY <1>6, <2>1, <2>2, <2>3
  <2>5. at' # "scicos" => Before(diagram', k' + 1) = 0 .. Len(blocks_data') - 1
    BY <1>6, <2>1, <2>2, <2>3
  <2> QED
    BY <1>4, <1>6, <2>1, <2>4, <2>5 DEF InOrder
<1>16. Owned'
  <2> SUFFICES ASSUME IsFlex, NEW i \in DOMAIN blocks_data, Touched(blocks_data'[i]) \/ Numbered
               PROVE  IsFirst(blocks_data', i) /\ i \in Kept'
    BY <1>5, <1>6 DEF Owned
  <2>1. CASE i = current
    <3>1. Entry.id = diagram.ids[k] /\ IsFirst(blocks_data, current)
      BY <1>3, <1>4 DEF Pointed
    <3>2. current \in Kept
      BY <1>1, <1>3, <1>7, <3>1 DEF Kept, Entry
    <3> QED
      BY <1>5, <1>8, <2>1, <3>1, <3>2
  <2>2. CASE i # current
    <3>1. Touched(blocks_data'[i]) <=> Touched(blocks_data[i])
      BY <1>1, <2>2 DEF Touched
    <3>2. IsFirst(blocks_data, i) /\ i \in Kept
      BY <1>3, <3>1 DEF Owned
    <3> QED
      BY <1>5, <1>8, <3>2
  <2> QED
    BY <2>1, <2>2
<1> QED
  BY <1>8, <1>11, <1>12, <1>13, <1>14, <1>15, <1>16 DEF PlaceInv

-----------------------------------------------------------------------------
(* A step within a call, or of an engine.                                  *)
Pause ==
  /\ UNCHANGED <<diagram, phase, k, failed, blocks_data, current, work, erase_blocks>>
  /\ at' = at \/ (at = "clean" /\ at' = "wait")

(* ... which leaves PlaceInv and the entries that are kept.                *)
LEMMA PausePlaces ==
  ASSUME PlaceInv, Pause
  PROVE  PlaceInv' /\ Kept' = Kept /\ SameIds
<1>1. /\ UNCHANGED <<diagram, phase, k, failed, blocks_data, current, work, erase_blocks>>
      /\ at' = at \/ (at = "clean" /\ at' = "wait")
      /\ PlaceType /\ Places /\ Pointed /\ InPlace /\ InOrder /\ Owned
  BY DEF PlaceInv, Pause
<1>2. SameIds /\ Rest' = Rest /\ Entry' = Entry
  BY <1>1 DEF SameIds, Rest, Entry
<1>3. /\ \A i \in DOMAIN blocks_data : IsFirst(blocks_data', i) <=> IsFirst(blocks_data, i)
      /\ Kept' = Kept /\ IsFlex' = IsFlex /\ Numbered' = Numbered
  BY <1>2, SameIdsFacts
<1>4. PlaceType' /\ Places'
  BY <1>1, <1>3 DEF PlaceType, Places
<1>5. Pointed'
  BY <1>1, <1>2, <1>3 DEF Pointed, Places
<1>6. InPlace'
  BY <1>1, <1>3 DEF InPlace
<1>7. InOrder'
  BY <1>1, <1>3 DEF InOrder
<1>8. Owned'
  BY <1>1, <1>3 DEF Owned, Touched
<1> QED
  BY <1>2, <1>3, <1>4, <1>5, <1>6, <1>7, <1>8 DEF PlaceInv

(* A step of flag 1.                                                       *)
Updating ==
  /\ phase = "run" /\ UNCHANGED <<diagram, work, erase_blocks>>
  /\ \/ UNCHANGED blocks_data
     \/ \E e \in DOMAIN blocks_data :
          blocks_data' = [blocks_data EXCEPT ![e].exists = FALSE]
  /\ \/ NextUpdate
     \/ at' = "scicos" /\ Go("end") /\ UNCHANGED failed
     \/ at' = "recv" /\ UNCHANGED <<phase, k, failed>> /\ current' \in DOMAIN blocks_data

(* An entry whose exists is cleared keeps its engine and its channel.      *)
LEMMA UpdatedEntry ==
  ASSUME blocks_data \in Seq(EntryType), NEW e \in DOMAIN blocks_data,
         blocks_data' = [blocks_data EXCEPT ![e].exists = FALSE]
  PROVE  /\ blocks_data' \in Seq(EntryType) /\ DOMAIN blocks_data' = DOMAIN blocks_data
         /\ Len(blocks_data') = Len(blocks_data)
         /\ ~blocks_data'[e].exists
         /\ \A i \in DOMAIN blocks_data : i # e => blocks_data'[i] = blocks_data[i]
         /\ \A i \in DOMAIN blocks_data :
              /\ blocks_data'[i].id = blocks_data[i].id
              /\ blocks_data'[i].pid = blocks_data[i].pid
              /\ blocks_data'[i].channel = blocks_data[i].channel
              /\ blocks_data'[i].exists => blocks_data[i].exists
<1> DEFINE x == [blocks_data[e] EXCEPT !.exists = FALSE]
           y == blocks_data[e]
<1>1. y \in EntryType
  BY Entries
<1> HIDE DEF y
<1>2. [y EXCEPT !.exists = FALSE] = [id |-> y.id, pid |-> y.pid, channel |-> y.channel, exists |-> FALSE]
  BY <1>1, EntryFacts, EntryUpdates
<1>3. x = [id |-> y.id, pid |-> y.pid, channel |-> y.channel, exists |-> FALSE]
  BY <1>2 DEF y
<1> HIDE DEF x
<1>4. /\ x \in EntryType /\ x.id = y.id /\ x.pid = y.pid /\ x.channel = y.channel
      /\ x.exists = FALSE
  <2>1. x.id = y.id /\ x.pid = y.pid /\ x.channel = y.channel /\ x.exists = FALSE
    BY <1>3
  <2>2. x \in EntryType
    BY <1>1, <1>3, EntryFacts DEF EntryType
  <2> QED
    BY <2>1, <2>2
<1>5. blocks_data' = [blocks_data EXCEPT ![e] = x]
  BY DEF x
<1>6. /\ blocks_data' \in Seq(EntryType) /\ DOMAIN blocks_data' = DOMAIN blocks_data
      /\ Len(blocks_data') = Len(blocks_data) /\ blocks_data'[e] = x
      /\ \A i \in DOMAIN blocks_data : i # e => blocks_data'[i] = blocks_data[i]
  BY <1>4, <1>5, EntryWritten
<1> QED
  BY <1>4, <1>6 DEF y

(* A step of flag 1 takes no engine and no channel from an entry.          *)
LEMMA UpdatingFacts ==
  ASSUME PlaceInv, Updating
  PROVE  /\ SameIds /\ blocks_data' \in Seq(EntryType)
         /\ \A i \in DOMAIN blocks_data :
              /\ blocks_data'[i].pid = blocks_data[i].pid
              /\ blocks_data'[i].channel = blocks_data[i].channel
              /\ blocks_data'[i].exists => blocks_data[i].exists
         /\ failed' = failed /\ ~failed /\ ~erase_blocks
         /\ \/ /\ at' = "scicos"
               /\ \/ k < Len(diagram.ids) /\ k' = k + 1 /\ phase' = "run"
                  \/ k' = 1 /\ phase' \in {"run", "end"}
            \/ /\ at' = "recv" /\ UNCHANGED <<phase, k>> /\ current' \in DOMAIN blocks_data
<1>1. /\ phase = "run" /\ ~failed /\ ~erase_blocks /\ PlaceType
      /\ blocks_data \in Seq(EntryType) /\ diagram' = diagram
  BY DEF PlaceInv, PlaceType, Places, Updating
<1>3. ASSUME NEW e \in DOMAIN blocks_data,
             blocks_data' = [blocks_data EXCEPT ![e].exists = FALSE]
      PROVE  /\ SameIds /\ blocks_data' \in Seq(EntryType)
             /\ \A i \in DOMAIN blocks_data :
                  /\ blocks_data'[i].pid = blocks_data[i].pid
                  /\ blocks_data'[i].channel = blocks_data[i].channel
                  /\ blocks_data'[i].exists => blocks_data[i].exists
  BY <1>1, <1>3, UpdatedEntry DEF SameIds
<1>4. /\ SameIds /\ blocks_data' \in Seq(EntryType)
      /\ \A i \in DOMAIN blocks_data :
           /\ blocks_data'[i].pid = blocks_data[i].pid
           /\ blocks_data'[i].channel = blocks_data[i].channel
           /\ blocks_data'[i].exists => blocks_data[i].exists
  <2>1. \/ UNCHANGED blocks_data
        \/ \E e \in DOMAIN blocks_data :
             blocks_data' = [blocks_data EXCEPT ![e].exists = FALSE]
    BY DEF Updating
  <2>2. CASE UNCHANGED blocks_data
    BY <1>1, <2>2 DEF SameIds
  <2> QED
    BY <1>3, <2>1, <2>2
<1>5. CASE NextUpdate
  BY <1>1, <1>4, <1>5, NextUpdateFacts
<1>6. CASE at' = "scicos" /\ Go("end") /\ UNCHANGED failed
  BY <1>1, <1>4, <1>6 DEF Go
<1>7. CASE at' = "recv" /\ UNCHANGED <<phase, k, failed>> /\ current' \in DOMAIN blocks_data
  BY <1>1, <1>4, <1>7
<1> QED
  BY <1>5, <1>6, <1>7 DEF Updating

(* ... and leaves PlaceInv and the entries that are kept.                  *)
LEMMA UpdatingPlaces ==
  ASSUME PlaceInv, Updating
  PROVE  PlaceInv' /\ Kept' = Kept
<1> DEFINE N == Len(diagram.ids)
<1>1. /\ SameIds /\ blocks_data' \in Seq(EntryType)
      /\ \A i \in DOMAIN blocks_data :
           /\ blocks_data'[i].pid = blocks_data[i].pid
           /\ blocks_data'[i].channel = blocks_data[i].channel
           /\ blocks_data'[i].exists => blocks_data[i].exists
  BY UpdatingFacts
<1>2. /\ failed' = failed /\ ~failed /\ ~erase_blocks
      /\ \/ /\ at' = "scicos"
            /\ \/ k < N /\ k' = k + 1 /\ phase' = "run"
               \/ k' = 1 /\ phase' \in {"run", "end"}
         \/ /\ at' = "recv" /\ UNCHANGED <<phase, k>> /\ current' \in DOMAIN blocks_data
  BY UpdatingFacts
<1>3. /\ PlaceType /\ Places /\ InPlace /\ Owned
      /\ diagram \in Diagrams /\ k \in DOMAIN diagram.ids /\ N \in Nat \ {0}
      /\ DOMAIN diagram.ids = 1 .. N
  BY DiagramFacts DEF PlaceInv, PlaceType
<1>4. phase = "run" /\ UNCHANGED <<diagram, work, erase_blocks>>
  BY DEF Updating
<1>5. /\ \A i \in DOMAIN blocks_data : IsFirst(blocks_data', i) <=> IsFirst(blocks_data, i)
      /\ Rest' = Rest => Kept' = Kept
      /\ IsFlex' = IsFlex /\ Numbered' = Numbered
  BY <1>1, SameIdsFacts
<1>6. DOMAIN blocks_data' = DOMAIN blocks_data /\ Len(blocks_data') = Len(blocks_data)
      /\ \A i \in DOMAIN blocks_data : blocks_data'[i].id = blocks_data[i].id
  BY <1>1 DEF SameIds
<1>7. Rest = 1 .. N /\ Rest' = 1 .. N
  BY <1>2, <1>3, <1>4 DEF Rest
<1>8. Kept' = Kept
  BY <1>5, <1>7
<1> HIDE DEF N
<1>11. PlaceType' /\ phase' \in {"run", "end"} /\ at' \in {"scicos", "recv"}
  BY <1>1, <1>2, <1>3, <1>4 DEF PlaceType
<1>12. Places'
  BY <1>2, <1>4, <1>5, <1>6 DEF Places
<1>13. Pointed' /\ InOrder'
  BY <1>11 DEF Pointed, InOrder
<1>14. InPlace'
  <2>1. phase' = "end" => k' = 1
    BY <1>2, <1>4
  <2> QED
    BY <1>3, <1>4, <1>5, <1>6, <1>11, <2>1 DEF InPlace
<1>15. Owned'
  BY <1>1, <1>3, <1>5, <1>6, <1>8 DEF Owned, Touched
<1> QED
  BY <1>8, <1>11, <1>12, <1>13, <1>14, <1>15 DEF PlaceInv

-----------------------------------------------------------------------------
(* Steps between two calls of flag 4.                                      *)
LEMMA BeforeNext ==
  ASSUME NEW d, NEW n \in Nat \ {0}
  PROVE  Before(d, n + 1) = Before(d, n) \cup {d.ids[n]} /\ Before(d, 1) = {}
<1>1. 1 .. (n + 1) - 1 = (1 .. n - 1) \cup {n} /\ 1 .. 1 - 1 = {}
  OBVIOUS
<1> QED
  BY <1>1 DEF Before

(* After the last flag 5 no entry is kept.                                 *)
LEMMA NothingKept ==
  ASSUME PlaceType, phase = "off"
  PROVE  Kept = {}
<1>1. Rest = {}
  BY RestFacts
<1> QED
  BY <1>1 DEF Kept

Starting ==
  /\ phase = "off" /\ Go("init") /\ failed' = FALSE
  /\ UNCHANGED <<diagram, at, blocks_data, current, work, erase_blocks>>

(* A simulation starts with entries that nothing is left of.               *)
LEMMA StartPlaces ==
  ASSUME PlaceInv, Starting
  PROVE  PlaceInv' /\ at = "scicos" /\ Kept = {}
<1> DEFINE N == Len(diagram.ids)
<1>1. /\ PlaceType /\ Places /\ InPlace /\ Owned
      /\ diagram \in Diagrams /\ N \in Nat \ {0} /\ DOMAIN diagram.ids = 1 .. N
  BY DiagramFacts DEF PlaceInv, PlaceType
<1>2. /\ phase = "off" /\ phase' = "init" /\ k' = 1 /\ failed' = FALSE
      /\ UNCHANGED <<diagram, at, blocks_data, current, work, erase_blocks>>
  BY DEF Starting, Go
<1>3. at = "scicos"
  BY <1>1, <1>2 DEF PlaceType, Places
<1>4. Kept = {}
  BY <1>1, <1>2, NothingKept
<1>5. IsFlex' = IsFlex /\ Numbered' = Numbered
  BY <1>2, SameIdsFacts DEF SameIds
<1> HIDE DEF N
<1>6. PlaceType'
  <2>1. 1 \in 1 .. N
    BY <1>1
  <2> QED
    BY <1>1, <1>2, <2>1 DEF PlaceType
<1>7. Places' /\ Pointed'
  BY <1>1, <1>2, <1>3, <1>5 DEF Places, Pointed
<1>8. InPlace'
  <2> SUFFICES ASSUME ~IsFlex PROVE InPlace'
    BY <1>5 DEF InPlace
  <2>1. blocks_data = <<>> => Len(blocks_data) = 0
    BY EmptySeq
  <2> QED
    BY <1>1, <1>2, <1>3, <2>1 DEF InPlace
<1>9. IsFlex /\ (Numbered \/ \E i \in DOMAIN blocks_data : Touched(blocks_data[i])) => 
        \A i \in DOMAIN blocks_data : ~(Touched(blocks_data[i]) \/ Numbered)
  BY <1>1, <1>4 DEF Owned
<1>10. InOrder'
  <2> SUFFICES ASSUME IsFlex, Numbered PROVE InOrder'
    BY <1>5 DEF InOrder
  <2>1. DOMAIN blocks_data = {}
    BY <1>9
  <2>2. Len(blocks_data) = 0
    BY <1>1, <2>1, Entries DEF PlaceType
  <2>3. Before(diagram, 1) = {} /\ 0 .. 0 - 1 = {}
    BY BeforeNext
  <2> QED
    BY <1>2, <1>3, <2>1, <2>2, <2>3 DEF InOrder
<1>11. Owned'
  <2>1. \A i \in DOMAIN blocks_data : Touched(blocks_data'[i]) <=> Touched(blocks_data[i])
    BY <1>2 DEF Touched
  <2> QED
    BY <1>2, <1>5, <1>9, <2>1 DEF Owned
<1> QED
  BY <1>3, <1>4, <1>6, <1>7, <1>8, <1>10, <1>11 DEF PlaceInv

(* Flag 4 is over, without an entry of its own or after an error of flex.  *)
Passing ==
  /\ phase = "init" /\ IsFlex
  /\ UNCHANGED <<diagram, blocks_data, current, work, erase_blocks>>
  /\ \/ at = "scicos" /\ diagram.ids[k] < Len(blocks_data)
     \/ at \in {"clean", "wait"}
  /\ \E w \in BOOLEAN : NextInit(w)

(* ... which leaves PlaceInv and the entries that are kept.                *)
LEMMA PassingPlaces ==
  ASSUME PlaceInv, Passing
  PROVE  PlaceInv' /\ Kept' = Kept /\ SameIds
<1> DEFINE N == Len(diagram.ids)
<1>1. /\ PlaceType /\ Places /\ InOrder /\ Owned
      /\ diagram \in Diagrams /\ k \in DOMAIN diagram.ids /\ N \in Nat \ {0}
      /\ DOMAIN diagram.ids = 1 .. N /\ blocks_data \in Seq(EntryType)
      /\ diagram.ids[k] \in Nat
  BY DiagramFacts DEF PlaceInv, PlaceType
<1>2. /\ phase = "init" /\ IsFlex /\ ~erase_blocks /\ SameIds
      /\ UNCHANGED <<diagram, blocks_data, current, work, erase_blocks>>
  BY <1>1 DEF Passing, SameIds, Places
<1>3. /\ at' = "scicos" /\ failed' \in BOOLEAN
      /\ \/ k < N /\ k' = k + 1 /\ phase' = "init"
         \/ k = N /\ k' = 1 /\ phase' = "run" /\ ~failed'
         \/ k = N /\ k' = 1 /\ phase' = "end" /\ failed'
  <2>1. PICK w \in BOOLEAN : NextInit(w)
    BY DEF Passing
  <2> QED
    BY <1>1, <1>2, <2>1, NextInitFacts
<1>4. /\ \A i \in DOMAIN blocks_data : IsFirst(blocks_data', i) <=> IsFirst(blocks_data, i)
      /\ Rest' = Rest => Kept' = Kept
      /\ IsFlex' = IsFlex /\ Numbered' = Numbered
  BY <1>2, SameIdsFacts
<1>5. Rest = 1 .. N /\ Rest' = 1 .. N
  BY <1>1, <1>2, <1>3 DEF Rest
<1>6. Kept' = Kept
  BY <1>4, <1>5
<1> HIDE DEF N
<1>7. PlaceType'
  BY <1>1, <1>2, <1>3 DEF PlaceType
<1>8. Places' /\ Pointed'
  BY <1>2, <1>3, <1>4 DEF Places, Pointed
<1>9. InPlace'
  BY <1>2, <1>4 DEF InPlace
<1>10. InOrder'
  <2> SUFFICES ASSUME Numbered, phase' = "init" PROVE InOrder'
    BY <1>4 DEF InOrder
  <2>1. \A i \in DOMAIN blocks_data : blocks_data[i].id = i - 1
    BY <1>1, <1>2 DEF InOrder
  <2>2. k \in Nat \ {0} /\ Len(blocks_data) \in Nat
    BY <1>1, Entries
  <2>3. Before(diagram, k + 1) = 0 .. Len(blocks_data) - 1
    <3>1. CASE at = "scicos" /\ diagram.ids[k] < Len(blocks_data)
      <4>1. Before(diagram, k) = 0 .. Len(blocks_data) - 1
        BY <1>1, <1>2, <3>1 DEF InOrder
      <4>2. diagram.ids[k] \in 0 .. Len(blocks_data) - 1
        BY <1>1, <2>2, <3>1
      <4>3. Before(diagram, k + 1) = Before(diagram, k) \cup {diagram.ids[k]}
        BY <2>2, BeforeNext
      <4> QED
        BY <4>1, <4>2, <4>3
    <3>2. CASE at \in {"clean", "wait"}
      BY <1>1, <1>2, <3>2 DEF InOrder
    <3> QED
      BY <3>1, <3>2 DEF Passing
  <2>4. k' = k + 1
    BY <1>3
  <2> QED
    BY <1>2, <1>3, <2>1, <2>3, <2>4 DEF InOrder
<1>11. Owned'
  BY <1>1, <1>2, <1>4, <1>6 DEF Owned, Touched
<1> QED
  BY <1>2, <1>6, <1>7, <1>8, <1>9, <1>10, <1>11 DEF PlaceInv

-----------------------------------------------------------------------------
(* A new entry comes after the others, and the block's entry is the first  *)
(* with its number.                                                        *)
LEMMA NewEntryType ==
  ASSUME NEW i \in Nat
  PROVE  /\ NewEntry(i) \in EntryType /\ NewEntry(i).id = i /\ NewEntry(i).pid = none
         /\ NewEntry(i).channel = init_channel /\ ~NewEntry(i).exists
         /\ init_channel.handle = none /\ init_channel.listenHandle = none
BY DEF NewEntry, init_channel, EntryType, Channels

(* The entries before a new one, and the new one.                          *)
LEMMA MakeBlockEntries ==
  ASSUME PlaceInv, MakeBlock
  PROVE  LET N    == Len(diagram.ids)
             pos  == Len(blocks_data')
             here == IF erase_blocks THEN {} ELSE DOMAIN blocks_data
             id   == IF IsFlex THEN diagram.ids[k] ELSE pos
         IN  /\ blocks_data' \in Seq(EntryType) /\ pos \in Nat \ {0} /\ id \in Nat
             /\ here = 1 .. pos - 1
             /\ \A i \in here : i \in DOMAIN blocks_data /\ blocks_data'[i] = blocks_data[i]
             /\ blocks_data'[pos] = NewEntry(id)
             /\ current' = FirstOf({i \in 1 .. pos : blocks_data'[i].id = id})
             /\ work' = [work EXCEPT ![k] = pos]
<1> DEFINE before == IF erase_blocks THEN <<>> ELSE blocks_data
           pos    == Len(before) + 1
           id     == IF diagram.lib = "flex" THEN diagram.ids[k] ELSE pos
           here   == IF erase_blocks THEN {} ELSE DOMAIN blocks_data
<1>1. /\ diagram \in Diagrams /\ k \in DOMAIN diagram.ids /\ blocks_data \in Seq(EntryType)
      /\ diagram.ids[k] \in Nat
  BY DiagramFacts DEF PlaceInv, PlaceType
<1>2. /\ blocks_data' = Append(before, NewEntry(id))
      /\ work' = [work EXCEPT ![k] = pos]
      /\ current' = FirstOf(WithId(blocks_data', id))
  BY DEF MakeBlock
<1>3. before \in Seq(EntryType) /\ Len(before) \in Nat /\ here = 1 .. Len(before)
      /\ \A i \in here : i \in DOMAIN blocks_data /\ before[i] = blocks_data[i]
  <2>1. CASE erase_blocks
    <3>1. before = <<>> /\ here = {}
      BY <2>1
    <3>2. <<>> \in Seq(EntryType) /\ Len(<<>>) = 0
      BY EmptySeq
    <3> HIDE DEF before, here
    <3> QED
      BY <3>1, <3>2
  <2>2. CASE ~erase_blocks
    <3>1. before = blocks_data /\ here = DOMAIN blocks_data
      BY <2>2
    <3> QED
      BY <1>1, <3>1, Entries
  <2> QED
    BY <2>1, <2>2
<1> HIDE DEF before, here
<1>4. id \in Nat
  BY <1>1, <1>3
<1> HIDE DEF id
<1>5. NewEntry(id) \in EntryType
  BY <1>4, NewEntryType
<1> DEFINE e == NewEntry(id)
           new == Append(before, e)
<1> HIDE DEF e
<1>6. /\ new \in Seq(EntryType) /\ Len(new) = Len(before) + 1
      /\ \A i \in 1 .. Len(before) : new[i] = before[i]
      /\ new[Len(before) + 1] = e
  BY <1>3, <1>5, AppendProperties DEF e
<1>7. DOMAIN new = 1 .. Len(before) + 1
  BY <1>6, LenProperties
<1>8. blocks_data' = new
  BY <1>2 DEF e
<1> HIDE DEF new
<1>9. WithId(blocks_data', id) = {i \in 1 .. pos : blocks_data'[i].id = id}
  BY <1>7, <1>8 DEF WithId
<1>10. pos \in Nat \ {0} /\ Len(before) = pos - 1 /\ Len(blocks_data') = pos
  BY <1>3, <1>6, <1>8
<1>11. id = IF IsFlex THEN diagram.ids[k] ELSE Len(blocks_data')
  BY <1>10 DEF id, IsFlex
<1>12. here = 1 .. Len(blocks_data') - 1
       /\ \A i \in here : i \in DOMAIN blocks_data /\ blocks_data'[i] = blocks_data[i]
  BY <1>3, <1>6, <1>8, <1>10
<1>13. blocks_data'[Len(blocks_data')] = NewEntry(id)
  BY <1>6, <1>8, <1>10 DEF e
<1> HIDE DEF pos
<1> QED
  BY <1>2, <1>4, <1>6, <1>8, <1>9, <1>10, <1>11, <1>12, <1>13 DEF here

(* An interval has one end.                                                *)
LEMMA SameInterval ==
  ASSUME NEW a \in Nat, NEW b \in Nat, 1 .. a = 1 .. b
  PROVE  a = b
<1>1. a < b => b \in 1 .. b /\ b \notin 1 .. a
  OBVIOUS
<1>2. b < a => a \in 1 .. a /\ a \notin 1 .. b
  OBVIOUS
<1> QED
  BY <1>1, <1>2

Making ==
  LET pos == Len(blocks_data')
  IN  /\ blocks_data' \in Seq(EntryType) /\ DOMAIN blocks_data' = 1 .. pos /\ pos \in Nat \ {0}
      /\ Kept' = Kept \cup {pos} /\ current' \in Kept'
      /\ \A i \in Kept : i \in DOMAIN blocks_data' /\ i # pos /\ blocks_data'[i] = blocks_data[i]
      /\ \A i \in DOMAIN blocks_data' : i # pos => i \in Live /\ blocks_data'[i] = blocks_data[i]
      /\ blocks_data'[pos].pid = none /\ ~blocks_data'[pos].exists
      /\ blocks_data'[pos].channel = init_channel
      /\ Numbered => current' = pos
      /\ Numbered' = Numbered

(* A new entry is kept, and so is every one that was.                      *)
LEMMA MakeBlockPlaces ==
  ASSUME PlaceInv, MakeBlock
  PROVE  PlaceInv' /\ Making
<1> DEFINE N    == Len(diagram.ids)
           pos  == Len(blocks_data')
           here == IF erase_blocks THEN {} ELSE DOMAIN blocks_data
           id   == IF IsFlex THEN diagram.ids[k] ELSE pos
           same == {i \in 1 .. pos : blocks_data'[i].id = id}
<1>1. /\ blocks_data' \in Seq(EntryType) /\ pos \in Nat \ {0} /\ id \in Nat
      /\ here = 1 .. pos - 1
      /\ \A i \in here : i \in DOMAIN blocks_data /\ blocks_data'[i] = blocks_data[i]
      /\ blocks_data'[pos] = NewEntry(id)
      /\ current' = FirstOf(same)
      /\ work' = [work EXCEPT ![k] = pos]
  BY MakeBlockEntries
<1>2. /\ PlaceType /\ Places /\ InPlace /\ InOrder /\ Owned
      /\ diagram \in Diagrams /\ k \in DOMAIN diagram.ids /\ N \in Nat \ {0}
      /\ DOMAIN diagram.ids = 1 .. N /\ blocks_data \in Seq(EntryType)
      /\ work \in [DOMAIN diagram.ids -> Int] /\ k \in Nat \ {0}
  BY DiagramFacts DEF PlaceInv, PlaceType
<1>3. /\ phase = "init" /\ at = "scicos" /\ phase' = "init" /\ at' = "open"
      /\ ~(IsFlex /\ diagram.ids[k] < Len(blocks_data))
      /\ erase_blocks' = FALSE /\ UNCHANGED <<diagram, k, failed>>
  <2>1. /\ Calling("init") /\ ~Skipped /\ erase_blocks' = FALSE /\ at' = "open"
        /\ UNCHANGED <<phase, k, failed>> /\ UNCHANGED scicos
    BY DEF MakeBlock
  <2> QED
    BY <2>1 DEF Calling, Skipped, IsFlex, scicos
<1>4. /\ Len(blocks_data) \in Nat /\ DOMAIN blocks_data = 1 .. Len(blocks_data)
      /\ DOMAIN blocks_data' = 1 .. pos
  BY <1>1, <1>2, Entries, LenProperties
<1>5. NewEntry(id).id = id /\ NewEntry(id).pid = none /\ NewEntry(id).channel = init_channel
      /\ ~NewEntry(id).exists
  BY <1>1, NewEntryType
<1>6. IsFlex' = IsFlex /\ (Numbered' <=> Numbered) /\ Numbered' = Numbered
  <2>1. diagram' = diagram
    BY <1>3
  <2> QED
    BY <2>1 DEF Numbered, IsFlex
<1>7. /\ IsFlex => ~erase_blocks
      /\ ~erase_blocks => here = DOMAIN blocks_data /\ pos = Len(blocks_data) + 1
      /\ erase_blocks => here = {} /\ pos = 1
  <2>1. IsFlex => ~erase_blocks
    BY <1>2 DEF Places
  <2>2. here = 1 .. pos - 1 /\ pos \in Nat \ {0}
    BY <1>1
  <2>3. ~erase_blocks => here = 1 .. Len(blocks_data)
    BY <1>4
  <2>4. erase_blocks => here = 1 .. 0
    OBVIOUS
  <2> DEFINE a == pos - 1
             b == Len(blocks_data)
             c == 0
  <2>5. a \in Nat /\ b \in Nat /\ c \in Nat /\ pos = a + 1
    BY <1>4, <2>2
  <2>6. (~erase_blocks => 1 .. a = 1 .. b) /\ (erase_blocks => 1 .. a = 1 .. c)
    BY <2>2, <2>3, <2>4
  <2> HIDE DEF a, b, c, pos, here
  <2>7. (~erase_blocks => a = b) /\ (erase_blocks => a = c)
    BY <2>5, <2>6, SameInterval
  <2>8. ~erase_blocks => here = DOMAIN blocks_data
    BY DEF here
  <2>9. erase_blocks => here = {}
    BY DEF here
  <2> QED
    BY <2>1, <2>5, <2>7, <2>8, <2>9 DEF b, c
<1> HIDE DEF N, pos, id
<1>8. /\ current' \in 1 .. pos /\ blocks_data'[current'].id = id
      /\ \A j \in 1 .. pos : blocks_data'[j].id = id => current' <= j
  <2>1. same \subseteq Nat /\ pos \in same
    BY <1>1, <1>5
  <2> HIDE DEF same
  <2>2. current' \in same /\ \A j \in same : current' <= j
    BY <1>1, <2>1, FirstIsLeast
  <2> QED
    BY <2>2 DEF same
<1> HIDE DEF same
<1>9. IsFirst(blocks_data', current')
  <2>1. \A j \in DOMAIN blocks_data' : blocks_data'[j].id = blocks_data'[current'].id => current' <= j
    BY <1>4, <1>8
  <2> QED
    BY <2>1 DEF IsFirst
<1>10. ASSUME ~IsFlex
       PROVE  pos = k /\ current' = pos /\ \A i \in 1 .. pos : blocks_data'[i].id = i
  <2>1. id = pos
    BY <1>10 DEF id
  <2>2. pos = k
    <3>1. CASE erase_blocks
      BY <1>2, <1>3, <1>7, <3>1 DEF Places
    <3>2. CASE ~erase_blocks
      <4>1. Len(blocks_data) = k - 1
        BY <1>2, <1>3, <1>10, <3>2 DEF InPlace
      <4> QED
        BY <1>2, <1>7, <3>2, <4>1
    <3> QED
      BY <3>1, <3>2
  <2>3. \A i \in here : blocks_data'[i].id = i
    BY <1>1, <1>2, <1>10 DEF InPlace
  <2>4. \A i \in 1 .. pos : i \in here \/ i = pos
    BY <1>1
  <2>5. \A i \in 1 .. pos : blocks_data'[i].id = i
    BY <1>1, <1>5, <2>1, <2>3, <2>4
  <2> QED
    BY <1>8, <2>1, <2>2, <2>5
<1>11. ASSUME IsFlex, Numbered
       PROVE  /\ current' = pos /\ Before(diagram, k + 1) = 0 .. pos - 1
              /\ \A i \in 1 .. pos : blocks_data'[i].id = i - 1
  <2> DEFINE L == Len(blocks_data)
  <2>1. /\ \A i \in DOMAIN blocks_data : blocks_data[i].id = i - 1
        /\ Before(diagram, k) = 0 .. L - 1
    BY <1>2, <1>3, <1>11 DEF InOrder
  <2>2. id \in Before(diagram, k) \cup {Cardinality(Before(diagram, k))}
    <3>1. id = diagram.ids[k]
      BY <1>11 DEF id
    <3> QED
      BY <1>2, <1>11, <3>1 DEF Numbered, Before, IsFlex
  <2>3. Cardinality(0 .. L - 1) = L
    <3> DEFINE m == L - 1
               z == 0
    <3>1. L \in Nat /\ m \in Int /\ z \in Int /\ m - z + 1 = L /\ (z > m => L = 0)
      BY <1>4
    <3> HIDE DEF m, z, L
    <3>2. Cardinality(z .. m) = IF z <= m THEN m - z + 1 ELSE 0
      BY <3>1, FS_Interval
    <3>3. Cardinality(z .. m) = L
      BY <3>1, <3>2
    <3> QED
      BY <3>3 DEF m, z
  <2>4. L \in Nat /\ pos = L + 1 /\ here = 1 .. L /\ id \in Nat /\ ~(id < L)
    <3>1. ~(id < L)
      BY <1>3, <1>11 DEF id
    <3> QED
      BY <1>1, <1>4, <1>7, <1>11, <3>1
  <2>5. id = L
    <3>1. id \in 0 .. L - 1 \/ id = L
      BY <2>1, <2>2, <2>3
    <3> QED
      BY <2>4, <3>1
  <2>6. \A i \in 1 .. L : blocks_data'[i].id = i - 1
    BY <1>1, <1>4, <2>1, <2>4
  <2>7. \A i \in 1 .. pos : blocks_data'[i].id = i - 1
    <3>1. \A i \in 1 .. pos : i \in 1 .. L \/ i = pos
      BY <2>4
    <3>2. blocks_data'[pos].id = pos - 1
      BY <1>1, <1>5, <2>4, <2>5
    <3> QED
      BY <2>6, <3>1, <3>2
  <2>8. current' = pos
    BY <1>8, <2>4, <2>5, <2>7
  <2>9. Before(diagram, k + 1) = 0 .. pos - 1
    <3>1. Before(diagram, k + 1) = Before(diagram, k) \cup {diagram.ids[k]}
      BY <1>2, BeforeNext
    <3>2. diagram.ids[k] = L
      BY <1>11, <2>5 DEF id
    <3>3. 0 .. pos - 1 = (0 .. L - 1) \cup {L}
      BY <2>4
    <3> QED
      BY <2>1, <3>1, <3>2, <3>3
  <2> QED
    BY <2>7, <2>8, <2>9
<1>12. Numbered => current' = pos
  BY <1>10, <1>11
<1>13. Rest' = 1 .. N /\ Rest = IF erase_blocks THEN {} ELSE 1 .. N
  BY <1>2, <1>3 DEF Rest, N
<1>14. here = {i \in DOMAIN blocks_data : ~erase_blocks} /\ DOMAIN blocks_data' = here \cup {pos}
       /\ pos \notin here
  <2>1. 1 .. pos = (1 .. pos - 1) \cup {pos} /\ pos \notin 1 .. pos - 1
    BY <1>1
  <2>2. here = {i \in DOMAIN blocks_data : ~erase_blocks}
    BY <1>7
  <2> QED
    BY <1>1, <1>4, <2>1, <2>2
<1> HIDE DEF here
<1>15. Kept \subseteq here /\ \A i \in here : i \in Kept' <=> i \in Kept
  <2>1. \A i \in here : i \in DOMAIN blocks_data /\ i \in DOMAIN blocks_data'
                       /\ blocks_data'[i].id = blocks_data[i].id /\ Rest' = Rest
    BY <1>1, <1>13, <1>14
  <2>2. \A i \in here : i \in Kept' <=> i \in Kept
    BY <1>3, <1>6, <2>1 DEF Kept
  <2>3. Kept \subseteq here
    <3>1. erase_blocks => Kept = {}
      BY <1>13 DEF Kept
    <3>2. Kept \subseteq DOMAIN blocks_data
      BY DEF Kept
    <3> QED
      BY <1>14, <3>1, <3>2
  <2> QED
    BY <2>2, <2>3
<1>16. pos \in Kept'
  <2>1. CASE IsFlex
    <3>1. blocks_data'[pos].id = diagram.ids[k] /\ k \in Rest'
      BY <1>1, <1>2, <1>5, <1>13, <2>1 DEF id, N
    <3> QED
      BY <1>3, <1>6, <1>14, <2>1, <3>1 DEF Kept
  <2>2. CASE ~IsFlex
    <3>1. pos \in Rest'
      BY <1>2, <1>10, <1>13, <2>2 DEF N
    <3> QED
      BY <1>6, <1>14, <2>2, <3>1 DEF Kept
  <2> QED
    BY <2>1, <2>2
<1>17. Kept' = Kept \cup {pos}
  <2>1. Kept' \subseteq here \cup {pos}
    BY <1>14 DEF Kept
  <2> QED
    BY <1>15, <1>16, <2>1
<1>18. current' \in Kept'
  <2>1. CASE current' = pos
    BY <1>16, <2>1
  <2>2. CASE IsFlex
    <3>1. blocks_data'[current'].id = diagram.ids[k] /\ k \in Rest' /\ current' \in DOMAIN blocks_data'
      BY <1>2, <1>4, <1>8, <1>13, <2>2 DEF id, N
    <3> QED
      BY <1>3, <1>6, <2>2, <3>1 DEF Kept
  <2> QED
    BY <1>10, <2>1, <2>2
<1>19. Making
  <2>1. \A i \in Kept : i \in DOMAIN blocks_data' /\ i # pos /\ blocks_data'[i] = blocks_data[i]
    BY <1>1, <1>14, <1>15
  <2>2. \A i \in DOMAIN blocks_data' : i # pos => i \in Live /\ blocks_data'[i] = blocks_data[i]
    BY <1>1, <1>14 DEF Live
  <2>3. /\ blocks_data'[pos].pid = none /\ ~blocks_data'[pos].exists
        /\ blocks_data'[pos].channel = init_channel
    BY <1>1, <1>5
  <2> QED
    BY <1>1, <1>4, <1>6, <1>12, <1>17, <1>18, <2>1, <2>2, <2>3 DEF Making, pos
<1>20. PlaceType'
  <2>1. pos \in Int
    BY <1>1
  <2> QED
    BY <1>1, <1>2, <1>3, <2>1 DEF PlaceType
<1>21. Places'
  BY <1>3, <1>4, <1>8 DEF Places
<1>22. Pointed'
  <2>1. IsFlex => blocks_data'[current'].id = diagram.ids[k]
    BY <1>8 DEF id
  <2>2. Entry' = blocks_data'[current']
    BY DEF Entry
  <2> QED
    BY <1>3, <1>6, <1>9, <1>10, <2>1, <2>2 DEF Pointed
<1>23. InPlace'
  <2> SUFFICES ASSUME ~IsFlex PROVE InPlace'
    BY <1>6 DEF InPlace
  <2>1. pos = k /\ (\A i \in 1 .. pos : blocks_data'[i].id = i) /\ Len(blocks_data') = k
    BY <1>10 DEF pos
  <2>2. \A i \in DOMAIN blocks_data' : i \in DOMAIN diagram.ids /\ work'[i] = i
    <3>1. work' = [work EXCEPT ![k] = k]
      BY <1>1, <2>1
    <3>2. \A i \in here : i \in DOMAIN diagram.ids /\ work[i] = i
      BY <1>2, <1>14 DEF InPlace
    <3> QED
      BY <1>2, <1>14, <2>1, <3>1, <3>2
  <2> QED
    BY <1>3, <1>4, <2>1, <2>2 DEF InPlace
<1>24. InOrder'
  <2> SUFFICES ASSUME IsFlex, Numbered PROVE InOrder'
    BY <1>6 DEF InOrder
  <2>1. current' = Len(blocks_data') /\ Before(diagram, k + 1) = 0 .. Len(blocks_data') - 1
        /\ \A i \in DOMAIN blocks_data' : blocks_data'[i].id = i - 1
    BY <1>4, <1>11 DEF pos
  <2> QED
    BY <1>3, <2>1 DEF InOrder
<1>25. Owned'
  <2> SUFFICES ASSUME IsFlex, NEW i \in DOMAIN blocks_data',
                      Touched(blocks_data'[i]) \/ Numbered
               PROVE  IsFirst(blocks_data', i) /\ i \in Kept'
    BY <1>6 DEF Owned
  <2>1. i \in Kept'
    <3>1. CASE i = pos
      BY <1>16, <3>1
    <3>2. CASE i # pos
      <4>1. i \in here /\ i \in DOMAIN blocks_data /\ blocks_data'[i] = blocks_data[i]
        BY <1>1, <1>14, <3>2
      <4> QED
        BY <1>2, <1>17, <4>1 DEF Owned
    <3> QED
      BY <3>1, <3>2
  <2>2. CASE Numbered
    <3>1. \A j \in DOMAIN blocks_data' : blocks_data'[j].id = blocks_data'[i].id => i = j
      BY <1>4, <1>11, <2>2
    <3>2. i <= i
      BY <1>4
    <3> QED
      BY <2>1, <3>1, <3>2 DEF IsFirst
  <2>3. CASE Touched(blocks_data'[i])
    <3>1. i # pos
      BY <1>1, <1>5, <2>3 DEF Touched
    <3>2. i \in here /\ i \in DOMAIN blocks_data /\ blocks_data'[i] = blocks_data[i]
      BY <1>1, <1>14, <3>1
    <3>3. \A j \in DOMAIN blocks_data : blocks_data[j].id = blocks_data[i].id => i <= j
      BY <1>2, <2>3, <3>2 DEF Owned, IsFirst
    <3>4. \A j \in here : blocks_data'[j].id = blocks_data'[i].id => i <= j
      BY <1>1, <3>2, <3>3
    <3>5. i <= pos
      BY <1>1, <3>2
    <3>6. \A j \in DOMAIN blocks_data' : blocks_data'[j].id = blocks_data'[i].id => i <= j
      BY <1>14, <3>4, <3>5
    <3> QED
      BY <2>1, <3>6 DEF IsFirst
  <2> QED
    BY <2>2, <2>3
<1> QED
  BY <1>19, <1>20, <1>21, <1>22, <1>23, <1>24, <1>25 DEF PlaceInv

-----------------------------------------------------------------------------
(* Flag 5.                                                                 *)
LEMMA EntryOfFacts ==
  ASSUME PlaceInv, NEW b \in DOMAIN diagram.ids
  PROVE  /\ EntryOf(b) = none \/ EntryOf(b) \in DOMAIN blocks_data
         /\ none \notin DOMAIN blocks_data
         /\ IsFlex /\ EntryOf(b) # none =>
              /\ blocks_data[EntryOf(b)].id = diagram.ids[b]
              /\ IsFirst(blocks_data, EntryOf(b))
         /\ IsFlex /\ EntryOf(b) = none =>
              \A i \in DOMAIN blocks_data : blocks_data[i].id # diagram.ids[b]
         /\ ~IsFlex /\ phase \in {"run", "end"} => EntryOf(b) = b
<1>1. /\ PlaceType /\ InPlace /\ blocks_data \in Seq(EntryType) /\ diagram \in Diagrams
      /\ Len(blocks_data) \in Nat /\ DOMAIN blocks_data = 1 .. Len(blocks_data)
      /\ DOMAIN diagram.ids = 1 .. Len(diagram.ids)
  BY Entries, DiagramFacts DEF PlaceInv, PlaceType
<1>2. none \notin DOMAIN blocks_data
  BY <1>1 DEF none
<1>3. CASE IsFlex
  <2> DEFINE S == WithId(blocks_data, diagram.ids[b])
  <2>1. S = {i \in DOMAIN blocks_data : blocks_data[i].id = diagram.ids[b]}
    BY Zenon DEF WithId
  <2>2. EntryOf(b) = FirstOf(S)
    BY <1>3 DEF EntryOf, IsFlex
  <2>3. S \subseteq Nat
    BY <1>1, <2>1
  <2> HIDE DEF S
  <2>4. /\ S = {} => FirstOf(S) = none
        /\ S # {} => FirstOf(S) \in S /\ \A n \in S : FirstOf(S) <= n
    BY <2>3, FirstIsLeast
  <2>5. CASE S = {}
    BY <1>2, <1>3, <2>1, <2>2, <2>4, <2>5
  <2>6. CASE S # {}
    <3> DEFINE e == EntryOf(b)
    <3>1. e \in DOMAIN blocks_data /\ blocks_data[e].id = diagram.ids[b]
      BY <2>1, <2>2, <2>4, <2>6
    <3>2. \A j \in DOMAIN blocks_data : blocks_data[j].id = diagram.ids[b] => e <= j
      BY <2>1, <2>2, <2>4, <2>6
    <3> HIDE DEF e
    <3>3. IsFirst(blocks_data, e)
      BY <3>1, <3>2 DEF IsFirst
    <3>4. e # none
      BY <1>2, <3>1
    <3> QED
      BY <1>2, <1>3, <3>1, <3>3, <3>4 DEF e
  <2> QED
    BY <2>5, <2>6
<1>4. CASE ~IsFlex
  <2>1. EntryOf(b) = IF work[b] \in DOMAIN blocks_data THEN work[b] ELSE none
    BY <1>4 DEF EntryOf, IsFlex
  <2>2. ASSUME phase \in {"run", "end"} PROVE EntryOf(b) = b
    <3>1. Len(blocks_data) = Len(diagram.ids)
      BY <1>1, <1>4, <2>2 DEF InPlace
    <3>2. b \in DOMAIN blocks_data /\ work[b] = b
      BY <1>1, <1>4, <3>1 DEF InPlace
    <3> QED
      BY <2>1, <3>2
  <2> QED
    BY <1>2, <1>4, <2>1, <2>2
<1> QED
  BY <1>3, <1>4

Ending ==
  /\ phase = "end" /\ at = "scicos" /\ at' = "clean"
  /\ EntryOf(k) # none /\ current' = EntryOf(k)
  /\ UNCHANGED <<diagram, phase, k, failed, blocks_data, work, erase_blocks>>

(* The entry that flag 5 works on is that of its block.                    *)
LEMMA EndingPlaces ==
  ASSUME PlaceInv, Ending
  PROVE  PlaceInv' /\ Kept' = Kept /\ SameIds /\ current' \in DOMAIN blocks_data
<1>1. /\ PlaceType /\ Places /\ InPlace /\ InOrder /\ Owned /\ k \in DOMAIN diagram.ids
  BY DEF PlaceInv, PlaceType
<1>2. /\ phase = "end" /\ at = "scicos" /\ at' = "clean"
      /\ EntryOf(k) # none /\ current' = EntryOf(k)
      /\ UNCHANGED <<diagram, phase, k, failed, blocks_data, work, erase_blocks>>
  BY DEF Ending
<1>3. SameIds /\ Rest' = Rest
  BY <1>2 DEF SameIds, Rest
<1>4. /\ \A i \in DOMAIN blocks_data : IsFirst(blocks_data', i) <=> IsFirst(blocks_data, i)
      /\ Kept' = Kept /\ IsFlex' = IsFlex /\ Numbered' = Numbered
  BY <1>3, SameIdsFacts
<1>5. /\ current' \in DOMAIN blocks_data
      /\ IsFlex => /\ blocks_data[current'].id = diagram.ids[k]
                   /\ IsFirst(blocks_data, current')
      /\ ~IsFlex => current' = k
  BY <1>1, <1>2, EntryOfFacts
<1>6. PlaceType' /\ Places'
  BY <1>1, <1>2, <1>4, <1>5 DEF PlaceType, Places
<1>7. Pointed'
  <2>1. Entry' = blocks_data'[current']
    BY DEF Entry
  <2> QED
    BY <1>2, <1>4, <1>5, <2>1 DEF Pointed
<1>8. InPlace' /\ InOrder'
  BY <1>1, <1>2, <1>4 DEF InPlace, InOrder
<1>9. Owned'
  BY <1>1, <1>2, <1>4 DEF Owned
<1> QED
  BY <1>3, <1>4, <1>5, <1>6, <1>7, <1>8, <1>9 DEF PlaceInv

(* A board that has been ended already.                                    *)
EndingNone ==
  /\ phase = "end" /\ at = "scicos" /\ EntryOf(k) = none /\ NextEnd
  /\ UNCHANGED <<diagram, blocks_data, current, work, erase_blocks>>

(* ... whose flag 5 leaves the entries that are kept.                      *)
LEMMA EndingNonePlaces ==
  ASSUME PlaceInv, EndingNone
  PROVE  PlaceInv' /\ Kept' = Kept /\ SameIds
<1> DEFINE N == Len(diagram.ids)
<1>1. /\ PlaceType /\ Places /\ Owned /\ k \in DOMAIN diagram.ids
      /\ diagram \in Diagrams /\ N \in Nat \ {0} /\ DOMAIN diagram.ids = 1 .. N
  BY DiagramFacts DEF PlaceInv, PlaceType
<1>2. /\ phase = "end" /\ at = "scicos" /\ EntryOf(k) = none /\ NextEnd
      /\ UNCHANGED <<diagram, blocks_data, current, work, erase_blocks>>
  BY DEF EndingNone
<1>3. /\ at' = "scicos" /\ failed' = failed
      /\ \/ k < N /\ k' = k + 1 /\ phase' = "end"
         \/ k = N /\ k' = 1 /\ phase' = "off"
  BY <1>1, <1>2, NextEndFacts
<1>4. IsFlex /\ \A i \in DOMAIN blocks_data : blocks_data[i].id # diagram.ids[k]
  <2>1. none # k
    BY <1>1 DEF none
  <2> QED
    BY <1>1, <1>2, <2>1, EntryOfFacts
<1>5. SameIds
  BY <1>2 DEF SameIds
<1>6. /\ \A i \in DOMAIN blocks_data : IsFirst(blocks_data', i) <=> IsFirst(blocks_data, i)
      /\ IsFlex' = IsFlex /\ Numbered' = Numbered
  BY <1>5, SameIdsFacts
<1>7. Rest = k .. N /\ Rest = {k} \cup Rest'
  BY <1>1, <1>2, <1>3 DEF Rest
<1>8. Kept' = Kept
  BY <1>2, <1>4, <1>6, <1>7 DEF Kept
<1> HIDE DEF N
<1>9. PlaceType'
  <2>1. k' \in 1 .. N
    BY <1>1, <1>3
  <2> QED
    BY <1>1, <1>2, <1>3, <2>1 DEF PlaceType
<1>10. Places' /\ Pointed' /\ InPlace' /\ InOrder'
  <2>1. Places'
    BY <1>1, <1>2, <1>3, <1>4, <1>6 DEF Places
  <2>2. Pointed' /\ InPlace' /\ InOrder'
    BY <1>3, <1>4, <1>6 DEF Pointed, InPlace, InOrder
  <2> QED
    BY <2>1, <2>2
<1>11. Owned'
  BY <1>1, <1>2, <1>6, <1>8 DEF Owned
<1> QED
  BY <1>5, <1>8, <1>9, <1>10, <1>11 DEF PlaceInv

-----------------------------------------------------------------------------
(* An entry is removed, or all of them are given up.                       *)
LEMMA RemovedFacts ==
  ASSUME blocks_data \in Seq(EntryType), NEW e \in DOMAIN blocks_data
  PROVE  /\ Removed(e) \in Seq(EntryType) /\ Len(Removed(e)) = Len(blocks_data) - 1
         /\ DOMAIN Removed(e) = 1 .. Len(blocks_data) - 1
         /\ \A i \in 1 .. Len(blocks_data) - 1 :
              Removed(e)[i] = IF i < e THEN blocks_data[i] ELSE blocks_data[i + 1]
<1> DEFINE n == Len(blocks_data)
           s == SubSeq(blocks_data, 1, e - 1)
           t == SubSeq(blocks_data, e + 1, n)
<1>1. n \in Nat /\ e \in 1 .. n /\ \A i \in 1 .. n : blocks_data[i] \in EntryType
  BY Entries
<1>2. s \in Seq(EntryType) /\ Len(s) = e - 1 /\ \A i \in 1 .. e - 1 : s[i] = blocks_data[i]
  <2> DEFINE a == e - 1
  <2>1. a \in 0 .. n
    BY <1>1
  <2> HIDE DEF a
  <2>2. /\ SubSeq(blocks_data, 1, a) \in Seq(EntryType) /\ Len(SubSeq(blocks_data, 1, a)) = a
        /\ \A i \in 1 .. a : SubSeq(blocks_data, 1, a)[i] = blocks_data[i]
    BY <2>1, PrefixProperties
  <2> QED
    BY <2>2 DEF a
<1>3. t \in Seq(EntryType) /\ Len(t) = n - e /\ \A i \in 1 .. n - e : t[i] = blocks_data[i + e]
  <2>1. e + 1 \in 1 .. n + 1
    BY <1>1
  <2> DEFINE r == e + 1
  <2>2. r \in 1 .. n + 1 /\ n - r + 1 = n - e /\ r - 1 = e
    BY <1>1
  <2> HIDE DEF r
  <2>3. /\ SubSeq(blocks_data, r, n) \in Seq(EntryType)
        /\ Len(SubSeq(blocks_data, r, n)) = n - r + 1
        /\ \A i \in 1 .. n - r + 1 : SubSeq(blocks_data, r, n)[i] = blocks_data[i + (r - 1)]
    BY <2>2, Lemmas!SuffixProperties
  <2> QED
    BY <2>2, <2>3 DEF r
<1> HIDE DEF s, t, n
<1>4. s \o t \in Seq(EntryType) /\ Len(s \o t) = (e - 1) + (n - e)
      /\ \A i \in 1 .. (e - 1) + (n - e) : (s \o t)[i] = IF i <= e - 1 THEN s[i] ELSE t[i - (e - 1)]
  <2>1. /\ s \o t \in Seq(EntryType) /\ Len(s \o t) = Len(s) + Len(t)
        /\ \A i \in 1 .. Len(s) + Len(t) :
             (s \o t)[i] = IF i <= Len(s) THEN s[i] ELSE t[i - Len(s)]
    BY <1>2, <1>3, ConcatProperties
  <2> QED
    BY <1>2, <1>3, <2>1
<1>5. Removed(e) = s \o t
  BY DEF Removed, s, t, n
<1>6. (e - 1) + (n - e) = n - 1
  BY <1>1
<1>7. \A i \in 1 .. n - 1 : (s \o t)[i] = IF i < e THEN blocks_data[i] ELSE blocks_data[i + 1]
  <2> SUFFICES ASSUME NEW i \in 1 .. n - 1
               PROVE  (s \o t)[i] = IF i < e THEN blocks_data[i] ELSE blocks_data[i + 1]
    OBVIOUS
  <2>1. CASE i < e
    <3>1. i <= e - 1 /\ i \in 1 .. e - 1
      BY <1>1, <2>1
    <3> QED
      BY <1>2, <1>4, <1>6, <2>1, <3>1
  <2>2. CASE ~(i < e)
    <3>1. ~(i <= e - 1) /\ i - (e - 1) \in 1 .. n - e /\ (i - (e - 1)) + e = i + 1
      BY <1>1, <2>2
    <3> QED
      BY <1>3, <1>4, <1>6, <2>2, <3>1
  <2> QED
    BY <2>1, <2>2
<1>8. DOMAIN (s \o t) = 1 .. n - 1
  BY <1>4, <1>6, LenProperties
<1> QED
  BY <1>4, <1>5, <1>6, <1>7, <1>8 DEF n


Ended ==
  /\ phase = "end" /\ at \in {"clean", "wait"} /\ NextEnd
  /\ UNCHANGED <<diagram, current, work>>
  /\ IF IsFlex THEN blocks_data' = Removed(current) /\ UNCHANGED erase_blocks
     ELSE erase_blocks' = TRUE /\ UNCHANGED blocks_data

(* The entries that are left, but for those of later blocks of the board.  *)
OthersKept ==
  \A i \in Kept : Touched(blocks_data[i]) /\ i # current =>
    \E j \in Kept' : blocks_data'[j] = blocks_data[i]

(* A block has ended: the entries of the others are kept.                  *)
LEMMA EndedPlaces ==
  ASSUME PlaceInv, Ended
  PROVE  PlaceInv' /\ OthersKept /\ Numbered' = Numbered
<1> DEFINE N == Len(diagram.ids)
<1>1. /\ PlaceType /\ Places /\ Pointed /\ InPlace /\ Owned /\ k \in DOMAIN diagram.ids
      /\ diagram \in Diagrams /\ N \in Nat \ {0} /\ DOMAIN diagram.ids = 1 .. N
      /\ blocks_data \in Seq(EntryType) /\ Len(blocks_data) \in Nat
      /\ DOMAIN blocks_data = 1 .. Len(blocks_data)
  BY DiagramFacts, Entries DEF PlaceInv, PlaceType
<1>2. /\ phase = "end" /\ at \in {"clean", "wait"} /\ NextEnd
      /\ UNCHANGED <<diagram, current, work>>
      /\ IsFlex => blocks_data' = Removed(current) /\ UNCHANGED erase_blocks
      /\ ~IsFlex => erase_blocks' = TRUE /\ UNCHANGED blocks_data
  BY DEF Ended
<1>3. /\ at' = "scicos" /\ failed' = failed
      /\ \/ k < N /\ k' = k + 1 /\ phase' = "end"
         \/ k = N /\ k' = 1 /\ phase' = "off"
  BY <1>1, <1>2, NextEndFacts
<1>4. /\ current \in DOMAIN blocks_data
      /\ IsFlex => /\ blocks_data[current].id = diagram.ids[k]
                   /\ IsFirst(blocks_data, current)
      /\ ~IsFlex => current = k
  BY <1>1, <1>2 DEF Places, Pointed, Entry
<1>5. IsFlex' = IsFlex /\ Numbered' = Numbered
  <2>1. diagram' = diagram
    BY <1>2
  <2> QED
    BY <2>1 DEF IsFlex, Numbered
<1>6. Rest = k .. N /\ Rest = {k} \cup Rest'
  BY <1>1, <1>2, <1>3 DEF Rest
<1> HIDE DEF N
<1>7. k' \in 1 .. N
  BY <1>1, <1>3
<1>8. CASE IsFlex
  <2> DEFINE L == Len(blocks_data)
             new == Removed(current)
             from(j) == IF j < current THEN j ELSE j + 1
  <2>1. /\ new \in Seq(EntryType) /\ Len(new) = L - 1 /\ DOMAIN new = 1 .. L - 1
        /\ \A j \in 1 .. L - 1 : new[j] = IF j < current THEN blocks_data[j] ELSE blocks_data[j + 1]
    BY <1>1, <1>4, RemovedFacts
  <2>2. blocks_data' = new /\ erase_blocks' = erase_blocks
    BY <1>2, <1>8
  <2> HIDE DEF new
  <2>3. L \in Nat /\ current \in 1 .. L /\ DOMAIN blocks_data = 1 .. L
    BY <1>1, <1>4
  <2> HIDE DEF L
  <2>4. \A j \in 1 .. L - 1 : /\ from(j) \in DOMAIN blocks_data /\ from(j) # current
                              /\ new[j] = blocks_data[from(j)]
    BY <2>1, <2>3
  <2>5. \A i, j \in 1 .. L - 1 : from(i) <= from(j) => i <= j
    BY <2>3
  <2>6. \A i \in DOMAIN blocks_data : i # current => \E j \in 1 .. L - 1 : from(j) = i
    <3> SUFFICES ASSUME NEW i \in 1 .. L, i # current PROVE \E j \in 1 .. L - 1 : from(j) = i
      BY <2>3
    <3>1. CASE i < current
      <4>1. i \in 1 .. L - 1 /\ from(i) = i
        BY <2>3, <3>1
      <4> QED
        BY <4>1
    <3>2. CASE ~(i < current)
      <4>1. i - 1 \in 1 .. L - 1 /\ ~(i - 1 < current) /\ (i - 1) + 1 = i
        BY <2>3, <3>2
      <4>2. from(i - 1) = i
        BY <4>1
      <4> QED
        BY <4>1, <4>2
    <3> QED
      BY <3>1, <3>2
  <2> HIDE DEF from
  <2>7. Owned'
    <3> SUFFICES ASSUME NEW j \in 1 .. L - 1, Touched(new[j]) \/ Numbered
                 PROVE  IsFirst(new, j) /\ j \in Kept'
      BY <1>5, <1>8, <2>1, <2>2 DEF Owned
    <3> DEFINE i == from(j)
    <3>1. i \in DOMAIN blocks_data /\ i # current /\ new[j] = blocks_data[i]
      BY <2>4
    <3>2. i \in Int /\ current \in Int
      BY <2>3, <3>1
    <3> HIDE DEF i
    <3>3. IsFirst(blocks_data, i) /\ i \in Kept
      BY <1>1, <1>8, <3>1 DEF Owned
    <3>4. ASSUME NEW m \in DOMAIN new, new[m].id = new[j].id
          PROVE  j <= m
      <4>1. m \in 1 .. L - 1
        BY <2>1
      <4>2. from(m) \in DOMAIN blocks_data /\ blocks_data[from(m)].id = blocks_data[i].id
        BY <2>4, <3>1, <3>4, <4>1
      <4>3. i <= from(m)
        BY <3>3, <4>2 DEF IsFirst
      <4> QED
        BY <2>5, <4>1, <4>3 DEF i
    <3>5. PICK b \in Rest : diagram.ids[b] = blocks_data[i].id
      BY <1>8, <3>3 DEF Kept
    <3>6. b # k
      <4> SUFFICES ASSUME b = k PROVE FALSE
        OBVIOUS
      <4>1. blocks_data[i].id = blocks_data[current].id
        BY <1>4, <1>8, <3>5
      <4>2. i <= current
        BY <1>4, <3>3, <4>1 DEF IsFirst
      <4>3. current <= i
        BY <1>4, <1>8, <3>1, <4>1 DEF IsFirst
      <4> QED
        BY <3>1, <3>2, <4>2, <4>3
    <3>7. b \in Rest' /\ diagram.ids[b] = new[j].id
      BY <1>6, <3>1, <3>5, <3>6
    <3>8. j \in Kept'
      BY <1>2, <1>5, <1>8, <2>1, <2>2, <3>7 DEF Kept
    <3> QED
      BY <3>4, <3>8 DEF IsFirst
  <2>8. OthersKept
    <3> SUFFICES ASSUME NEW i \in Kept, Touched(blocks_data[i]), i # current
                 PROVE  \E j \in Kept' : blocks_data'[j] = blocks_data[i]
      BY DEF OthersKept
    <3>1. i \in DOMAIN blocks_data
      BY DEF Kept
    <3>2. PICK j \in 1 .. L - 1 : from(j) = i
      BY <2>6, <3>1
    <3>3. new[j] = blocks_data[i]
      BY <2>4, <3>2
    <3>4. j \in Kept'
      BY <1>5, <1>8, <2>1, <2>2, <2>7, <3>3 DEF Owned
    <3> QED
      BY <2>2, <3>3, <3>4
  <2>9. PlaceType'
    BY <1>1, <1>2, <1>3, <1>7, <2>1, <2>2 DEF PlaceType
  <2>10. Places'
    BY <1>1, <1>3, <1>5, <1>8, <2>2 DEF Places
  <2>11. Pointed' /\ InPlace' /\ InOrder'
    BY <1>3, <1>5, <1>8 DEF Pointed, InPlace, InOrder
  <2> QED
    BY <1>5, <2>7, <2>8, <2>9, <2>10, <2>11 DEF PlaceInv
<1>9. CASE ~IsFlex
  <2>1. erase_blocks' = TRUE /\ blocks_data' = blocks_data
    BY <1>2, <1>9
  <2>2. PlaceType'
    BY <1>1, <1>2, <1>3, <1>7, <2>1 DEF PlaceType
  <2>3. Places'
    BY <1>1, <1>3, <1>5, <1>9, <2>1 DEF Places
  <2>4. Pointed' /\ InOrder' /\ Owned'
    BY <1>3, <1>5, <1>9 DEF Pointed, InOrder, Owned
  <2>5. InPlace'
    BY <1>1, <1>2, <1>3, <1>5, <1>9, <2>1 DEF InPlace
  <2>6. OthersKept
    BY <1>4, <1>5, <1>6, <1>9, <2>1 DEF OthersKept, Kept
  <2> QED
    BY <1>5, <2>2, <2>3, <2>4, <2>5, <2>6 DEF PlaceInv
<1> QED
  BY <1>8, <1>9

-----------------------------------------------------------------------------
(* What a step leaves of the engines, the descriptors and the answers.     *)
SameEngines ==
  /\ abandoned' = abandoned
  /\ \A p \in Pids : /\ engine'[p] = "reaped" <=> engine[p] = "reaped"
                     /\ engine'[p] = "unused" <=> engine[p] = "unused"

SamePids == \A i \in Kept : i \in Kept' /\ blocks_data'[i].pid = blocks_data[i].pid
SameChannels == \A i \in Kept : i \in Kept' /\ blocks_data'[i].channel = blocks_data[i].channel

NoNewFiles == \A f \in Fds : files'[f] # Free => files[f] # Free

(* Engines stay with the entries that were to end them.                    *)
LEMMA EnginesStay ==
  ASSUME Handled, EnginesKept, Numbered' = Numbered, SameEngines, SamePids,
         handler_already_registered' => handler_already_registered
  PROVE  Handled' /\ EnginesKept'
<1>1. Handled'
  <2> SUFFICES ASSUME handler_already_registered' PROVE Handled'
    BY DEF Handled
  <2>1. PICK i \in Kept : blocks_data[i].pid \in Pids /\ engine[blocks_data[i].pid] # "reaped"
    BY DEF Handled
  <2>2. i \in Kept' /\ blocks_data'[i].pid = blocks_data[i].pid
        /\ engine'[blocks_data[i].pid] # "reaped"
    BY <2>1 DEF SameEngines, SamePids
  <2> QED
    BY <2>1, <2>2 DEF Handled
<1>2. EnginesKept'
  <2> SUFFICES ASSUME Numbered, NEW p \in Pids, engine'[p] \notin {"unused", "reaped"},
                      p \notin abandoned'
               PROVE  \E i \in Kept' : blocks_data'[i].pid = p
    BY DEF EnginesKept
  <2>1. engine[p] \notin {"unused", "reaped"} /\ p \notin abandoned
    BY DEF SameEngines
  <2>2. PICK i \in Kept : blocks_data[i].pid = p
    BY <2>1 DEF EnginesKept
  <2> QED
    BY <2>2 DEF SamePids
<1> QED
  BY <1>1, <1>2

(* Descriptors stay with the entries that were to close them.              *)
LEMMA FilesStay ==
  ASSUME FilesKept, Numbered' = Numbered, NoNewFiles, SameChannels,
         phase' = "end" => at' \notin {"clean", "wait"}
  PROVE  FilesKept'
<1> SUFFICES ASSUME Numbered, NEW f \in Fds, files'[f] # Free
             PROVE  \E i \in Kept' : blocks_data'[i].channel.handle = f
                                     \/ blocks_data'[i].channel.listenHandle = f
  BY DEF FilesKept
<1>1. files[f] # Free
  BY DEF NoNewFiles
<1>2. PICK i \in Kept : blocks_data[i].channel.handle = f
                        \/ blocks_data[i].channel.listenHandle = f
  BY <1>1 DEF FilesKept
<1> QED
  BY <1>2 DEF SameChannels

(* A step of a simulation in which a call has failed or which ends.        *)
LEMMA AnswersStay ==
  ASSUME DataType, Inboxes, InStep, UNCHANGED <<inbox, asked, got>>, ~Good', at' # "recv",
         \A p \in Pids : engine'[p] \in {"unused", "starting", "connecting"} =>
                           engine[p] \in {"unused", "starting", "connecting"}
  PROVE  Sockets' /\ Inboxes' /\ Reading' /\ InStep'
<1>1. Sockets' /\ Reading'
  BY DEF Sockets, Reading
<1>2. Inboxes'
  BY DEF Inboxes
<1>3. InStep'
  BY DEF InStep
<1> QED
  BY <1>1, <1>2, <1>3

(* Sockets stay as they are where entries and answers do.                  *)
LEMMA SocketsStay ==
  ASSUME Sockets, Good, at # "recv", UNCHANGED <<files, inbox>>, at = "scicos",
         \A i \in Live' : i \in Live /\ blocks_data'[i] = blocks_data[i]
  PROVE  Sockets'
<1> SUFFICES ASSUME NEW i \in Live'
             PROVE  Listens(i)' /\ (blocks_data'[i].exists => Connects(i)')
  BY DEF Sockets
<1>1. Listens(i) /\ (blocks_data[i].exists => Connects(i)) /\ blocks_data'[i] = blocks_data[i]
  BY DEF Sockets
<1>2. Listens(i)'
  BY <1>1 DEF Listens
<1>3. blocks_data'[i].exists => Connects(i)'
  BY <1>1 DEF Connects, Idle
<1> QED
  BY <1>2, <1>3

(* The entry that a call works on.                                         *)
LEMMA CurrentKept ==
  ASSUME PlaceInv, at \in {"open", "launch", "poll", "clean", "wait"}
  PROVE  /\ current \in Kept /\ current \in DOMAIN blocks_data /\ Entry \in EntryType
         /\ IsFlex => IsFirst(blocks_data, current)
<1> DEFINE N == Len(diagram.ids)
<1>1. /\ PlaceType /\ Places /\ Pointed /\ k \in 1 .. N /\ N \in Nat
      /\ blocks_data \in Seq(EntryType) /\ current \in DOMAIN blocks_data
  BY DiagramFacts DEF PlaceInv, PlaceType, Places
<1>2. IF IsFlex THEN Entry.id = diagram.ids[k] /\ IsFirst(blocks_data, current) ELSE current = k
  BY <1>1 DEF Pointed
<1>3. k \in Rest
  <2>1. phase = "init" => ~erase_blocks
    BY <1>1 DEF Places
  <2>2. phase \in {"init", "end"}
    BY <1>1 DEF Places
  <2> QED
    BY <1>1, <2>1, <2>2, RestFacts
<1>4. current \in Kept
  BY <1>1, <1>2, <1>3 DEF Kept, Entry
<1>5. Entry \in EntryType
  BY <1>1, Entries DEF Entry
<1> QED
  BY <1>1, <1>2, <1>4, <1>5

(* The entries that are kept are entries.                                  *)
LEMMA KeptFacts ==
  ASSUME PlaceInv
  PROVE  \A i \in Kept : i \in DOMAIN blocks_data /\ blocks_data[i] \in EntryType
<1>1. blocks_data \in Seq(EntryType)
  BY DEF PlaceInv, PlaceType
<1> QED
  BY <1>1, Entries DEF Kept

-----------------------------------------------------------------------------
(* Descriptors.                                                            *)
LEMMA FileKinds ==
  /\ \A m, n : Listening(m) = Listening(n) => m = n
  /\ \A m, n : Connected(m) = Connected(n) => m = n
  /\ \A m, n : Listening(m) # Connected(n)
  /\ \A m : Listening(m) # Free /\ Connected(m) # Free
BY DEF Listening, Connected, Free

(* A descriptor that is closed is free, and the others as before.          *)
LEMMA ClosedFacts ==
  ASSUME NEW fs \in [Fds -> FileType], NEW fd \in Fds \cup {none}
  PROVE  /\ Closed(fs, fd) \in [Fds -> FileType]
         /\ fd \in Fds => Closed(fs, fd)[fd] = Free
         /\ \A f \in Fds : f # fd => Closed(fs, fd)[f] = fs[f]
<1>1. Free \in FileType
  BY DEF FileType
<1>2. none \notin Fds
  BY FdsAssumption DEF none
<1>3. CASE fd = none
  BY <1>2, <1>3 DEF Closed
<1>4. CASE fd # none
  BY <1>1, <1>4 DEF Closed
<1> QED
  BY <1>3, <1>4

(* A channel that is cleaned leaves neither of its descriptors open.       *)
LEMMA CleanChannelFacts ==
  ASSUME NEW fs \in [Fds -> FileType], NEW c \in Channels
  PROVE  /\ clean_channel(fs, c) \in [Fds -> FileType]
         /\ \A f \in Fds : clean_channel(fs, c)[f] # Free =>
                             fs[f] # Free /\ c.handle # f /\ c.listenHandle # f
<1>1. c.handle \in Fds \cup {none} /\ c.listenHandle \in Fds \cup {none}
  BY DEF Channels
<1> DEFINE half == Closed(fs, c.handle)
           both == Closed(half, c.listenHandle)
<1>2. /\ half \in [Fds -> FileType]
      /\ c.handle \in Fds => half[c.handle] = Free
      /\ \A f \in Fds : f # c.handle => half[f] = fs[f]
  BY <1>1, ClosedFacts
<1> HIDE DEF half
<1>3. /\ both \in [Fds -> FileType]
      /\ c.listenHandle \in Fds => both[c.listenHandle] = Free
      /\ \A f \in Fds : f # c.listenHandle => both[f] = half[f]
  BY <1>1, <1>2, ClosedFacts
<1> HIDE DEF both
<1>4. \A f \in Fds : both[f] # Free => fs[f] # Free /\ c.handle # f /\ c.listenHandle # f
  BY <1>2, <1>3
<1> QED
  BY <1>3, <1>4 DEF clean_channel, half, both

(* A channel with one descriptor written.                                  *)
LEMMA ChannelUpdates ==
  ASSUME NEW c \in Channels, NEW h \in Fds \cup {none}
  PROVE  /\ [c EXCEPT !.handle = h] = [handle |-> h, listenHandle |-> c.listenHandle]
         /\ [c EXCEPT !.listenHandle = h] = [handle |-> c.handle, listenHandle |-> h]
<1>1. PICK a, b : c = [handle |-> a, listenHandle |-> b]
  BY DEF Channels
<1>2. c.handle = a /\ c.listenHandle = b
  BY <1>1
<1>3. [c EXCEPT !.handle = h] = [handle |-> h, listenHandle |-> b]
  BY <1>1
<1>4. [c EXCEPT !.listenHandle = h] = [handle |-> a, listenHandle |-> h]
  BY <1>1
<1> QED
  BY <1>2, <1>3, <1>4

(* A channel, field by field.                                              *)
LEMMA ChannelMade ==
  ASSUME NEW a \in Fds \cup {none}, NEW b \in Fds \cup {none},
         NEW c, c = [handle |-> a, listenHandle |-> b]
  PROVE  c \in Channels /\ c.handle = a /\ c.listenHandle = b
BY DEF Channels

(* A channel that has been closed, or has a new descriptor to listen on.   *)
LEMMA OpenChannelFacts ==
  ASSUME NEW fs \in [Fds -> FileType], NEW c \in Channels, NEW name \in Nat,
         NEW o \in open_channel(fs, c, name)
  PROVE  LET before == Closed(fs, c.listenHandle)
             fd     == o.channel.listenHandle
         IN  /\ o.files \in [Fds -> FileType] /\ o.channel \in Channels
             /\ o.channel.handle = c.handle
             /\ \/ ~o.ok /\ o.files = before /\ fd = none
                \/ /\ fd \in Fds /\ before[fd] = Free
                   /\ o.files[fd] # Free /\ (o.ok => o.files[fd] = Listening(name))
                   /\ \A f \in Fds : f # fd => o.files[f] = before[f]
<1> DEFINE before == Closed(fs, c.listenHandle)
           new == NewFd(before)
           On(h) == [c EXCEPT !.listenHandle = h]
           bad == [ok |-> FALSE, files |-> before, channel |-> On(none)]
           half == [ok |-> FALSE, files |-> [before EXCEPT ![new] = Listening(none)], channel |-> On(new)]
           good == [ok |-> TRUE, files |-> [before EXCEPT ![new] = Listening(name)], channel |-> On(new)]
<1>1. c.handle \in Fds \cup {none} /\ c.listenHandle \in Fds \cup {none}
  BY DEF Channels
<1>2. before \in [Fds -> FileType]
  BY <1>1, ClosedFacts
<1>3. o = bad \/ (HasFree(before) /\ (o = half \/ o = good))
  <2>1. CASE HasFree(before)
    BY <2>1, Zenon DEF open_channel
  <2>2. CASE ~HasFree(before)
    BY <2>2, Zenon DEF open_channel
  <2> QED
    BY <2>1, <2>2
<1>4. HasFree(before) => new \in Fds /\ before[new] = Free
  BY NewFdIsFree
<1>5. \A h \in Fds \cup {none} : /\ On(h) \in Channels /\ On(h).handle = c.handle
                                 /\ On(h).listenHandle = h
  <2> SUFFICES ASSUME NEW h \in Fds \cup {none}
               PROVE  On(h) \in Channels /\ On(h).handle = c.handle /\ On(h).listenHandle = h
    OBVIOUS
  <2>1. On(h) = [handle |-> c.handle, listenHandle |-> h]
    BY ChannelUpdates
  <2> HIDE DEF On
  <2> QED
    BY <1>1, <2>1, ChannelMade
<1>6. Listening(none) \in FileType /\ Listening(name) \in FileType
  BY DEF FileType
<1>7. Listening(none) # Free /\ Listening(name) # Free
  BY FileKinds
<1> HIDE DEF before, new, On
<1>8. CASE o = bad
  <2>1. o.files = before /\ o.channel = On(none) /\ ~o.ok
    BY <1>8
  <2> QED
    BY <1>2, <1>5, <2>1 DEF before
<1>9. ASSUME NEW b \in BOOLEAN, NEW n \in {none, name}, HasFree(before), b => n = name,
             o = [ok |-> b, files |-> [before EXCEPT ![new] = Listening(n)], channel |-> On(new)]
      PROVE  /\ o.files \in [Fds -> FileType] /\ o.channel \in Channels
             /\ o.channel.handle = c.handle /\ o.channel.listenHandle = new /\ o.ok = b
             /\ new \in Fds /\ before[new] = Free
             /\ o.files[new] = Listening(n)
             /\ \A f \in Fds : f # new => o.files[f] = before[f]
  <2>1. /\ o.files = [before EXCEPT ![new] = Listening(n)] /\ o.channel = On(new) /\ o.ok = b
    BY <1>9
  <2>2. new \in Fds /\ before[new] = Free
    BY <1>4, <1>9
  <2>3. Listening(n) \in FileType
    BY <1>6
  <2> HIDE DEF Listening
  <2> QED
    BY <1>2, <1>5, <2>1, <2>2, <2>3
<1>10. CASE HasFree(before) /\ o = half
  BY <1>7, <1>9, <1>10 DEF before
<1>11. CASE HasFree(before) /\ o = good
  BY <1>7, <1>9, <1>11 DEF before
<1> QED
  BY <1>3, <1>8, <1>10, <1>11

-----------------------------------------------------------------------------
(* Flag 4, from the start of a simulation.                                 *)
LEMMA StartKeeps ==
  ASSUME SimInv, Start
  PROVE  SimInv'
<1>1. /\ PlaceInv /\ DataType /\ Handled /\ EnginesKept /\ FilesKept /\ Inboxes
  BY DEF SimInv
<1>2. /\ phase = "off" /\ phase' = "init" /\ k' = 1 /\ failed' = FALSE /\ asked' = 0 /\ got' = <<>>
      /\ UNCHANGED <<diagram, at, blocks_data, current, work, erase_blocks, reads, inbox, files,
                     engine, abandoned, handler_already_registered>>
  BY DEF Start, Go, entries, processes
<1>3. PlaceInv' /\ at = "scicos" /\ Kept = {}
  <2>1. Starting
    BY <1>2 DEF Starting, Go
  <2> QED
    BY <1>1, <2>1, StartPlaces
<1>4. DataType'
  <2>1. got' \in Seq(Nat) /\ asked' \in Nat
    BY <1>2, EmptySeq
  <2> QED
    BY <1>1, <1>2, <2>1 DEF DataType
<1>5. Numbered' = Numbered
  BY <1>2, SameIdsFacts DEF SameIds
<1>6. Handled' /\ EnginesKept'
  <2>1. SameEngines /\ SamePids
    BY <1>2, <1>3 DEF SameEngines, SamePids
  <2> QED
    BY <1>1, <1>2, <1>5, <2>1, EnginesStay
<1>7. FilesKept'
  <2>1. NoNewFiles /\ SameChannels
    BY <1>2, <1>3 DEF NoNewFiles, SameChannels
  <2> QED
    BY <1>1, <1>2, <1>5, <2>1, FilesStay
<1>8. Waiting' /\ Fresh' /\ Reading'
  BY <1>2, <1>3 DEF Waiting, Fresh, Reading
<1>9. Inboxes' /\ InStep'
  BY <1>1, <1>2 DEF Inboxes, InStep
<1>10. Sockets'
  <2>1. \A i \in Live : ~Touched(blocks_data[i])
    <3>1. CASE IsFlex
      BY <1>1, <1>3, <3>1 DEF PlaceInv, Owned, Live
    <3>2. CASE ~IsFlex
      <4>1. erase_blocks \/ blocks_data = <<>>
        BY <1>1, <1>2, <3>2 DEF PlaceInv, InPlace
      <4> QED
        BY <4>1 DEF Live
    <3> QED
      BY <3>1, <3>2
  <2>2. Live' = Live
    BY <1>2 DEF Live
  <2>3. \A i \in Live : ~blocks_data[i].exists /\ blocks_data[i].channel.listenHandle = none
    BY <2>1 DEF Touched, init_channel
  <2> QED
    BY <1>2, <1>3, <2>2, <2>3 DEF Sockets, Listens
<1> QED
  BY <1>3, <1>4, <1>6, <1>7, <1>8, <1>9, <1>10 DEF SimInv

(* A block that takes another's entry.                                     *)
LEMMA SkipBlockKeeps ==
  ASSUME SimInv, SkipBlock
  PROVE  SimInv'
<1>1. /\ PlaceInv /\ PlaceType /\ DataType /\ Handled /\ EnginesKept /\ FilesKept /\ Inboxes
      /\ Sockets /\ InStep
  BY DEF SimInv, PlaceInv
<1>2. /\ phase = "init" /\ at = "scicos" /\ NextInit(FALSE)
      /\ UNCHANGED <<diagram, blocks_data, current, work, erase_blocks, asked, reads, got, inbox,
                     files, engine, abandoned, handler_already_registered>>
  BY DEF SkipBlock, Calling, scicos, entries, update, processes
<1>3. PlaceInv' /\ Kept' = Kept /\ SameIds
  <2>1. \E w \in BOOLEAN : NextInit(w)
    BY <1>2
  <2>2. IsFlex /\ diagram.ids[k] < Len(blocks_data)
    BY DEF SkipBlock, Skipped, IsFlex
  <2>3. Passing
    BY <1>2, <2>1, <2>2 DEF Passing
  <2> QED
    BY <1>1, <2>3, PassingPlaces
<1>4. at' = "scicos" /\ (~failed' => ~failed)
  BY <1>1, <1>2, NextInitFacts
<1>5. Numbered' = Numbered /\ DataType'
  BY <1>1, <1>2, <1>3, SameIdsFacts DEF DataType
<1>6. Handled' /\ EnginesKept'
  <2>1. SameEngines /\ SamePids
    BY <1>2, <1>3 DEF SameEngines, SamePids
  <2> QED
    BY <1>1, <1>2, <1>5, <2>1, EnginesStay
<1>7. FilesKept'
  <2>1. NoNewFiles /\ SameChannels
    BY <1>2, <1>3 DEF NoNewFiles, SameChannels
  <2> QED
    BY <1>1, <1>4, <1>5, <2>1, FilesStay
<1>8. Waiting' /\ Fresh' /\ Reading'
  BY <1>4 DEF Waiting, Fresh, Reading
<1>9. Inboxes' /\ InStep'
  BY <1>1, <1>2 DEF Inboxes, InStep
<1>10. Sockets'
  <2>1. Live' = Live /\ (Good' => Good)
    BY <1>2, <1>4 DEF Live, Good
  <2>2. CASE Good
    BY <1>1, <1>2, <2>1, <2>2, SocketsStay
  <2> QED
    BY <2>1, <2>2 DEF Sockets
<1> QED
  BY <1>3, <1>5, <1>6, <1>7, <1>8, <1>9, <1>10 DEF SimInv

(* A block that gets an entry of its own.                                  *)
LEMMA MakeBlockKeeps ==
  ASSUME SimInv, MakeBlock
  PROVE  SimInv'
<1>1. /\ PlaceInv /\ DataType /\ Handled /\ EnginesKept /\ FilesKept /\ Inboxes
      /\ Sockets /\ InStep
  BY DEF SimInv
<1>2. /\ phase = "init" /\ at = "scicos" /\ at' = "open" /\ ~erase_blocks'
      /\ UNCHANGED <<diagram, phase, failed, asked, reads, got, inbox, files, engine,
                     abandoned, handler_already_registered>>
  BY DEF MakeBlock, Calling, scicos, update, processes
<1> DEFINE pos == Len(blocks_data')
<1>3. PlaceInv' /\ Making
  BY <1>1, MakeBlockPlaces
<1>4. /\ DOMAIN blocks_data' = 1 .. pos
      /\ Kept' = Kept \cup {pos} /\ current' \in Kept'
      /\ \A i \in Kept : i \in DOMAIN blocks_data' /\ i # pos /\ blocks_data'[i] = blocks_data[i]
      /\ \A i \in DOMAIN blocks_data' : i # pos => i \in Live /\ blocks_data'[i] = blocks_data[i]
      /\ blocks_data'[pos].pid = none /\ ~blocks_data'[pos].exists
      /\ blocks_data'[pos].channel = init_channel
      /\ Numbered => current' = pos
      /\ Numbered' = Numbered
  BY <1>3 DEF Making
<1> HIDE DEF pos
<1>5. DataType'
  BY <1>1, <1>2 DEF DataType
<1>6. Handled' /\ EnginesKept'
  <2>1. SameEngines /\ SamePids
    BY <1>2, <1>4 DEF SameEngines, SamePids
  <2> QED
    BY <1>1, <1>2, <1>4, <2>1, EnginesStay
<1>7. FilesKept'
  <2>1. NoNewFiles /\ SameChannels
    BY <1>2, <1>4 DEF NoNewFiles, SameChannels
  <2> QED
    BY <1>1, <1>2, <1>4, <2>1, FilesStay
<1>8. Waiting' /\ Reading'
  BY <1>2 DEF Waiting, Reading
<1>9. Fresh'
  <2>1. init_channel.handle = none /\ init_channel.listenHandle = none
    BY DEF init_channel
  <2>2. Numbered => Entry'.pid = none /\ Entry'.channel = init_channel
    BY <1>4 DEF Entry
  <2> QED
    BY <1>4, <2>1, <2>2 DEF Fresh
<1>10. Inboxes' /\ InStep'
  BY <1>1, <1>2 DEF Inboxes, InStep
<1>11. Sockets'
  <2> SUFFICES ASSUME Good, NEW i \in DOMAIN blocks_data'
               PROVE  Listens(i)' /\ (blocks_data'[i].exists => Connects(i)')
    BY <1>2 DEF Sockets, Good, Live
  <2>1. CASE i = pos
    <3>1. blocks_data'[pos].channel.listenHandle = none
      BY <1>4 DEF init_channel
    <3> QED
      BY <1>4, <2>1, <3>1 DEF Listens
  <2>2. CASE i # pos
    <3>1. i \in Live /\ blocks_data'[i] = blocks_data[i]
      BY <1>4, <2>2
    <3>2. Listens(i) /\ (blocks_data[i].exists => Connects(i))
      BY <1>1, <1>2, <3>1 DEF Sockets
    <3>3. Listens(i)'
      BY <1>2, <3>1, <3>2 DEF Listens
    <3>4. blocks_data'[i].exists => Connects(i)'
      BY <1>2, <3>1, <3>2 DEF Connects, Idle
    <3> QED
      BY <3>3, <3>4
  <2> QED
    BY <2>1, <2>2
<1> QED
  BY <1>3, <1>5, <1>6, <1>7, <1>8, <1>9, <1>10, <1>11 DEF SimInv

-----------------------------------------------------------------------------
(* A call of flag 4 that ends with an error.                               *)
LEMMA InitErrorWorks ==
  ASSUME PlaceInv, at \in {"open", "launch", "poll"}, NEW x \in EntryType, x.id = Entry.id,
         InitError(x), UNCHANGED <<diagram, current, work, erase_blocks>>
  PROVE  /\ PlaceInv' /\ Kept' = Kept /\ Numbered' = Numbered /\ ~Good'
         /\ at' \in {"scicos", "clean"} /\ (phase' = "end" => at' = "scicos")
         /\ blocks_data'[current].pid = x.pid /\ blocks_data'[current].channel = x.channel
         /\ \A i \in DOMAIN blocks_data : i # current => blocks_data'[i] = blocks_data[i]
<1> DEFINE y == [x EXCEPT !.exists = FALSE]
<1>1. y = [id |-> x.id, pid |-> x.pid, channel |-> x.channel, exists |-> FALSE]
  BY EntryFacts, EntryUpdates
<1>2. blocks_data' = [blocks_data EXCEPT ![current] = y]
  BY DEF InitError
<1> HIDE DEF y
<1>3. y \in EntryType /\ y.id = x.id /\ y.pid = x.pid /\ y.channel = x.channel
  <2>1. y.id = x.id /\ y.pid = x.pid /\ y.channel = x.channel
    BY <1>1
  <2>2. y \in EntryType
    BY <1>1, EntryFacts DEF EntryType
  <2> QED
    BY <2>1, <2>2
<1>4. PlaceType /\ phase = "init"
  BY DEF PlaceInv, Places
<1>5. \/ at' = "clean" /\ IsFlex /\ UNCHANGED <<phase, k, failed>>
      \/ NextInit(TRUE)
  BY DEF InitError, IsFlex
<1>6. Working(y)
  BY <1>2, <1>3, <1>5 DEF Working
<1>7. PlaceInv' /\ Kept' = Kept
  BY <1>6, WorkingPlaces
<1>8. /\ SameIds /\ Entry' = y /\ current' = current
      /\ \A i \in DOMAIN blocks_data : i # current => blocks_data'[i] = blocks_data[i]
  BY <1>6, WorkingFacts
<1>9. NextInit(TRUE) => at' = "scicos" /\ failed'
  BY <1>4, NextInitFacts
<1>10. ~Good' /\ at' \in {"scicos", "clean"} /\ (phase' = "end" => at' = "scicos")
  BY <1>4, <1>5, <1>9 DEF Good
<1>11. Numbered' = Numbered
  BY <1>8, SameIdsFacts
<1> QED
  BY <1>3, <1>7, <1>8, <1>10, <1>11 DEF Entry

(* ... leaves the entry with its engine and its descriptors.               *)
LEMMA InitErrorKeeps ==
  ASSUME SimInv, at \in {"open", "launch", "poll"}, NEW x \in EntryType, x.id = Entry.id,
         InitError(x), x.pid = Entry.pid,
         UNCHANGED <<diagram, current, work, erase_blocks, engine, abandoned, asked, reads, got, inbox>>,
         handler_already_registered' \in BOOLEAN,
         handler_already_registered' => handler_already_registered,
         files' \in [Fds -> FileType],
         \A f \in Fds : Numbered /\ files'[f] # Free =>
           \/ x.channel.handle = f \/ x.channel.listenHandle = f
           \/ files[f] # Free /\ Entry.channel.handle # f /\ Entry.channel.listenHandle # f
  PROVE  SimInv'
<1>1. /\ PlaceInv /\ DataType /\ Handled /\ EnginesKept /\ FilesKept /\ Inboxes /\ InStep
  BY DEF SimInv
<1>2. /\ PlaceInv' /\ Kept' = Kept /\ Numbered' = Numbered /\ ~Good'
      /\ at' \in {"scicos", "clean"} /\ (phase' = "end" => at' = "scicos")
      /\ blocks_data'[current].pid = x.pid /\ blocks_data'[current].channel = x.channel
      /\ \A i \in DOMAIN blocks_data : i # current => blocks_data'[i] = blocks_data[i]
  BY <1>1, InitErrorWorks
<1>3. current \in Kept /\ \A i \in Kept : i \in DOMAIN blocks_data
  BY <1>1, CurrentKept, KeptFacts
<1>4. DataType'
  BY <1>1 DEF DataType
<1>5. Handled' /\ EnginesKept'
  <2>1. SameEngines
    BY DEF SameEngines
  <2>2. SamePids
    BY <1>2, <1>3 DEF SamePids, Entry
  <2> QED
    BY <1>1, <1>2, <2>1, <2>2, EnginesStay
<1>6. FilesKept'
  <2> SUFFICES ASSUME Numbered, NEW f \in Fds, files'[f] # Free
               PROVE  \E i \in Kept' : blocks_data'[i].channel.handle = f
                                       \/ blocks_data'[i].channel.listenHandle = f
    BY <1>2 DEF FilesKept
  <2>1. CASE x.channel.handle = f \/ x.channel.listenHandle = f
    BY <1>2, <1>3, <2>1
  <2>2. CASE files[f] # Free /\ Entry.channel.handle # f /\ Entry.channel.listenHandle # f
    <3>1. PICK i \in Kept : blocks_data[i].channel.handle = f
                            \/ blocks_data[i].channel.listenHandle = f
      BY <1>1, <2>2 DEF FilesKept
    <3>2. i # current
      BY <2>2, <3>1 DEF Entry
    <3>3. blocks_data'[i] = blocks_data[i] /\ i \in Kept'
      BY <1>2, <1>3, <3>2
    <3> QED
      BY <3>1, <3>3
  <2> QED
    BY <2>1, <2>2
<1>7. Waiting' /\ Fresh'
  BY <1>2 DEF Waiting, Fresh
<1>8. Sockets' /\ Inboxes' /\ Reading' /\ InStep'
  BY <1>1, <1>2, AnswersStay
<1> QED
  BY <1>2, <1>4, <1>5, <1>6, <1>7, <1>8 DEF SimInv

(* An engine that does not connect in time.                                *)
LEMMA PollFailsKeeps ==
  ASSUME SimInv, PollFails
  PROVE  SimInv'
<1>1. /\ PlaceInv /\ DataType /\ Fresh /\ at = "poll" /\ none \notin Fds
  BY FdsAssumption DEF SimInv, PollFails, none
<1>2. UNCHANGED <<diagram, current, work, erase_blocks, engine, asked, reads, got, inbox, files,
                  abandoned, handler_already_registered>>
  BY DEF PollFails, scicos, update, processes
<1>3. Entry \in EntryType
  BY <1>1, CurrentKept
<1>4. files \in [Fds -> FileType] /\ handler_already_registered \in BOOLEAN
  BY <1>1 DEF DataType
<1>5. CASE InitError(Entry)
  BY <1>1, <1>2, <1>3, <1>4, <1>5, InitErrorKeeps
<1>6. CASE InitError([Entry EXCEPT !.channel = [@ EXCEPT !.handle = none]])
  <2> DEFINE e == Entry
             c == [e.channel EXCEPT !.handle = none]
             x == [e EXCEPT !.channel = c]
  <2>1. e \in EntryType /\ e.channel \in Channels /\ e.id \in Nat /\ e.pid \in Pids \cup {none}
        /\ e.exists \in BOOLEAN /\ e.channel.listenHandle \in Fds \cup {none}
    BY <1>3, EntryFacts
  <2>2. x = [Entry EXCEPT !.channel = [@ EXCEPT !.handle = none]]
    OBVIOUS
  <2> HIDE DEF e
  <2>3. c = [handle |-> none, listenHandle |-> e.channel.listenHandle]
    BY <2>1, ChannelUpdates
  <2> HIDE DEF c
  <2>4. c \in Channels /\ c.handle = none /\ c.listenHandle = e.channel.listenHandle
    BY <2>1, <2>3, ChannelMade
  <2>5. x = [id |-> e.id, pid |-> e.pid, channel |-> c, exists |-> e.exists]
    BY <2>1, <2>4, EntryUpdates
  <2> HIDE DEF x
  <2>6. x \in EntryType /\ x.id = e.id /\ x.pid = e.pid /\ x.channel = c
    BY <2>1, <2>4, <2>5, EntryMade
  <2>7. x.id = Entry.id /\ x.pid = Entry.pid /\ InitError(x)
    BY <1>6, <2>2, <2>6 DEF e
  <2>8. Numbered => Entry.channel.handle = none
    BY <1>1 DEF Fresh
  <2>9. \A f \in Fds : Numbered /\ files'[f] # Free =>
           \/ x.channel.handle = f \/ x.channel.listenHandle = f
           \/ files[f] # Free /\ Entry.channel.handle # f /\ Entry.channel.listenHandle # f
    BY <1>1, <1>2, <2>4, <2>6, <2>8 DEF e
  <2> QED
    BY <1>1, <1>2, <1>4, <2>6, <2>7, <2>9, InitErrorKeeps
<1> QED
  BY <1>5, <1>6 DEF PollFails

(* An engine that is not launched.                                         *)
LEMMA LaunchErrorKeeps ==
  ASSUME SimInv, LaunchProcess, LaunchRefused \/ LaunchFails, InitError(Entry)
  PROVE  SimInv'
<1>1. /\ PlaceInv /\ DataType /\ at = "launch" 
  BY DEF SimInv, LaunchProcess
<1>2. UNCHANGED <<diagram, current, work, erase_blocks, engine, abandoned, asked, reads, got,
                  inbox, files>>
  BY DEF LaunchProcess, scicos, update, LaunchRefused, LaunchFails
<1>3. Entry \in EntryType
  BY <1>1, CurrentKept
<1>4. files \in [Fds -> FileType] /\ handler_already_registered \in BOOLEAN
  BY <1>1 DEF DataType
<1>5. handler_already_registered' \in BOOLEAN /\ (handler_already_registered' => handler_already_registered)
  <2>1. CASE LaunchRefused
    BY <1>4, <2>1, Zenon DEF LaunchRefused
  <2>2. CASE LaunchFails
    BY <2>2 DEF LaunchFails, unregister_handler
  <2> QED
    BY <2>1, <2>2
<1> QED
  BY <1>1, <1>2, <1>3, <1>4, <1>5, InitErrorKeeps

-----------------------------------------------------------------------------
(* The steps of flag 4 that go well.  Two entries that listen do not have  *)
(* one number, so they do not have one descriptor.                         *)
LEMMA ListensAlone ==
  ASSUME PlaceInv, DataType, Sockets, Good, at \in {"open", "launch", "poll"},
         NEW i \in DOMAIN blocks_data, i # current,
         blocks_data[i].channel.listenHandle # none
  PROVE  blocks_data[i].channel.listenHandle # Entry.channel.listenHandle
<1> SUFFICES ASSUME blocks_data[i].channel.listenHandle = Entry.channel.listenHandle
             PROVE  FALSE
  OBVIOUS
<1>1. /\ Owned /\ InPlace /\ Pointed /\ current \in DOMAIN blocks_data /\ ~erase_blocks
  BY DEF PlaceInv, Places
<1>2. Live = DOMAIN blocks_data
  BY <1>1 DEF Live
<1>3. Listens(i) /\ Listens(current)
  BY <1>1, <1>2 DEF Sockets
<1>4. blocks_data[i].id = Entry.id
  <2>1. Listening(blocks_data[i].id) = Listening(Entry.id)
    BY <1>3 DEF Listens, Entry
  <2> QED
    BY <2>1, FileKinds
<1>5. CASE IsFlex
  <2>1. Touched(blocks_data[i])
    BY DEF Touched, init_channel
  <2>2. IsFirst(blocks_data, i)
    BY <1>1, <1>5, <2>1 DEF Owned
  <2>3. IsFirst(blocks_data, current)
    BY <1>5, CurrentKept
  <2>4. i <= current /\ current <= i
    BY <1>1, <1>4, <2>2, <2>3 DEF IsFirst, Entry
  <2>5. i \in Nat /\ current \in Nat
    BY <1>1, Entries DEF PlaceInv, PlaceType
  <2> QED
    BY <2>4, <2>5
<1>6. CASE ~IsFlex
  BY <1>1, <1>4, <1>6 DEF InPlace, Entry
<1> QED
  BY <1>5, <1>6

(* A channel that listens, beside those that listen or are connected.      *)
LEMMA ChannelOpens ==
  ASSUME SimInv, NEW o \in open_channel(files, Entry.channel, Entry.id), o.ok, at = "open",
         at' = "launch", files' = o.files,
         NEW x, x = [id |-> Entry.id, pid |-> Entry.pid, channel |-> o.channel, exists |-> TRUE],
         blocks_data' = [blocks_data EXCEPT ![current] = x],
         UNCHANGED <<diagram, current, work, erase_blocks, phase, k, failed, engine, asked, reads,
                     got, inbox, abandoned, handler_already_registered>>
  PROVE  SimInv'
<1> DEFINE old == Entry.channel.listenHandle
           before == Closed(files, old)
           fd == o.channel.listenHandle
<1>1. /\ PlaceInv /\ DataType /\ Handled /\ EnginesKept /\ FilesKept /\ Inboxes /\ InStep
      /\ Fresh /\ Sockets /\ none \notin Fds
  BY FdsAssumption DEF SimInv, none
<1>2. current \in Kept /\ current \in DOMAIN blocks_data /\ Entry \in EntryType
      /\ (\A i \in Kept : i \in DOMAIN blocks_data /\ blocks_data[i] \in EntryType)
      /\ phase = "init" /\ blocks_data \in Seq(EntryType)
  BY <1>1, CurrentKept, KeptFacts DEF PlaceInv, PlaceType, Places
<1>3. /\ Entry.id \in Nat /\ Entry.pid \in Pids \cup {none} /\ Entry.channel \in Channels
      /\ old \in Fds \cup {none}
  BY <1>2, EntryFacts
<1>4. files \in [Fds -> FileType]
  BY <1>1 DEF DataType
<1>5. /\ files' \in [Fds -> FileType] /\ o.channel \in Channels
      /\ o.channel.handle = Entry.channel.handle
      /\ \/ ~o.ok /\ files' = before /\ fd = none
         \/ /\ fd \in Fds /\ before[fd] = Free
            /\ files'[fd] # Free /\ (o.ok => files'[fd] = Listening(Entry.id))
            /\ \A f \in Fds : f # fd => files'[f] = before[f]
  BY <1>3, <1>4, OpenChannelFacts
<1>6. /\ before \in [Fds -> FileType] /\ (old \in Fds => before[old] = Free)
      /\ \A f \in Fds : f # old => before[f] = files[f]
  BY <1>3, <1>4, ClosedFacts
<1> HIDE DEF before, old, fd
<1>7. /\ fd \in Fds /\ before[fd] = Free /\ files'[fd] = Listening(Entry.id)
      /\ \A f \in Fds : f # fd => files'[f] = before[f]
  BY <1>5
<1>8. x \in EntryType /\ x.id = Entry.id /\ x.pid = Entry.pid /\ x.channel = o.channel
  <2>1. x.id = Entry.id /\ x.pid = Entry.pid /\ x.channel = o.channel
    OBVIOUS
  <2>2. x \in EntryType
    BY <1>3, <1>5 DEF EntryType
  <2> QED
    BY <2>1, <2>2
<1>9. Working(x)
  BY <1>8 DEF Working
<1>10. PlaceInv' /\ Kept' = Kept
  BY <1>1, <1>9, WorkingPlaces
<1>11. /\ SameIds /\ Entry' = x
       /\ \A i \in DOMAIN blocks_data : i # current => blocks_data'[i] = blocks_data[i]
  BY <1>1, <1>9, WorkingFacts
<1>12. blocks_data'[current] = x /\ Numbered' = Numbered
       /\ DOMAIN blocks_data' = DOMAIN blocks_data
  BY <1>11, SameIdsFacts DEF Entry, SameIds
<1>13. DataType'
  BY <1>1, <1>5 DEF DataType
<1>14. Handled' /\ EnginesKept'
  <2>1. SameEngines
    BY DEF SameEngines
  <2>2. SamePids
    BY <1>2, <1>8, <1>10, <1>11, <1>12 DEF SamePids, Entry
  <2> QED
    BY <1>1, <1>12, <2>1, <2>2, EnginesStay
<1>15. Numbered => Entry.pid = none /\ Entry.channel.handle = none /\ old = none
  BY <1>1 DEF Fresh, old
<1>16. FilesKept'
  <2> SUFFICES ASSUME Numbered, NEW f \in Fds, files'[f] # Free
               PROVE  \E i \in Kept' : blocks_data'[i].channel.handle = f
                                       \/ blocks_data'[i].channel.listenHandle = f
    BY <1>12 DEF FilesKept
  <2>1. CASE f = fd
    BY <1>2, <1>8, <1>10, <1>12, <2>1 DEF fd
  <2>2. CASE f # fd
    <3>1. files[f] # Free
      BY <1>1, <1>6, <1>7, <1>15, <2>2
    <3>2. PICK i \in Kept : blocks_data[i].channel.handle = f
                            \/ blocks_data[i].channel.listenHandle = f
      BY <1>1, <3>1 DEF FilesKept
    <3>3. i # current
      BY <1>1, <1>15, <3>2 DEF Entry, old
    <3> QED
      BY <1>2, <1>10, <1>11, <3>2, <3>3
  <2> QED
    BY <2>1, <2>2
<1>17. Waiting' /\ Reading' /\ Inboxes' /\ InStep'
  BY <1>1 DEF Waiting, Reading, Inboxes, InStep
<1>18. Fresh'
  BY <1>5, <1>8, <1>11, <1>12, <1>15 DEF Fresh
<1>19. Sockets'
  <2> SUFFICES ASSUME Good, NEW i \in DOMAIN blocks_data
               PROVE  Listens(i)' /\ (blocks_data'[i].exists /\ i # current => Connects(i)')
    BY <1>2, <1>12 DEF Sockets, Good, Live
  <2>1. CASE i = current
    BY <1>7, <1>8, <1>12, <2>1 DEF Listens, fd
  <2>2. CASE i # current
    <3>1. blocks_data'[i] = blocks_data[i] /\ ~erase_blocks
      BY <1>1, <1>2, <1>11, <2>2 DEF PlaceInv, Places
    <3>2. Listens(i) /\ (blocks_data[i].exists => Connects(i))
      BY <1>1, <2>2, <3>1 DEF Sockets, Live
    <3>3. ASSUME NEW f \in Fds, files[f] # Free, f # old
          PROVE  files'[f] = files[f]
      BY <1>6, <1>7, <3>3
    <3>4. Listens(i)'
      <4>1. CASE blocks_data[i].channel.listenHandle = none
        BY <3>1, <4>1 DEF Listens
      <4>2. CASE blocks_data[i].channel.listenHandle # none
        <5> DEFINE l == blocks_data[i].channel.listenHandle
        <5>1. l # old
          BY <1>1, <2>2, <4>2, ListensAlone DEF old
        <5>2. l \in Fds /\ files[l] = Listening(blocks_data[i].id)
          BY <3>2, <4>2 DEF Listens
        <5>3. files'[l] = files[l]
          <6> HIDE DEF l
          <6> QED
            BY <3>3, <5>1, <5>2, FileKinds
        <5> QED
          BY <3>1, <5>2, <5>3 DEF Listens
      <4> QED
        BY <4>1, <4>2
    <3>5. ASSUME blocks_data'[i].exists PROVE Connects(i)'
      <4> DEFINE h == blocks_data[i].channel.handle
      <4>1. h \in Fds /\ \E p \in Pids : files[h] = Connected(p) /\ Idle(p)
        BY <3>1, <3>2, <3>5 DEF Connects
      <4>2. PICK p \in Pids : files[h] = Connected(p) /\ Idle(p)
        BY <4>1
      <4>3. h # old
        <5>1. Listens(current)
          BY <1>1, <1>2, <3>1 DEF Sockets, Live
        <5>2. old = none \/ files[old] = Listening(Entry.id)
          BY <5>1 DEF Listens, old, Entry
        <5> HIDE DEF h
        <5> QED
          BY <1>1, <4>1, <4>2, <5>2, FileKinds
      <4>4. files'[h] = Connected(p)
        <5> HIDE DEF h
        <5> QED
          BY <3>3, <4>1, <4>2, <4>3, FileKinds
      <4>5. Idle(p)'
        BY <4>2 DEF Idle
      <4> QED
        BY <3>1, <4>1, <4>4, <4>5 DEF Connects
    <3> QED
      BY <3>4, <3>5
  <2> QED
    BY <2>1, <2>2
<1> QED
  BY <1>10, <1>13, <1>14, <1>16, <1>17, <1>18, <1>19 DEF SimInv

(* A channel that is opened, or fails at any of its calls.                 *)
LEMMA OpenChannelKeeps ==
  ASSUME SimInv, OpenChannel
  PROVE  SimInv'
<1>1. /\ PlaceInv /\ DataType /\ Fresh /\ at = "open" /\ none \notin Fds
      /\ UNCHANGED <<diagram, current, work, erase_blocks, engine, asked, reads, got, inbox,
                     abandoned, handler_already_registered>>
  BY FdsAssumption DEF SimInv, OpenChannel, scicos, update, processes, none
<1>2. Entry \in EntryType /\ Entry.id \in Nat /\ Entry.pid \in Pids \cup {none}
      /\ Entry.channel \in Channels /\ Entry.channel.listenHandle \in Fds \cup {none}
      /\ Entry.channel.handle \in Fds \cup {none}
  BY <1>1, CurrentKept, EntryFacts
<1>3. files \in [Fds -> FileType] /\ handler_already_registered' \in BOOLEAN
      /\ (handler_already_registered' => handler_already_registered)
  BY <1>1 DEF DataType
<1>4. Numbered => Entry.channel.handle = none /\ Entry.channel.listenHandle = none
  BY <1>1 DEF Fresh
<1>5. CASE InitError(Entry) /\ UNCHANGED files
  <2>1. \A f \in Fds : Numbered /\ files'[f] # Free =>
           \/ Entry.channel.handle = f \/ Entry.channel.listenHandle = f
           \/ files[f] # Free /\ Entry.channel.handle # f /\ Entry.channel.listenHandle # f
    BY <1>5
  <2> QED
    BY <1>1, <1>2, <1>3, <1>5, <2>1, InitErrorKeeps
<1>6. ASSUME NEW o \in open_channel(files, Entry.channel, Entry.id), files' = o.files,
             NEW x, x = [id |-> Entry.id, pid |-> Entry.pid, channel |-> o.channel,
                         exists |-> TRUE],
             ~o.ok, InitError(x)
      PROVE  SimInv'
  <2> DEFINE before == Closed(files, Entry.channel.listenHandle)
             fd == o.channel.listenHandle
  <2>1. /\ files' \in [Fds -> FileType] /\ o.channel \in Channels
        /\ \/ files' = before /\ fd = none
           \/ fd \in Fds /\ \A f \in Fds : f # fd => files'[f] = before[f]
    BY <1>2, <1>3, <1>6, OpenChannelFacts
  <2>2. \A f \in Fds : f # Entry.channel.listenHandle => before[f] = files[f]
    BY <1>2, <1>3, ClosedFacts
  <2> HIDE DEF before
  <2>3. x \in EntryType /\ x.id = Entry.id /\ x.pid = Entry.pid /\ x.channel = o.channel
    <3>1. x.id = Entry.id /\ x.pid = Entry.pid /\ x.channel = o.channel
      BY <1>6
    <3>2. x \in EntryType
      BY <1>2, <1>6, <2>1 DEF EntryType
    <3> QED
      BY <3>1, <3>2
  <2>4. \A f \in Fds : Numbered /\ files'[f] # Free =>
           \/ x.channel.handle = f \/ x.channel.listenHandle = f
           \/ files[f] # Free /\ Entry.channel.handle # f /\ Entry.channel.listenHandle # f
    <3> SUFFICES ASSUME NEW f \in Fds, Numbered, files'[f] # Free, f # fd
                 PROVE  files[f] # Free /\ Entry.channel.handle # f
                        /\ Entry.channel.listenHandle # f
      BY <2>3
    <3>1. files'[f] = before[f]
      BY <2>1
    <3> HIDE DEF fd
    <3> QED
      BY <1>1, <1>4, <2>2, <3>1
  <2> QED
    BY <1>1, <1>3, <1>6, <2>1, <2>3, <2>4, InitErrorKeeps
<1>7. ASSUME NEW o \in open_channel(files, Entry.channel, Entry.id), files' = o.files,
             NEW x, x = [id |-> Entry.id, pid |-> Entry.pid, channel |-> o.channel,
                         exists |-> TRUE],
             o.ok, at' = "launch", blocks_data' = [blocks_data EXCEPT ![current] = x],
             UNCHANGED <<phase, k, failed>>
      PROVE  SimInv'
  BY <1>1, <1>7, ChannelOpens
<1> QED
  BY <1>5, <1>6, <1>7, Zenon DEF OpenChannel

(* An engine that is launched belongs to the current entry.                *)
LEMMA LaunchProcessKeeps ==
  ASSUME SimInv, LaunchProcess
  PROVE  SimInv'
<1>1. CASE (LaunchRefused \/ LaunchFails) /\ InitError(Entry)
  BY <1>1, LaunchErrorKeeps
<1>2. CASE /\ Launch /\ at' = "poll" /\ blocks_data' = [blocks_data EXCEPT ![current].pid = NewPid]
           /\ UNCHANGED <<phase, k, failed>>
  <2> DEFINE e == Entry
             p == NewPid
             x == [e EXCEPT !.pid = p]
  <2>1. /\ PlaceInv /\ DataType /\ Handled /\ EnginesKept /\ FilesKept /\ Inboxes /\ InStep
        /\ Fresh /\ Sockets /\ at = "launch" /\ none \notin Pids
        /\ UNCHANGED <<diagram, current, work, erase_blocks, asked, reads, got, inbox, files,
                       abandoned>>
    BY PidsAssumption DEF SimInv, LaunchProcess, scicos, update, none
  <2>2. current \in Kept /\ current \in DOMAIN blocks_data /\ Entry \in EntryType
        /\ (\A i \in Kept : i \in DOMAIN blocks_data /\ blocks_data[i] \in EntryType)
        /\ phase = "init" /\ blocks_data \in Seq(EntryType)
    BY <2>1, CurrentKept, KeptFacts DEF PlaceInv, PlaceType, Places
  <2>3. p \in Pids /\ engine[p] = "unused" /\ engine' = [engine EXCEPT ![p] = "starting"]
        /\ handler_already_registered' = TRUE
    BY <1>2, NewPidIsUnused DEF Launch, register_handler
  <2>4. blocks_data' = [blocks_data EXCEPT ![current] = x]
    BY <1>2, <2>2 DEF Entry
  <2> HIDE DEF p
  <2>5. e.id \in Nat /\ e.channel \in Channels /\ e.exists \in BOOLEAN
    BY <2>2, EntryFacts
  <2>6. x = [id |-> e.id, pid |-> p, channel |-> e.channel, exists |-> e.exists]
    BY <2>2, <2>3, <2>5, EntryUpdates
  <2> HIDE DEF x
  <2>7. x \in EntryType /\ x.id = Entry.id /\ x.pid = p /\ x.channel = Entry.channel
        /\ x.exists = Entry.exists
    <3> HIDE DEF e
    <3>1. x \in EntryType /\ x.id = e.id /\ x.pid = p /\ x.channel = e.channel
          /\ x.exists = e.exists
      BY <2>3, <2>5, <2>6, EntryMade
    <3> QED
      BY <3>1 DEF e
  <2>8. Working(x)
    BY <1>2, <2>1, <2>4, <2>7 DEF Working
  <2>9. PlaceInv' /\ Kept' = Kept
    BY <2>1, <2>8, WorkingPlaces
  <2>10. /\ SameIds /\ Entry' = x
         /\ \A i \in DOMAIN blocks_data : i # current => blocks_data'[i] = blocks_data[i]
    BY <2>1, <2>8, WorkingFacts
  <2>11. blocks_data'[current] = x /\ Numbered' = Numbered
         /\ DOMAIN blocks_data' = DOMAIN blocks_data
    BY <2>1, <2>10, SameIdsFacts DEF Entry, SameIds
  <2>12. engine \in [Pids -> {"unused", "starting", "connecting", "connected", "dead", "reaped"}]
    BY <2>1 DEF DataType
  <2>13. engine'[p] = "starting" /\ \A q \in Pids : q # p => engine'[q] = engine[q]
    BY <2>3, <2>12
  <2>14. DataType'
    <3>1. engine' \in [Pids -> {"unused", "starting", "connecting", "connected", "dead", "reaped"}]
      BY <2>3, <2>12
    <3>2. handler_already_registered' \in BOOLEAN
      BY <2>3
    <3> QED
      BY <2>1, <3>1, <3>2 DEF DataType
  <2>15. Handled'
    BY <2>2, <2>3, <2>7, <2>9, <2>11, <2>13 DEF Handled
  <2>16. Numbered => Entry.pid = none /\ Entry.channel.handle = none
    BY <2>1 DEF Fresh
  <2>17. EnginesKept'
    <3> SUFFICES ASSUME Numbered, NEW q \in Pids, engine'[q] \notin {"unused", "reaped"},
                        q \notin abandoned
                 PROVE  \E i \in Kept' : blocks_data'[i].pid = q
      BY <2>1, <2>11 DEF EnginesKept
    <3>1. CASE q = p
      BY <2>2, <2>7, <2>9, <2>11, <3>1
    <3>2. CASE q # p
      <4>1. PICK i \in Kept : blocks_data[i].pid = q
        BY <2>1, <2>13, <3>2 DEF EnginesKept
      <4>2. i # current
        BY <2>1, <2>16, <4>1 DEF Entry
      <4> QED
        BY <2>2, <2>9, <2>10, <4>1, <4>2
    <3> QED
      BY <3>1, <3>2
  <2>18. FilesKept'
    <3>1. NoNewFiles
      BY <2>1 DEF NoNewFiles
    <3>2. SameChannels
      BY <2>2, <2>7, <2>9, <2>10, <2>11 DEF SameChannels, Entry
    <3> QED
      BY <1>2, <2>1, <2>11, <3>1, <3>2, FilesStay
  <2>19. Waiting' /\ Reading'
    BY <1>2 DEF Waiting, Reading
  <2>20. InStep' /\ Fresh'
    BY <1>2, <2>1, <2>7, <2>10, <2>11, <2>16 DEF InStep, Fresh
  <2>21. Inboxes'
    BY <2>1, <2>3, <2>13 DEF Inboxes
  <2>22. Sockets'
    <3> SUFFICES ASSUME Good, NEW i \in DOMAIN blocks_data
                 PROVE  Listens(i)' /\ (blocks_data'[i].exists /\ i # current => Connects(i)')
      BY <1>2, <2>1, <2>2, <2>11 DEF Sockets, Good, Live
    <3>1. ~erase_blocks
      BY <2>1, <2>2 DEF PlaceInv, Places
    <3>2. Listens(i) /\ (blocks_data[i].exists /\ i # current => Connects(i))
      BY <2>1, <3>1 DEF Sockets, Live
    <3>3. blocks_data'[i].id = blocks_data[i].id
          /\ blocks_data'[i].channel = blocks_data[i].channel
      BY <2>7, <2>10, <2>11 DEF Entry
    <3>4. Listens(i)'
      BY <2>1, <3>2, <3>3 DEF Listens
    <3>5. ASSUME blocks_data'[i].exists, i # current PROVE Connects(i)'
      <4>1. Connects(i)
        BY <2>10, <3>2, <3>5
      <4> QED
        BY <1>2, <2>1, <3>3, <4>1 DEF Connects, Idle
    <3> QED
      BY <3>4, <3>5
  <2> QED
    BY <2>9, <2>14, <2>15, <2>17, <2>18, <2>19, <2>20, <2>21, <2>22 DEF SimInv
<1> QED
  BY <1>1, <1>2, Zenon DEF LaunchProcess

(* An engine that connects has sent nothing yet.                           *)
LEMMA PollConnectsKeeps ==
  ASSUME SimInv, PollConnects
  PROVE  SimInv'
<1> DEFINE e == Entry
           fd == NewFd(files)
           c == [e.channel EXCEPT !.handle = fd]
           x == [e EXCEPT !.channel = c]
<1>1. /\ PlaceInv /\ DataType /\ Handled /\ EnginesKept /\ FilesKept /\ Inboxes /\ InStep
      /\ Fresh /\ Sockets /\ at = "poll" /\ none \notin Fds
      /\ UNCHANGED <<diagram, current, work, erase_blocks, asked, reads, got, inbox,
                     abandoned, handler_already_registered>>
  BY FdsAssumption DEF SimInv, PollConnects, scicos, update, none
<1>2. current \in Kept /\ current \in DOMAIN blocks_data /\ Entry \in EntryType
      /\ (\A i \in Kept : i \in DOMAIN blocks_data /\ blocks_data[i] \in EntryType)
      /\ phase = "init" /\ blocks_data \in Seq(EntryType) /\ PlaceType /\ ~erase_blocks
  BY <1>1, CurrentKept, KeptFacts DEF PlaceInv, PlaceType, Places
<1>3. PICK p \in Pids :
        /\ engine[p] = "connecting" /\ engine' = [engine EXCEPT ![p] = "connected"]
        /\ files' = Accept(Entry.channel, p).files
        /\ blocks_data' = [blocks_data EXCEPT ![current].channel = Accept(Entry.channel, p).channel]
  BY DEF PollConnects
<1>4. NextInit(FALSE) /\ HasFree(files)
  BY DEF PollConnects
<1>5. Accept(Entry.channel, p).files = [files EXCEPT ![fd] = Connected(p)]
      /\ Accept(Entry.channel, p).channel = c
  BY DEF Accept
<1>6. fd \in Fds /\ files[fd] = Free
  BY <1>4, NewFdIsFree
<1>7. blocks_data' = [blocks_data EXCEPT ![current] = x] /\ files' = [files EXCEPT ![fd] = Connected(p)]
  BY <1>2, <1>3, <1>5 DEF Entry
<1>8. files \in [Fds -> FileType] /\ Connected(p) \in FileType
      /\ engine \in [Pids -> {"unused", "starting", "connecting", "connected", "dead", "reaped"}]
  BY <1>1 DEF DataType, FileType
<1> HIDE DEF fd, e
<1>9. files'[fd] = Connected(p) /\ \A f \in Fds : f # fd => files'[f] = files[f]
  BY <1>6, <1>7, <1>8
<1>10. e \in EntryType /\ e.id \in Nat /\ e.pid \in Pids \cup {none} /\ e.channel \in Channels
       /\ e.exists \in BOOLEAN /\ e.channel.listenHandle \in Fds \cup {none}
  BY <1>2, EntryFacts DEF e
<1>11. c = [handle |-> fd, listenHandle |-> e.channel.listenHandle]
  BY <1>6, <1>10, ChannelUpdates
<1> HIDE DEF c
<1>12. c \in Channels /\ c.handle = fd /\ c.listenHandle = e.channel.listenHandle
  BY <1>6, <1>10, <1>11, ChannelMade
<1>13. x = [id |-> e.id, pid |-> e.pid, channel |-> c, exists |-> e.exists]
  BY <1>10, <1>12, EntryUpdates
<1> HIDE DEF x
<1>14. x \in EntryType /\ x.id = Entry.id /\ x.pid = Entry.pid /\ x.channel = c
       /\ c.listenHandle = Entry.channel.listenHandle
  <2>1. x \in EntryType /\ x.id = e.id /\ x.pid = e.pid /\ x.channel = c
    BY <1>10, <1>12, <1>13, EntryMade
  <2> QED
    BY <1>12, <2>1 DEF e
<1>15. Working(x)
  <2>1. \E w \in BOOLEAN : NextInit(w)
    BY <1>4
  <2> QED
    BY <1>1, <1>7, <1>14, <2>1 DEF Working
<1>16. PlaceInv' /\ Kept' = Kept
  BY <1>1, <1>15, WorkingPlaces
<1>17. /\ SameIds /\ Entry' = x
       /\ \A i \in DOMAIN blocks_data : i # current => blocks_data'[i] = blocks_data[i]
  BY <1>1, <1>15, WorkingFacts
<1>18. blocks_data'[current] = x /\ Numbered' = Numbered
       /\ DOMAIN blocks_data' = DOMAIN blocks_data
  BY <1>1, <1>17, SameIdsFacts DEF Entry, SameIds
<1>19. at' = "scicos" /\ (~failed' => ~failed)
  BY <1>2, <1>4, NextInitFacts
<1>20. engine'[p] = "connected" /\ \A q \in Pids : q # p => engine'[q] = engine[q]
  BY <1>3, <1>8
<1>21. DataType'
  <2>1. engine' \in [Pids -> {"unused", "starting", "connecting", "connected", "dead", "reaped"}]
    BY <1>3, <1>8
  <2>2. files' \in [Fds -> FileType]
    BY <1>6, <1>7, <1>8
  <2> QED
    BY <1>1, <2>1, <2>2 DEF DataType
<1>22. Handled' /\ EnginesKept'
  <2>1. SameEngines
    <3>1. /\ engine[p] \notin {"reaped", "unused"} /\ engine'[p] \notin {"reaped", "unused"}
          /\ \A q \in Pids : q # p => engine'[q] = engine[q]
      BY <1>3, <1>20
    <3> QED
      BY <1>1, <3>1, Zenon DEF SameEngines
  <2>2. SamePids
    BY <1>2, <1>14, <1>16, <1>17, <1>18 DEF SamePids, Entry
  <2> QED
    BY <1>1, <1>18, <2>1, <2>2, EnginesStay
<1>23. FilesKept'
  <2> SUFFICES ASSUME Numbered, NEW f \in Fds, files'[f] # Free
               PROVE  \E i \in Kept' : blocks_data'[i].channel.handle = f
                                       \/ blocks_data'[i].channel.listenHandle = f
    BY <1>18, <1>19 DEF FilesKept
  <2>1. CASE f = fd
    BY <1>2, <1>12, <1>14, <1>16, <1>18, <2>1
  <2>2. CASE f # fd
    <3>1. PICK i \in Kept : blocks_data[i].channel.handle = f
                            \/ blocks_data[i].channel.listenHandle = f
      BY <1>1, <1>9, <2>2 DEF FilesKept
    <3>2. Entry.channel.handle # f
      BY <1>1 DEF Fresh
    <3>3. CASE i = current
      BY <1>14, <1>16, <1>18, <3>1, <3>2, <3>3 DEF Entry
    <3>4. CASE i # current
      BY <1>2, <1>16, <1>17, <3>1, <3>4
    <3> QED
      BY <3>3, <3>4
  <2> QED
    BY <2>1, <2>2
<1>24. Waiting' /\ Reading' /\ Fresh'
  BY <1>19 DEF Waiting, Reading, Fresh
<1>25. InStep' /\ Inboxes'
  <2>1. InStep'
    BY <1>1 DEF InStep
  <2>2. Inboxes'
    BY <1>1, <1>20 DEF Inboxes
  <2> QED
    BY <2>1, <2>2
<1>26. Sockets'
  <2> SUFFICES ASSUME Good, NEW i \in DOMAIN blocks_data
               PROVE  Listens(i)' /\ (blocks_data'[i].exists => Connects(i)')
    BY <1>1, <1>2, <1>18, <1>19 DEF Sockets, Good, Live
  <2>1. Listens(i) /\ (blocks_data[i].exists /\ i # current => Connects(i))
    BY <1>1, <1>2 DEF Sockets, Live
  <2>2. ASSUME NEW f \in Fds, files[f] # Free PROVE files'[f] = files[f]
    BY <1>6, <1>9, <2>2
  <2>3. blocks_data'[i].id = blocks_data[i].id
        /\ blocks_data'[i].channel.listenHandle = blocks_data[i].channel.listenHandle
    BY <1>14, <1>17, <1>18 DEF Entry
  <2>4. Listens(i)'
    <3> DEFINE l == blocks_data[i].channel.listenHandle
    <3>1. l = none \/ (l \in Fds /\ files[l] = Listening(blocks_data[i].id))
      BY <2>1 DEF Listens
    <3>2. l = none \/ (l \in Fds /\ files'[l] = Listening(blocks_data[i].id))
      <4> HIDE DEF l
      <4> QED
        BY <2>2, <3>1, FileKinds
    <3> QED
      BY <2>3, <3>2 DEF Listens
  <2>5. CASE i = current
    <3>1. inbox[p] = <<>>
      BY <1>1, <1>3 DEF Inboxes
    <3>2. Idle(p)'
      BY <1>1, <3>1 DEF Idle
    <3>3. blocks_data'[i].channel.handle = fd
      BY <1>12, <1>14, <1>18, <2>5
    <3>4. Connects(i)'
      BY <1>6, <1>9, <3>2, <3>3 DEF Connects
    <3> QED
      BY <2>4, <3>4
  <2>6. CASE i # current
    <3> SUFFICES ASSUME blocks_data'[i].exists PROVE Connects(i)'
      BY <2>4
    <3> DEFINE h == blocks_data[i].channel.handle
    <3>1. Connects(i) /\ blocks_data'[i] = blocks_data[i]
      BY <1>17, <2>1, <2>6
    <3>2. PICK q \in Pids : h \in Fds /\ files[h] = Connected(q) /\ Idle(q)
      BY <3>1 DEF Connects
    <3>3. files'[h] = Connected(q)
      <4> HIDE DEF h
      <4> QED
        BY <2>2, <3>2, FileKinds
    <3>4. Idle(q)'
      BY <1>1, <1>19, <3>2 DEF Idle
    <3> QED
      BY <3>1, <3>2, <3>3, <3>4 DEF Connects
  <2> QED
    BY <2>5, <2>6
<1> QED
  BY <1>16, <1>21, <1>22, <1>23, <1>24, <1>25, <1>26 DEF SimInv

-----------------------------------------------------------------------------
(* Reads of an answer.                                                     *)
LEMMA SumIsNat ==
  ASSUME NEW s \in Seq(Nat)
  PROVE  SumOf(s) \in Nat
<1>1. Len(s) \in Nat
  BY LenProperties
<1> QED
  BY <1>1, SumUnfolds

(* What is left to read after n bytes more.                                *)
LEMMA ReadsShrink ==
  ASSUME NEW s \in Seq(Nat \ {0}), s # <<>>, NEW n \in 1 .. Head(s),
         NEW u, u = IF n = Head(s) THEN Tail(s) ELSE <<Head(s) - n>> \o Tail(s)
  PROVE  u \in Seq(Nat \ {0}) /\ SumOf(u) = SumOf(s) - n /\ n \in Nat \ {0}
<1> DEFINE m == Len(s)
           t == Tail(s)
           h == Head(s)
           rest == <<h - n>> \o t
<1>1. s \in Seq(Nat)
  <2>1. Seq(Nat \ {0}) \subseteq Seq(Nat)
    OBVIOUS
  <2> QED
    BY <2>1
<1>2. /\ m \in Nat \ {0} /\ h = s[1] /\ h \in Nat \ {0} /\ n \in Nat \ {0} /\ n <= h
      /\ t \in Seq(Nat \ {0}) /\ Len(t) = m - 1 /\ \A i \in 1 .. m - 1 : t[i] = s[i + 1]
  BY LenProperties, ElementOfSeq, HeadTailProperties, EmptySeq
<1>3. CASE n = h
  <2>1. u = t
    BY <1>3
  <2>2. SumOf(t) = SumOf(s) - h
    BY <1>1, SumOfTail
  <2> QED
    BY <1>2, <1>3, <2>1, <2>2
<1>4. CASE n # h
  <2>1. u = rest
    BY <1>4
  <2> HIDE DEF t, h
  <2>2. h - n \in Nat \ {0}
    BY <1>2, <1>4
  <2>3. <<h - n>> \in Seq(Nat \ {0}) /\ Len(<<h - n>>) = 1 /\ <<h - n>>[1] = h - n
    BY <2>2
  <2> HIDE DEF m
  <2>4. rest \in Seq(Nat \ {0}) /\ Len(rest) = m
    BY <1>2, <2>3, ConcatProperties
  <2>5. rest[1] = h - n
    BY <1>2, <2>3, ConcatProperties
  <2>6. \A i \in 2 .. m : rest[i] = s[i]
    <3> SUFFICES ASSUME NEW i \in 2 .. m PROVE rest[i] = s[i]
      OBVIOUS
    <3>1. i - 1 \in 1 .. m - 1 /\ (i - 1) + 1 = i /\ i \in 1 .. 1 + (m - 1) /\ ~(i <= 1)
      BY <1>2
    <3>2. rest[i] = t[i - 1]
      BY <1>2, <2>3, <3>1, ConcatProperties
    <3> QED
      BY <1>2, <3>1, <3>2
  <2>7. rest \in Seq(Nat)
    <3>1. Seq(Nat \ {0}) \subseteq Seq(Nat)
      OBVIOUS
    <3> QED
      BY <2>4, <3>1
  <2> HIDE DEF rest
  <2>8. SumOf(rest) = SumOf(s) - n
    <3>1. Len(s) >= 1 /\ Len(rest) = Len(s) /\ rest[1] = s[1] - n
          /\ \A i \in 2 .. Len(s) : rest[i] = s[i]
      BY <1>2, <2>4, <2>5, <2>6 DEF m
    <3>2. n \in Nat
      BY <1>2
    <3> QED
      BY <1>1, <2>7, <3>1, <3>2, SumOfShorter
  <2> QED
    BY <1>2, <2>1, <2>4, <2>8
<1> QED
  BY <1>3, <1>4

AllAre(s, v) == \A i \in DOMAIN s : s[i] = v

(* What recv takes of an answer, and what it leaves.                       *)
LEMMA AnswerSplit ==
  ASSUME NEW s \in Seq(Nat), NEW g \in Seq(Nat), NEW v \in Nat, NEW n \in 1 .. Len(s),
         AllAre(s, v), AllAre(g, v)
  PROVE  /\ g \o SubSeq(s, 1, n) \in Seq(Nat) /\ AllAre(g \o SubSeq(s, 1, n), v)
         /\ SubSeq(s, n + 1, Len(s)) \in Seq(Nat) /\ Len(SubSeq(s, n + 1, Len(s))) = Len(s) - n
         /\ AllAre(SubSeq(s, n + 1, Len(s)), v)
<1> DEFINE m == Len(s)
           taken == SubSeq(s, 1, n)
           left == SubSeq(s, n + 1, Len(s))
           all == g \o taken
           a == Len(g)
<1>0. (\A i \in DOMAIN s : s[i] = v) /\ (\A i \in DOMAIN g : g[i] = v)
  BY DEF AllAre
<1>1. m \in Nat /\ DOMAIN s = 1 .. m /\ a \in Nat /\ DOMAIN g = 1 .. a /\ n \in 0 .. m /\ n \in 1 .. m
  BY LenProperties
<1>2. taken \in Seq(Nat) /\ Len(taken) = n /\ \A i \in 1 .. n : taken[i] = s[i]
  BY <1>1, PrefixProperties
<1>3. left \in Seq(Nat) /\ Len(left) = m - n /\ \A i \in 1 .. m - n : left[i] = s[i + n]
  <2> DEFINE b == n + 1
  <2>1. b \in 1 .. Len(s) + 1 /\ b - 1 = n /\ Len(s) - b + 1 = m - n
    BY <1>1
  <2> HIDE DEF b
  <2>2. SubSeq(s, b, Len(s)) \in Seq(Nat) /\ Len(SubSeq(s, b, Len(s))) = m - n
        /\ \A i \in 1 .. m - n : SubSeq(s, b, Len(s))[i] = s[i + n]
    BY <2>1, Lemmas!SuffixProperties
  <2> QED
    BY <2>2 DEF b
<1> HIDE DEF m, taken, left, a
<1>4. DOMAIN taken = 1 .. n /\ DOMAIN left = 1 .. m - n
  BY <1>2, <1>3, LenProperties
<1>5. \A i \in 1 .. n : taken[i] = v
  <2>1. \A i \in 1 .. n : i \in DOMAIN s
    BY <1>1
  <2> QED
    BY <1>0, <1>2, <2>1
<1>6. \A i \in DOMAIN left : left[i] = v
  <2>1. \A i \in 1 .. m - n : i + n \in 1 .. m
    BY <1>1
  <2> QED
    BY <1>0, <1>1, <1>3, <1>4, <2>1
<1>7. all \in Seq(Nat) /\ Len(all) = a + n /\ DOMAIN all = 1 .. a + n
  <2>1. all \in Seq(Nat) /\ Len(all) = a + n
    BY <1>2, ConcatProperties DEF a
  <2> HIDE DEF all
  <2> QED
    BY <2>1, LenProperties
<1>8. \A i \in 1 .. a + n : all[i] = v
  <2> SUFFICES ASSUME NEW i \in 1 .. a + n PROVE all[i] = v
    OBVIOUS
  <2>1. all[i] = IF i <= a THEN g[i] ELSE taken[i - a]
    BY <1>2, ConcatProperties DEF a
  <2> HIDE DEF all
  <2>2. CASE i <= a
    <3>1. i \in DOMAIN g
      BY <1>1, <2>2
    <3>2. g[i] = v
      BY <1>0, <3>1
    <3> QED
      BY <2>1, <2>2, <3>2
  <2>3. CASE ~(i <= a)
    <3>1. i - a \in 1 .. n
      BY <1>1, <2>3
    <3> QED
      BY <1>5, <2>1, <2>3, <3>1
  <2> QED
    BY <2>2, <2>3
<1>9. all \in Seq(Nat) /\ \A i \in DOMAIN all : all[i] = v
  <2> HIDE DEF all
  <2> QED
    BY <1>7, <1>8
<1>10. left \in Seq(Nat) /\ Len(left) = m - n /\ \A i \in DOMAIN left : left[i] = v
  BY <1>3, <1>6
<1> QED
  BY <1>9, <1>10 DEF left, taken, m, AllAre

-----------------------------------------------------------------------------
(* Flag 1.                                                                 *)
LEMMA UpdatingKeeps ==
  ASSUME SimInv, Updating, UNCHANGED <<engine, files, abandoned, handler_already_registered>>
  PROVE  PlaceInv' /\ Waiting' /\ Handled' /\ Fresh' /\ EnginesKept' /\ FilesKept'
<1>1. PlaceInv /\ Handled /\ EnginesKept /\ FilesKept
  BY DEF SimInv
<1>2. PlaceInv' /\ Kept' = Kept
  BY <1>1, UpdatingPlaces
<1>3. /\ SameIds /\ at' \in {"scicos", "recv"}
      /\ \A i \in DOMAIN blocks_data :
           /\ blocks_data'[i].pid = blocks_data[i].pid
           /\ blocks_data'[i].channel = blocks_data[i].channel
  BY <1>1, UpdatingFacts
<1>4. Numbered' = Numbered /\ \A i \in Kept : i \in DOMAIN blocks_data
  BY <1>1, <1>3, SameIdsFacts, KeptFacts
<1>5. SameEngines /\ SamePids /\ SameChannels /\ NoNewFiles
  BY <1>2, <1>3, <1>4 DEF SameEngines, SamePids, SameChannels, NoNewFiles
<1>6. Handled' /\ EnginesKept' /\ FilesKept'
  BY <1>1, <1>3, <1>4, <1>5, EnginesStay, FilesStay
<1>7. Waiting' /\ Fresh'
  BY <1>3 DEF Waiting, Fresh
<1> QED
  BY <1>2, <1>6, <1>7

(* An update without an entry or without an engine.                        *)
LEMMA SkipUpdateKeeps ==
  ASSUME SimInv, SkipUpdate
  PROVE  SimInv'
<1>1. /\ PlaceInv /\ DataType /\ Inboxes /\ InStep /\ Sockets /\ phase = "run" /\ at = "scicos"
      /\ PlaceType
      /\ UNCHANGED <<diagram, blocks_data, work, erase_blocks, asked, reads, got, inbox, files,
                     engine, abandoned, handler_already_registered>>
  BY DEF SimInv, PlaceInv, SkipUpdate, Calling, scicos, update, processes
<1>2. \/ at' = "scicos" /\ Go("end") /\ UNCHANGED failed
      \/ NextUpdate
  BY <1>1 DEF SkipUpdate
<1>3. Updating
  BY <1>1, <1>2 DEF Updating
<1>4. PlaceInv' /\ Waiting' /\ Handled' /\ Fresh' /\ EnginesKept' /\ FilesKept'
  BY <1>1, <1>3, UpdatingKeeps
<1>5. DataType' /\ Inboxes' /\ InStep'
  BY <1>1 DEF DataType, Inboxes, InStep
<1>6. at' = "scicos" /\ ~failed
  <2>1. NextUpdate => at' = "scicos"
    BY <1>1, NextUpdateFacts
  <2>2. ~failed
    BY <1>1, <1>3, UpdatingFacts
  <2> QED
    BY <1>2, <2>1, <2>2
<1>7. Sockets'
  <2>1. Live' = Live /\ Good
    BY <1>1, <1>6 DEF Live, Good
  <2> QED
    BY <1>1, <2>1, SocketsStay
<1>8. Reading'
  BY <1>6 DEF Reading
<1> QED
  BY <1>4, <1>5, <1>7, <1>8 DEF SimInv

(* An error at flag 1.                                                     *)
LEMMA ErrorKeeps ==
  ASSUME SimInv, phase = "run", NEW e \in DOMAIN blocks_data, Error(e),
         UNCHANGED <<diagram, work, erase_blocks, asked, reads, got, inbox, files, engine,
                     abandoned, handler_already_registered>>
  PROVE  SimInv'
<1>1. /\ PlaceInv /\ DataType /\ Inboxes /\ InStep
      /\ at' = "scicos" /\ Go("end") /\ UNCHANGED failed
      /\ blocks_data' = [blocks_data EXCEPT ![e].exists = FALSE]
  BY DEF SimInv, Error
<1>2. Updating
  BY <1>1 DEF Updating
<1>3. PlaceInv' /\ Waiting' /\ Handled' /\ Fresh' /\ EnginesKept' /\ FilesKept'
  BY <1>2, UpdatingKeeps
<1>4. DataType'
  BY <1>1 DEF DataType
<1>5. ~Good'
  BY <1>1 DEF Good, Go
<1>6. Sockets' /\ Inboxes' /\ Reading' /\ InStep'
  BY <1>1, <1>5, AnswersStay
<1> QED
  BY <1>3, <1>4, <1>6 DEF SimInv

(* A read that is interrupted, or that the engine's end cuts.              *)
LEMMA RecvFailsKeeps ==
  ASSUME SimInv, RecvFails
  PROVE  SimInv'
<1>1. /\ at = "recv" /\ Error(current)
      /\ UNCHANGED <<diagram, work, erase_blocks, asked, reads, got, inbox, files, engine,
                     abandoned, handler_already_registered>>
  BY DEF RecvFails, scicos, update, processes
<1>2. phase = "run" /\ current \in DOMAIN blocks_data
  BY <1>1 DEF SimInv, PlaceInv, Places
<1> QED
  BY <1>1, <1>2, ErrorKeeps

(* A request finds the socket empty, so that its answer is all it holds.   *)
LEMMA RequestKeeps ==
  ASSUME SimInv, Request
  PROVE  SimInv'
<1> DEFINE e == EntryOf(k)
           p == Peer(blocks_data[e])
           r == diagram.reads[k]
<1>1. /\ PlaceInv /\ DataType /\ Inboxes /\ InStep /\ Sockets /\ phase = "run" /\ at = "scicos"
      /\ PlaceType /\ ~failed /\ ~erase_blocks /\ diagram \in Diagrams /\ k \in DOMAIN diagram.ids
      /\ UNCHANGED <<diagram, work, erase_blocks, files, engine, abandoned, handler_already_registered>>
  BY DEF SimInv, PlaceInv, PlaceType, Places, Request, Calling, scicos, processes
<1>2. /\ e # none /\ blocks_data[e].exists /\ current' = e
      /\ IF engine[p] # "connected"
         THEN Error(e) /\ UNCHANGED <<asked, reads, got, inbox>>
         ELSE /\ asked' = asked + 1
              /\ inbox' = [inbox EXCEPT ![p] = @ \o [i \in 1 .. SumOf(r) |-> asked']]
              /\ reads' = r /\ got' = <<>>
              /\ UNCHANGED blocks_data
              /\ IF r = <<>> THEN NextUpdate
                 ELSE at' = "recv" /\ UNCHANGED <<phase, k, failed>>
  BY DEF Request, Reads, update
<1>3. e \in DOMAIN blocks_data /\ r \in Seq(Nat \ {0})
  BY <1>1, <1>2, EntryOfFacts, DiagramFacts
<1>4. CASE engine[p] # "connected"
  BY <1>1, <1>2, <1>3, <1>4, ErrorKeeps
<1>5. CASE engine[p] = "connected"
  <2>1. /\ asked' = asked + 1 /\ reads' = r /\ got' = <<>> /\ UNCHANGED blocks_data
        /\ inbox' = [inbox EXCEPT ![p] = @ \o [i \in 1 .. SumOf(r) |-> asked']]
        /\ IF r = <<>> THEN NextUpdate
           ELSE at' = "recv" /\ UNCHANGED <<phase, k, failed>>
    BY <1>2, <1>5
  <2>2. Good /\ Live = DOMAIN blocks_data
    BY <1>1 DEF Good, Live
  <2>3. PICK q \in Pids : /\ blocks_data[e].channel.handle \in Fds
                          /\ files[blocks_data[e].channel.handle] = Connected(q) /\ Idle(q)
    BY <1>1, <1>2, <1>3, <2>2 DEF Sockets, Connects
  <2>4. p = q /\ p \in Pids /\ inbox[p] = <<>>
    BY <1>1, <2>3 DEF Peer, Idle, Connected
  <2>5. asked \in Nat /\ inbox \in [Pids -> Seq(Nat)] /\ asked' \in Nat
    BY <1>1, <2>1 DEF DataType
  <2>6. r \in Seq(Nat)
    <3>1. Seq(Nat \ {0}) \subseteq Seq(Nat)
      OBVIOUS
    <3> QED
      BY <1>3, <3>1
  <2> DEFINE answer == [i \in 1 .. SumOf(r) |-> asked']
  <2> HIDE DEF r, e, p
  <2>7. SumOf(r) \in Nat
    <3>1. Len(r) \in Nat
      BY <2>6, LenProperties
    <3> QED
      BY <2>6, <3>1, SumUnfolds
  <2>8. answer \in Seq(Nat) /\ Len(answer) = SumOf(r) /\ DOMAIN answer = 1 .. SumOf(r)
        /\ \A i \in DOMAIN answer : answer[i] = asked'
    <3> DEFINE n == SumOf(r)
    <3>0. n \in Nat
      BY <2>7
    <3> HIDE DEF n
    <3>1. [i \in 1 .. n |-> asked'] \in Seq(Nat) /\ Len([i \in 1 .. n |-> asked']) = n
      BY <2>5, <3>0
    <3>2. DOMAIN [i \in 1 .. n |-> asked'] = 1 .. n
          /\ \A i \in 1 .. n : [j \in 1 .. n |-> asked'][i] = asked'
      OBVIOUS
    <3> QED
      BY <3>1, <3>2 DEF n
  <2>9. inbox' = [inbox EXCEPT ![p] = inbox[p] \o answer]
    BY <2>1
  <2> HIDE DEF answer
  <2>10. inbox[p] \o answer = answer
    BY <2>4, <2>8, ConcatEmptySeq
  <2>11. inbox' \in [Pids -> Seq(Nat)] /\ inbox'[p] = answer
         /\ \A j \in Pids : j # p => inbox'[j] = inbox[j]
    BY <2>4, <2>5, <2>8, <2>9, <2>10
  <2>12. Updating
    BY <1>1, <1>2, <1>3, <2>1 DEF Updating, e
  <2>13. PlaceInv' /\ Waiting' /\ Handled' /\ Fresh' /\ EnginesKept' /\ FilesKept'
    BY <1>1, <2>12, UpdatingKeeps
  <2>14. DataType'
    <3>1. got' \in Seq(Nat) /\ reads' \in Seq(Nat \ {0})
      BY <1>3, <2>1, EmptySeq DEF r
    <3> QED
      BY <1>1, <2>5, <2>11, <3>1 DEF DataType
  <2>15. InStep'
    BY <2>1, EmptySeq DEF InStep
  <2>16. Inboxes'
    BY <1>1, <1>5, <2>11 DEF Inboxes
  <2>17. blocks_data' = blocks_data /\ Entry' = blocks_data[e] /\ Peer(Entry)' = p
         /\ Peer(Entry') = p
    BY <1>1, <1>2, <2>1 DEF Entry, Peer, p, e
  <2>18. Reading'
    <3> SUFFICES ASSUME at' = "recv" PROVE Reading'
      BY DEF Reading
    <3>1. r # <<>>
      <4>1. NextUpdate => at' = "scicos"
        BY <1>1, NextUpdateFacts
      <4> QED
        BY <2>1, <4>1
    <3>2. Len(inbox'[p]) <= SumOf(r) /\ \A i \in DOMAIN inbox'[p] : inbox'[p][i] = asked'
      BY <2>7, <2>8, <2>11
    <3>3. Entry'.exists
      BY <1>2, <2>17 DEF e
    <3> QED
      BY <2>1, <2>17, <3>1, <3>2, <3>3 DEF Reading
  <2>19. Sockets'
    <3> SUFFICES ASSUME NEW i \in DOMAIN blocks_data
                 PROVE  Listens(i)' /\ (blocks_data'[i].exists => Connects(i)')
      BY <1>1, <2>1 DEF Sockets, Live
    <3>1. Listens(i) /\ (blocks_data[i].exists => Connects(i))
      BY <1>1, <2>2 DEF Sockets
    <3>2. Listens(i)'
      BY <1>1, <2>1, <3>1 DEF Listens
    <3>3. ASSUME blocks_data'[i].exists PROVE Connects(i)'
      <4>1. PICK j \in Pids : /\ blocks_data[i].channel.handle \in Fds
                              /\ files[blocks_data[i].channel.handle] = Connected(j) /\ Idle(j)
        BY <2>17, <3>1, <3>3 DEF Connects
      <4>2. inbox[j] = <<>>
        BY <1>1, <4>1 DEF Idle
      <4>3. Idle(j)'
        <5>1. CASE j # p
          BY <2>11, <4>2, <5>1 DEF Idle
        <5>2. CASE j = p /\ at' = "recv"
          BY <2>17, <5>2 DEF Idle
        <5>3. CASE j = p /\ at' # "recv"
          <6>1. r = <<>>
            BY <2>1, <5>3
          <6>2. Len(answer) = 0
            BY <2>8, <6>1, SumOfNone
          <6>3. answer = <<>>
            BY <2>8, <6>2, EmptySeq
          <6> QED
            BY <2>11, <5>3, <6>3 DEF Idle
        <5> QED
          BY <5>1, <5>2, <5>3
      <4> QED
        BY <1>1, <2>17, <4>1, <4>3 DEF Connects
    <3> QED
      BY <3>2, <3>3
  <2> QED
    BY <2>13, <2>14, <2>15, <2>16, <2>18, <2>19 DEF SimInv
<1> QED
  BY <1>4, <1>5

-----------------------------------------------------------------------------
(* Steps within a call.                                                    *)
LEMMA PauseKeeps ==
  ASSUME SimInv, Pause, UNCHANGED files, handler_already_registered' = handler_already_registered
  PROVE  /\ PlaceInv' /\ Fresh' /\ FilesKept' /\ (SameEngines => Handled' /\ EnginesKept')
         /\ (SameEngines /\ at' = at => Waiting')
<1>1. PlaceInv /\ Handled /\ EnginesKept /\ FilesKept /\ Fresh /\ Waiting /\ DataType
  BY DEF SimInv
<1>2. PlaceInv' /\ Kept' = Kept /\ SameIds
  BY <1>1, PausePlaces
<1>3. /\ UNCHANGED <<diagram, phase, k, failed, blocks_data, current, work, erase_blocks>>
      /\ at' = at \/ (at = "clean" /\ at' = "wait")
  BY DEF Pause
<1>4. Numbered' = Numbered /\ Entry' = Entry
  BY <1>2, <1>3, SameIdsFacts DEF Entry
<1>5. FilesKept'
  BY <1>1, <1>2, <1>3, <1>4 DEF FilesKept
<1>6. Fresh'
  BY <1>1, <1>3, <1>4 DEF Fresh
<1>7. ASSUME SameEngines PROVE Handled' /\ EnginesKept'
  <2>1. SamePids
    BY <1>2, <1>3 DEF SamePids
  <2> QED
    BY <1>1, <1>4, <1>7, <2>1, EnginesStay
<1>8. ASSUME SameEngines, at' = at PROVE Waiting'
  BY <1>1, <1>4, <1>8 DEF Waiting, SameEngines
<1> QED
  BY <1>2, <1>5, <1>6, <1>7, <1>8

(* When the last read is complete the socket is empty again.               *)
LEMMA RecvKeeps ==
  ASSUME SimInv, Recv
  PROVE  SimInv'
<1> DEFINE p == Peer(Entry)
<1>1. /\ PlaceInv /\ PlaceType /\ DataType /\ Inboxes /\ InStep /\ Sockets /\ Reading /\ at = "recv"
      /\ UNCHANGED <<diagram, blocks_data, current, work, erase_blocks, asked, files, engine,
                     abandoned, handler_already_registered>>
  BY DEF SimInv, PlaceInv, Recv, scicos, entries, processes
<1>2. phase = "run" /\ ~failed /\ ~erase_blocks /\ current \in DOMAIN blocks_data
  BY <1>1 DEF PlaceInv, Places
<1>3. PICK n \in 1 .. Head(reads) :
        /\ n <= Len(inbox[p])
        /\ got' = got \o SubSeq(inbox[p], 1, n)
        /\ inbox' = [inbox EXCEPT ![p] = SubSeq(@, n + 1, Len(@))]
        /\ reads' = IF n = Head(reads) THEN Tail(reads)
                    ELSE <<Head(reads) - n>> \o Tail(reads)
  BY DEF Recv
<1>4. IF reads' = <<>> THEN NextUpdate ELSE UNCHANGED <<phase, k, failed, at>>
  BY DEF Recv, place
<1>5. Good /\ Live = DOMAIN blocks_data
  BY <1>1, <1>2 DEF Good, Live
<1>6. PICK q \in Pids : /\ Entry.channel.handle \in Fds
                        /\ files[Entry.channel.handle] = Connected(q)
  <2>1. Entry.exists
    BY <1>1 DEF Reading
  <2>2. Connects(current)
    BY <1>1, <1>2, <1>5, <2>1 DEF Sockets, Entry
  <2> QED
    BY <2>2 DEF Connects, Entry
<1>7. p \in Pids
  BY <1>6 DEF Peer, Connected
<1>8. /\ reads # <<>> /\ Len(inbox[p]) <= SumOf(reads)
      /\ \A i \in DOMAIN inbox[p] : inbox[p][i] = asked
  BY <1>1 DEF Reading
<1>9. /\ asked \in Nat /\ got \in Seq(Nat) /\ inbox \in [Pids -> Seq(Nat)]
      /\ reads \in Seq(Nat \ {0}) /\ \A i \in DOMAIN got : got[i] = asked
  BY <1>1 DEF DataType, InStep
<1> HIDE DEF p
<1>10. reads' \in Seq(Nat \ {0}) /\ SumOf(reads') = SumOf(reads) - n /\ n \in Nat \ {0}
  BY <1>3, <1>8, <1>9, ReadsShrink
<1> DEFINE s == inbox[p]
           left == SubSeq(s, n + 1, Len(s))
<1>11. s \in Seq(Nat) /\ Len(s) \in Nat /\ n \in 1 .. Len(s)
  <2>1. s \in Seq(Nat)
    BY <1>7, <1>9
  <2>2. Len(s) \in Nat
    BY <2>1, LenProperties
  <2> QED
    BY <1>3, <1>10, <2>1, <2>2
<1>12. /\ got' = got \o SubSeq(s, 1, n) /\ inbox' = [inbox EXCEPT ![p] = left]
       /\ Len(s) <= SumOf(reads) /\ \A i \in DOMAIN s : s[i] = asked
  BY <1>3, <1>8
<1> HIDE DEF s
<1>13. /\ got' \in Seq(Nat) /\ \A i \in DOMAIN got' : got'[i] = asked
       /\ left \in Seq(Nat) /\ Len(left) = Len(s) - n
       /\ \A i \in DOMAIN left : left[i] = asked
  <2> DEFINE all == got \o SubSeq(s, 1, n)
  <2>0. AllAre(s, asked) /\ AllAre(got, asked)
    BY <1>9, <1>12 DEF AllAre
  <2>1. /\ all \in Seq(Nat) /\ AllAre(all, asked)
        /\ left \in Seq(Nat) /\ Len(left) = Len(s) - n /\ AllAre(left, asked)
    BY <1>9, <1>11, <2>0, AnswerSplit
  <2>2. got' = all
    BY <1>12
  <2> HIDE DEF all, left
  <2> QED
    BY <2>1, <2>2 DEF AllAre
<1> HIDE DEF left
<1>14. inbox' \in [Pids -> Seq(Nat)] /\ inbox'[p] = left
       /\ \A j \in Pids : j # p => inbox'[j] = inbox[j]
  BY <1>7, <1>9, <1>12, <1>13
<1>15. SumOf(reads) \in Nat /\ SumOf(reads') \in Nat
  <2>1. reads \in Seq(Nat) /\ reads' \in Seq(Nat)
    <3>1. Seq(Nat \ {0}) \subseteq Seq(Nat)
      OBVIOUS
    <3> QED
      BY <1>9, <1>10, <3>1
  <2> QED
    BY <2>1, SumIsNat
<1>16. Len(left) <= SumOf(reads')
  BY <1>10, <1>11, <1>12, <1>13, <1>15
<1>17. DataType'
  BY <1>1, <1>9, <1>10, <1>13, <1>14 DEF DataType
<1>18. InStep'
  BY <1>1, <1>13 DEF InStep
<1>19. Inboxes'
  <2>1. s # <<>>
    BY <1>11, EmptySeq
  <2>2. engine[p] \notin {"unused", "starting", "connecting"}
    BY <1>1, <1>7, <2>1 DEF Inboxes, s
  <2> QED
    BY <1>1, <1>14, <2>2 DEF Inboxes
<1>20. PlaceInv' /\ Waiting' /\ Handled' /\ Fresh' /\ EnginesKept' /\ FilesKept'
       /\ (at' = "recv" => reads' # <<>>) /\ (at' # "recv" => reads' = <<>>)
  <2>1. CASE reads' = <<>>
    <3>1. NextUpdate /\ at' = "scicos"
      BY <1>1, <1>2, <1>4, <2>1, NextUpdateFacts
    <3>2. Updating
      BY <1>1, <1>2, <3>1 DEF Updating
    <3> QED
      BY <1>1, <2>1, <3>1, <3>2, UpdatingKeeps
  <2>2. CASE reads' # <<>>
    <3>1. Pause
      BY <1>1, <1>4, <2>2 DEF Pause
    <3>2. at' = at /\ SameEngines
      BY <1>1, <1>4, <2>2 DEF SameEngines
    <3> QED
      BY <1>1, <2>2, <3>1, <3>2, PauseKeeps
  <2> QED
    BY <2>1, <2>2
<1>21. Entry' = Entry /\ Peer(Entry') = p /\ Peer(Entry)' = p
  BY <1>1 DEF Entry, Peer, p
<1>22. Reading'
  <2> SUFFICES ASSUME at' = "recv" PROVE Reading'
    BY DEF Reading
  <2>1. Entry'.exists
    BY <1>1, <1>21 DEF Reading
  <2> QED
    BY <1>1, <1>13, <1>14, <1>16, <1>20, <1>21, <2>1 DEF Reading
<1>23. Sockets'
  <2> SUFFICES ASSUME NEW i \in DOMAIN blocks_data
               PROVE  Listens(i)' /\ (blocks_data'[i].exists => Connects(i)')
    BY <1>1, <1>2 DEF Sockets, Live
  <2>1. Listens(i) /\ (blocks_data[i].exists => Connects(i))
    BY <1>1, <1>2, <1>5 DEF Sockets
  <2>2. Listens(i)'
    BY <1>1, <2>1 DEF Listens
  <2>3. ASSUME blocks_data'[i].exists PROVE Connects(i)'
    <3>1. PICK j \in Pids : /\ blocks_data[i].channel.handle \in Fds
                            /\ files[blocks_data[i].channel.handle] = Connected(j) /\ Idle(j)
      BY <1>1, <2>1, <2>3 DEF Connects
    <3>2. Idle(j)'
      <4>1. CASE j # p
        BY <1>14, <3>1, <4>1 DEF Idle, p
      <4>2. CASE j = p /\ at' = "recv"
        BY <1>21, <4>2 DEF Idle
      <4>3. CASE j = p /\ at' # "recv"
        <5>1. Len(left) = 0
          <6>1. SumOf(reads') = 0
            BY <1>20, <4>3, SumOfNone
          <6>2. Len(left) \in Nat
            BY <1>13, LenProperties
          <6> QED
            BY <1>16, <6>1, <6>2
        <5>2. left = <<>>
          BY <1>13, <5>1, EmptySeq
        <5> QED
          BY <1>14, <4>3, <5>2 DEF Idle
      <4> QED
        BY <4>1, <4>2, <4>3
    <3> QED
      BY <1>1, <3>1, <3>2 DEF Connects
  <2> QED
    BY <2>2, <2>3
<1> QED
  BY <1>17, <1>18, <1>19, <1>20, <1>22, <1>23 DEF SimInv

-----------------------------------------------------------------------------
(* Flag 5, and the cleaning of an engine.                                  *)
LEMMA EndBlockKeeps ==
  ASSUME SimInv, EndBlock
  PROVE  SimInv'
<1> DEFINE e == EntryOf(k)
<1>1. /\ PlaceInv /\ PlaceType /\ DataType /\ Inboxes /\ InStep /\ Handled /\ EnginesKept /\ FilesKept
      /\ phase = "end" /\ at = "scicos" /\ k \in DOMAIN diagram.ids /\ blocks_data \in Seq(EntryType)
      /\ UNCHANGED <<diagram, blocks_data, work, erase_blocks, asked, reads, got, inbox, engine,
                     abandoned, handler_already_registered>>
  BY DEF SimInv, PlaceInv, PlaceType, EndBlock, Calling, scicos, update, processes
<1>2. SameEngines
  BY <1>1 DEF SameEngines
<1>3. CASE e = none
  <2>1. NextEnd /\ UNCHANGED <<files, current>>
    BY <1>3 DEF EndBlock
  <2>2. EndingNone
    BY <1>1, <1>3, <2>1 DEF EndingNone
  <2>3. PlaceInv' /\ Kept' = Kept /\ SameIds
    BY <1>1, <2>2, EndingNonePlaces
  <2>4. at' = "scicos" /\ phase' \in {"end", "off"} /\ Numbered' = Numbered
    BY <1>1, <2>1, <2>3, NextEndFacts, SameIdsFacts
  <2>5. SamePids /\ SameChannels /\ NoNewFiles
    BY <1>1, <2>1, <2>3 DEF SamePids, SameChannels, NoNewFiles
  <2>6. Handled' /\ EnginesKept' /\ FilesKept'
    BY <1>1, <1>2, <2>4, <2>5, EnginesStay, FilesStay
  <2>7. Waiting' /\ Fresh' /\ DataType'
    BY <1>1, <2>1, <2>4 DEF Waiting, Fresh, DataType
  <2>8. ~Good'
    BY <2>4 DEF Good
  <2>9. Sockets' /\ Inboxes' /\ Reading' /\ InStep'
    BY <1>1, <2>4, <2>8, AnswersStay
  <2> QED
    BY <2>3, <2>6, <2>7, <2>9 DEF SimInv
<1>4. CASE e # none
  <2>1. /\ files' = clean_channel(files, blocks_data[e].channel) /\ current' = e
        /\ at' = "clean" /\ UNCHANGED <<phase, k, failed>>
    BY <1>4 DEF EndBlock
  <2>2. Ending
    BY <1>1, <1>4, <2>1 DEF Ending
  <2>3. PlaceInv' /\ Kept' = Kept /\ SameIds /\ current' \in DOMAIN blocks_data
    BY <1>1, <2>2, EndingPlaces
  <2>4. Numbered' = Numbered
    BY <2>3, SameIdsFacts
  <2>5. blocks_data[e].channel \in Channels /\ files \in [Fds -> FileType]
    <3>1. blocks_data[e] \in EntryType
      BY <1>1, <2>1, <2>3, Entries
    <3> QED
      BY <1>1, <3>1, EntryFacts DEF DataType
  <2> HIDE DEF e
  <2>6. /\ files' \in [Fds -> FileType]
        /\ \A f \in Fds : files'[f] # Free =>
             /\ files[f] # Free /\ blocks_data[e].channel.handle # f
             /\ blocks_data[e].channel.listenHandle # f
    BY <2>1, <2>5, CleanChannelFacts
  <2>7. SamePids
    BY <1>1, <2>3 DEF SamePids
  <2>8. Handled' /\ EnginesKept'
    BY <1>1, <1>2, <2>4, <2>7, EnginesStay
  <2>9. FilesKept'
    <3> SUFFICES ASSUME Numbered, NEW f \in Fds, files'[f] # Free
                 PROVE  \E i \in Kept' : /\ \/ blocks_data'[i].channel.handle = f
                                            \/ blocks_data'[i].channel.listenHandle = f
                                         /\ i # current'
      BY <2>4 DEF FilesKept
    <3>1. PICK i \in Kept : blocks_data[i].channel.handle = f
                            \/ blocks_data[i].channel.listenHandle = f
      BY <1>1, <2>6 DEF FilesKept
    <3>2. i # current'
      BY <2>1, <2>6, <3>1
    <3> QED
      BY <1>1, <2>3, <3>1, <3>2
  <2>10. Waiting' /\ Fresh' /\ DataType'
    BY <1>1, <2>1, <2>6 DEF Waiting, Fresh, DataType
  <2>11. ~Good'
    BY <1>1, <2>1 DEF Good
  <2>12. Sockets' /\ Inboxes' /\ Reading' /\ InStep'
    BY <1>1, <2>1, <2>11, AnswersStay
  <2> QED
    BY <2>3, <2>8, <2>9, <2>10, <2>12 DEF SimInv
<1> QED
  BY <1>3, <1>4

(* The end of a cleaning: the engine has been reaped, there was none, or   *)
(* its wait has failed.                                                    *)
Gone == /\ \A p \in Pids : engine'[p] \notin {"unused", "reaped"} /\ p \notin abandoned' =>
             engine[p] \notin {"unused", "reaped"} /\ p \notin abandoned /\ p # Entry.pid
        /\ \A p \in Pids : engine'[p] \in {"unused", "starting", "connecting"} => engine'[p] = engine[p]

(* ... takes nothing from the other entries.                               *)
LEMMA AfterCleanKeeps ==
  ASSUME SimInv, at \in {"clean", "wait"}, AfterClean, Gone,
         UNCHANGED <<diagram, current, work, asked, reads, got, inbox>>,
         engine' \in [Pids -> {"unused", "starting", "connecting", "connected", "dead", "reaped"}],
         \/ handler_already_registered' = FALSE
         \/ /\ Entry.pid \in Pids /\ engine[Entry.pid] = "reaped"
            /\ UNCHANGED <<engine, handler_already_registered>>
  PROVE  SimInv'
<1>1. /\ PlaceInv /\ PlaceType /\ DataType /\ Inboxes /\ InStep /\ Handled /\ EnginesKept
      /\ FilesKept /\ none \notin Pids /\ none \notin Fds
      /\ phase = "end" \/ (phase = "init" /\ IsFlex)
  BY PidsAssumption, FdsAssumption DEF SimInv, PlaceInv, Places, none
<1>2. current \in Kept /\ Entry \in EntryType
      /\ \A i \in Kept : i \in DOMAIN blocks_data /\ blocks_data[i] \in EntryType
  BY <1>1, CurrentKept, KeptFacts
<1>3. \A i \in Kept : blocks_data[i].pid # none \/ blocks_data[i].channel.handle # none
                      \/ blocks_data[i].channel.listenHandle # none => Touched(blocks_data[i])
  BY DEF Touched, init_channel
<1>4. /\ PlaceInv' /\ Numbered' = Numbered /\ at' = "scicos" /\ ~Good'
      /\ \A i \in Kept : Touched(blocks_data[i]) /\ i # current =>
           \E j \in Kept' : blocks_data'[j] = blocks_data[i]
      /\ files' \in [Fds -> FileType] /\ NoNewFiles
      /\ phase = "init" => Kept' = Kept /\ blocks_data' = blocks_data
  <2>1. files \in [Fds -> FileType]
    BY <1>1 DEF DataType
  <2>2. CASE phase = "init"
    <3>1. /\ NextInit(TRUE) /\ files' = clean_channel(files, Entry.channel)
          /\ UNCHANGED <<blocks_data, erase_blocks>>
      BY <2>2 DEF AfterClean
    <3>2. \E w \in BOOLEAN : NextInit(w)
      BY <3>1
    <3>3. Passing
      BY <1>1, <2>2, <3>1, <3>2 DEF Passing
    <3>4. PlaceInv' /\ Kept' = Kept /\ SameIds
      BY <1>1, <3>3, PassingPlaces
    <3>5. at' = "scicos" /\ failed'
      BY <1>1, <2>2, <3>1, NextInitFacts
    <3>6. ~Good'
      BY <3>5 DEF Good
    <3>7. files' \in [Fds -> FileType] /\ NoNewFiles
      <4>1. Entry.channel \in Channels
        BY <1>2, EntryFacts
      <4> QED
        BY <2>1, <3>1, <4>1, CleanChannelFacts DEF NoNewFiles
    <3>8. Numbered' = Numbered
      BY <3>4, SameIdsFacts
    <3> QED
      BY <3>1, <3>4, <3>5, <3>6, <3>7, <3>8
  <2>3. CASE phase = "end"
    <3>1. /\ NextEnd /\ UNCHANGED files
          /\ IF IsFlex THEN blocks_data' = Removed(current) /\ UNCHANGED erase_blocks
             ELSE erase_blocks' = TRUE /\ UNCHANGED blocks_data
      BY <2>3 DEF AfterClean, IsFlex
    <3>2. Ended
      BY <2>3, <3>1 DEF Ended
    <3>3. PlaceInv' /\ OthersKept /\ Numbered' = Numbered
      BY <1>1, <3>2, EndedPlaces
    <3>4. at' = "scicos" /\ phase' \in {"end", "off"}
      BY <1>1, <2>3, <3>1, NextEndFacts
    <3>5. ~Good'
      BY <3>4 DEF Good
    <3>6. \A i \in Kept : Touched(blocks_data[i]) /\ i # current =>
            \E j \in Kept' : blocks_data'[j] = blocks_data[i]
      BY <3>3 DEF OthersKept
    <3>7. NoNewFiles
      BY <3>1 DEF NoNewFiles
    <3> QED
      BY <2>1, <2>3, <3>1, <3>3, <3>4, <3>5, <3>6, <3>7
  <2> QED
    BY <1>1, <2>2, <2>3
<1>5. DataType'
  <2>1. handler_already_registered' \in BOOLEAN
    BY <1>1 DEF DataType
  <2> QED
    BY <1>1, <1>4, <2>1 DEF DataType
<1>6. Handled'
  <2> SUFFICES ASSUME handler_already_registered' PROVE Handled'
    BY DEF Handled
  <2>1. Entry.pid \in Pids /\ engine[Entry.pid] = "reaped"
        /\ UNCHANGED <<engine, handler_already_registered>>
    OBVIOUS
  <2>2. PICK i \in Kept : blocks_data[i].pid \in Pids /\ engine[blocks_data[i].pid] # "reaped"
    BY <2>1 DEF Handled, SimInv
  <2>3. i # current /\ Touched(blocks_data[i])
    BY <1>1, <1>3, <2>1, <2>2 DEF Entry
  <2>4. PICK j \in Kept' : blocks_data'[j] = blocks_data[i]
    BY <1>4, <2>3
  <2> QED
    BY <2>1, <2>2, <2>4 DEF Handled
<1>7. EnginesKept'
  <2> SUFFICES ASSUME Numbered, NEW p \in Pids, engine'[p] \notin {"unused", "reaped"},
                      p \notin abandoned'
               PROVE  \E i \in Kept' : blocks_data'[i].pid = p
    BY <1>4 DEF EnginesKept
  <2>1. engine[p] \notin {"unused", "reaped"} /\ p \notin abandoned /\ p # Entry.pid
    BY DEF Gone
  <2>2. PICK i \in Kept : blocks_data[i].pid = p
    BY <1>1, <2>1 DEF EnginesKept
  <2>3. i # current /\ Touched(blocks_data[i])
    BY <1>1, <1>3, <2>1, <2>2 DEF Entry
  <2> QED
    BY <1>4, <2>2, <2>3
<1>8. FilesKept'
  <2> SUFFICES ASSUME Numbered, NEW f \in Fds, files'[f] # Free
               PROVE  \E i \in Kept' : blocks_data'[i].channel.handle = f
                                       \/ blocks_data'[i].channel.listenHandle = f
    BY <1>4 DEF FilesKept
  <2>1. PICK i \in Kept : /\ \/ blocks_data[i].channel.handle = f
                             \/ blocks_data[i].channel.listenHandle = f
                          /\ phase = "end" => i # current
    BY <1>1, <1>4 DEF FilesKept, NoNewFiles
  <2>2. CASE phase = "init"
    BY <1>4, <2>1, <2>2
  <2>3. CASE phase = "end"
    <3>1. Touched(blocks_data[i]) /\ i # current
      BY <1>1, <1>3, <2>1, <2>3
    <3> QED
      BY <1>4, <2>1, <3>1
  <2> QED
    BY <1>1, <2>2, <2>3
<1>9. Waiting' /\ Fresh'
  BY <1>4 DEF Waiting, Fresh
<1>10. Sockets' /\ Inboxes' /\ Reading' /\ InStep'
  <2>1. \A p \in Pids : engine'[p] \in {"unused", "starting", "connecting"} =>
                           engine[p] \in {"unused", "starting", "connecting"}
    BY DEF Gone
  <2> QED
    BY <1>1, <1>4, <2>1, AnswersStay
<1> QED
  BY <1>4, <1>5, <1>6, <1>7, <1>8, <1>9, <1>10 DEF SimInv

(* An engine that is killed, or cannot be, or never was.                   *)
LEMMA CleanProcessKeeps ==
  ASSUME SimInv, CleanProcess
  PROVE  SimInv'
<1>1. /\ DataType /\ at = "clean" /\ Inboxes /\ InStep /\ PlaceInv
      /\ UNCHANGED <<diagram, current, work, asked, reads, got, inbox, engine, abandoned>>
      /\ engine \in [Pids -> {"unused", "starting", "connecting", "connected", "dead", "reaped"}]
  BY DEF SimInv, CleanProcess, scicos, update, DataType
<1>2. CASE /\ AfterClean
           /\ \/ NothingToKill(Entry.pid) /\ unregister_handler
              \/ CannotKill(Entry.pid) /\ UNCHANGED <<killed, handler_already_registered>>
  <2>1. Gone
    <3>1. ASSUME NEW p \in Pids, engine'[p] \notin {"unused", "reaped"}, p \notin abandoned'
          PROVE  engine[p] \notin {"unused", "reaped"} /\ p \notin abandoned /\ p # Entry.pid
      BY <1>1, <1>2, <3>1 DEF NothingToKill, CannotKill
    <3> QED
      BY <1>1, <3>1 DEF Gone
  <2>2. \/ handler_already_registered' = FALSE
        \/ /\ Entry.pid \in Pids /\ engine[Entry.pid] = "reaped"
           /\ UNCHANGED <<engine, handler_already_registered>>
    BY <1>1, <1>2 DEF unregister_handler, CannotKill
  <2> QED
    BY <1>1, <1>2, <2>1, <2>2, AfterCleanKeeps
<1>3. CASE /\ MustWait(Entry.pid) /\ at' = "wait"
           /\ UNCHANGED <<phase, k, failed, blocks_data, erase_blocks, files,
                          handler_already_registered>>
  <2>1. Pause /\ UNCHANGED files /\ handler_already_registered' = handler_already_registered
    BY <1>1, <1>3 DEF Pause
  <2>2. SameEngines
    BY <1>1 DEF SameEngines
  <2>3. PlaceInv' /\ Fresh' /\ FilesKept' /\ Handled' /\ EnginesKept'
    BY <2>1, <2>2, PauseKeeps
  <2>4. Waiting'
    BY <1>1, <1>3 DEF Waiting, MustWait, Entry
  <2>5. DataType' /\ ~Good'
    <3>1. DataType'
      BY <1>1, <1>3 DEF DataType
    <3>2. phase \in {"end", "init"}
      BY <1>1 DEF PlaceInv, Places
    <3> QED
      BY <1>3, <3>1, <3>2 DEF Good
  <2>6. Sockets' /\ Inboxes' /\ Reading' /\ InStep'
    BY <1>1, <1>3, <2>5, AnswersStay
  <2> QED
    BY <2>3, <2>4, <2>5, <2>6 DEF SimInv
<1> QED
  BY <1>2, <1>3 DEF CleanProcess

(* A wait that reaps this engine, or another one that has died.            *)
LEMMA WaitReapsKeeps ==
  ASSUME SimInv, WaitReaps
  PROVE  SimInv'
<1>1. /\ DataType /\ at = "wait" /\ Inboxes /\ InStep /\ PlaceInv /\ Waiting /\ EnginesKept
      /\ UNCHANGED <<diagram, current, work, asked, reads, got, inbox, abandoned>>
      /\ engine \in [Pids -> {"unused", "starting", "connecting", "connected", "dead", "reaped"}]
  BY DEF SimInv, WaitReaps, scicos, update, DataType
<1>2. PICK p \in Pids :
        /\ Reap(p)
        /\ IF p = Entry.pid
           THEN unregister_handler /\ AfterClean
           ELSE UNCHANGED <<phase, k, failed, at, blocks_data, erase_blocks, files,
                            handler_already_registered>>
  BY DEF WaitReaps, place
<1>3. /\ engine[p] = "dead" /\ engine' = [engine EXCEPT ![p] = "reaped"] /\ engine'[p] = "reaped"
      /\ \A q \in Pids : q # p => engine'[q] = engine[q]
      /\ engine' \in [Pids -> {"unused", "starting", "connecting", "connected", "dead", "reaped"}]
  BY <1>1, <1>2 DEF Reap
<1>4. CASE p = Entry.pid
  <2>1. Gone
    BY <1>1, <1>3, <1>4 DEF Gone
  <2>2. handler_already_registered' = FALSE /\ AfterClean
    BY <1>2, <1>4 DEF unregister_handler
  <2> QED
    BY <1>1, <1>3, <2>1, <2>2, AfterCleanKeeps
<1>5. CASE p # Entry.pid
  <2>1. /\ Pause /\ UNCHANGED files /\ handler_already_registered' = handler_already_registered
        /\ at' = at /\ UNCHANGED <<phase, blocks_data>>
    BY <1>1, <1>2, <1>5 DEF Pause
  <2>2. PlaceInv' /\ Fresh' /\ FilesKept'
    BY <2>1, PauseKeeps
  <2>3. Kept' = Kept /\ Entry' = Entry /\ Numbered' = Numbered /\ current \in Kept
    BY <1>1, <2>1, PausePlaces, SameIdsFacts, CurrentKept DEF Entry
  <2>4. Entry.pid \in Pids /\ engine'[Entry.pid] # "reaped"
    BY <1>1, <1>3, <1>5 DEF Waiting
  <2>5. Waiting' /\ Handled'
    BY <2>1, <2>3, <2>4 DEF Waiting, Handled, Entry
  <2>6. EnginesKept'
    <3> SUFFICES ASSUME Numbered, NEW q \in Pids, engine'[q] \notin {"unused", "reaped"},
                        q \notin abandoned
                 PROVE  \E i \in Kept : blocks_data[i].pid = q
      BY <1>1, <2>1, <2>3 DEF EnginesKept
    <3>1. engine[q] \notin {"unused", "reaped"}
      BY <1>3
    <3> QED
      BY <1>1, <3>1 DEF EnginesKept
  <2>7. DataType' /\ ~Good'
    <3>1. DataType'
      BY <1>1, <1>3, <2>1 DEF DataType
    <3>2. phase \in {"end", "init"}
      BY <1>1 DEF PlaceInv, Places
    <3> QED
      BY <1>1, <2>1, <3>1, <3>2 DEF Good
  <2>8. \A q \in Pids : engine'[q] \in {"unused", "starting", "connecting"} =>
                           engine[q] \in {"unused", "starting", "connecting"}
    BY <1>3
  <2>9. Sockets' /\ Inboxes' /\ Reading' /\ InStep'
    BY <1>1, <2>1, <2>7, <2>8, AnswersStay
  <2> QED
    BY <2>2, <2>5, <2>6, <2>7, <2>9 DEF SimInv
<1> QED
  BY <1>4, <1>5

(* A wait that is interrupted leaves its engine, and says so.              *)
LEMMA WaitFailsKeeps ==
  ASSUME SimInv, WaitFails
  PROVE  SimInv'
<1>1. /\ at = "wait" /\ AfterClean /\ handler_already_registered' = FALSE
      /\ abandoned' = abandoned \cup {Entry.pid}
      /\ UNCHANGED <<diagram, current, work, asked, reads, got, inbox, engine>>
      /\ engine \in [Pids -> {"unused", "starting", "connecting", "connected", "dead", "reaped"}]
  BY DEF SimInv, WaitFails, WaitInterrupted, unregister_handler, scicos, update, DataType
<1>2. Gone
  BY <1>1 DEF Gone
<1> QED
  BY <1>1, <1>2, AfterCleanKeeps

-----------------------------------------------------------------------------
(* The engines.                                                            *)
LEMMA EngineConnectsKeeps ==
  ASSUME SimInv, NEW p \in Pids, EngineConnects(p)
  PROVE  SimInv'
<1>1. /\ DataType /\ Inboxes /\ InStep /\ Sockets /\ Reading
      /\ engine[p] = "starting" /\ engine' = [engine EXCEPT ![p] = "connecting"]
      /\ UNCHANGED <<diagram, phase, k, failed, at, blocks_data, current, work, erase_blocks,
                     asked, reads, got, inbox, files, abandoned, handler_already_registered>>
      /\ engine \in [Pids -> {"unused", "starting", "connecting", "connected", "dead", "reaped"}]
  BY DEF SimInv, EngineConnects, scicos, place, entries, update, DataType
<1>2. /\ engine'[p] = "connecting" /\ \A q \in Pids : q # p => engine'[q] = engine[q]
      /\ engine' \in [Pids -> {"unused", "starting", "connecting", "connected", "dead", "reaped"}]
  BY <1>1
<1>3. Pause /\ SameEngines /\ handler_already_registered' = handler_already_registered
  BY <1>1, <1>2 DEF Pause, SameEngines
<1>4. PlaceInv' /\ Waiting' /\ Handled' /\ Fresh' /\ EnginesKept' /\ FilesKept'
  BY <1>1, <1>3, PauseKeeps
<1>5. DataType' /\ Inboxes' /\ InStep'
  <2>1. DataType'
    BY <1>1, <1>2 DEF DataType
  <2>2. Inboxes'
    BY <1>1, <1>2 DEF Inboxes
  <2> QED
    BY <1>1, <2>1, <2>2 DEF InStep
<1>6. Reading' /\ Sockets'
  <2>1. Entry' = Entry /\ Live' = Live /\ Good' = Good
    BY <1>1 DEF Entry, Live, Good
  <2>2. Reading'
    BY <1>1, <2>1 DEF Reading, Peer
  <2>3. Sockets'
    BY <1>1, <2>1 DEF Sockets, Listens, Connects, Idle, Peer
  <2> QED
    BY <2>2, <2>3
<1> QED
  BY <1>4, <1>5, <1>6 DEF SimInv

(* An engine that ends cuts its answer, which stays an answer.             *)
LEMMA EngineEndsKeeps ==
  ASSUME SimInv, NEW p \in Pids, EngineEnds(p)
  PROVE  SimInv'
<1>1. /\ DataType /\ Inboxes /\ InStep /\ Sockets /\ Reading /\ p \in Alive
      /\ engine' = [engine EXCEPT ![p] = "dead"]
      /\ UNCHANGED <<diagram, phase, k, failed, at, blocks_data, current, work, erase_blocks,
                     asked, reads, got, files, abandoned, handler_already_registered>>
      /\ engine \in [Pids -> {"unused", "starting", "connecting", "connected", "dead", "reaped"}]
      /\ reads \in Seq(Nat \ {0}) /\ inbox \in [Pids -> Seq(Nat)] /\ asked \in Nat
  BY DEF SimInv, EngineEnds, scicos, place, entries, update, DataType
<1>2. /\ engine'[p] = "dead" /\ \A q \in Pids : q # p => engine'[q] = engine[q]
      /\ engine' \in [Pids -> {"unused", "starting", "connecting", "connected", "dead", "reaped"}]
  BY <1>1
<1>3. Pause /\ SameEngines /\ handler_already_registered' = handler_already_registered
  BY <1>1, <1>2 DEF Pause, SameEngines, Alive
<1>4. PlaceInv' /\ Waiting' /\ Handled' /\ Fresh' /\ EnginesKept' /\ FilesKept'
  BY <1>1, <1>3, PauseKeeps
<1>5. PICK n \in 0 .. Len(inbox[p]) : inbox' = [inbox EXCEPT ![p] = SubSeq(@, 1, n)]
  BY DEF EngineEnds
<1> DEFINE s == inbox[p]
           t == SubSeq(s, 1, n)
<1>6. s \in Seq(Nat) /\ Len(s) \in Nat /\ DOMAIN s = 1 .. Len(s)
  BY <1>1, LenProperties
<1>7. t \in Seq(Nat) /\ Len(t) = n /\ (\A i \in 1 .. n : t[i] = s[i]) /\ DOMAIN t = 1 .. n
  <2>0. n \in 0 .. Len(s)
    BY <1>5
  <2> HIDE DEF s
  <2>1. t \in Seq(Nat) /\ Len(t) = n /\ \A i \in 1 .. n : t[i] = s[i]
    BY <1>6, <2>0, PrefixProperties
  <2> HIDE DEF t
  <2> QED
    BY <2>1, LenProperties
<1>8. inbox' = [inbox EXCEPT ![p] = t]
  BY <1>5
<1> HIDE DEF t
<1>9. /\ inbox' \in [Pids -> Seq(Nat)] /\ inbox'[p] = t
      /\ \A q \in Pids : q # p => inbox'[q] = inbox[q]
  BY <1>1, <1>7, <1>8
<1>10. n \in Nat /\ n <= Len(s)
  BY <1>5, <1>6
<1>11. \A q \in Pids : inbox[q] = <<>> => inbox'[q] = <<>>
  <2> SUFFICES ASSUME s = <<>> PROVE t = <<>>
    BY <1>9
  <2>1. Len(s) = 0
    BY EmptySeq
  <2> HIDE DEF s
  <2>2. Len(t) = 0
    BY <1>7, <1>10, <2>1
  <2> QED
    BY <1>7, <2>2, EmptySeq
<1>12. DataType' /\ Inboxes' /\ InStep'
  <2>1. DataType'
    BY <1>1, <1>2, <1>9 DEF DataType
  <2>2. Inboxes'
    BY <1>1, <1>2, <1>9 DEF Inboxes
  <2> QED
    BY <1>1, <2>1, <2>2 DEF InStep
<1>13. Entry' = Entry /\ Live' = Live /\ Good' = Good /\ Peer(Entry)' = Peer(Entry)
       /\ Peer(Entry') = Peer(Entry)
  BY <1>1 DEF Entry, Live, Good, Peer
<1>14. Reading'
  <2> SUFFICES ASSUME at = "recv" PROVE Reading'
    BY <1>1 DEF Reading
  <2> DEFINE q == Peer(Entry)
  <2>1. /\ reads # <<>> /\ Entry.exists /\ Len(inbox[q]) <= SumOf(reads)
        /\ \A i \in DOMAIN inbox[q] : inbox[q][i] = asked
    BY <1>1 DEF Reading
  <2>2. Len(inbox'[q]) <= SumOf(reads) /\ \A i \in DOMAIN inbox'[q] : inbox'[q][i] = asked
    <3>1. CASE q = p
      <4>1. SumOf(reads) \in Nat
        <5>1. Seq(Nat \ {0}) \subseteq Seq(Nat)
          OBVIOUS
        <5> QED
          BY <1>1, <5>1, SumIsNat
      <4>2. inbox'[q] = t /\ Len(s) <= SumOf(reads) /\ \A i \in DOMAIN s : s[i] = asked
        BY <1>9, <2>1, <3>1
      <4> HIDE DEF s, q
      <4>3. Len(t) <= SumOf(reads)
        BY <1>6, <1>7, <1>10, <4>1, <4>2
      <4>4. \A i \in DOMAIN t : t[i] = asked
        <5>1. \A i \in 1 .. n : i \in DOMAIN s
          BY <1>6, <1>10
        <5> QED
          BY <1>7, <4>2, <5>1
      <4> QED
        BY <4>2, <4>3, <4>4
    <3>2. CASE q # p
      <4>1. inbox' = [inbox EXCEPT ![p] = t] /\ inbox'[q] = inbox[q]
        BY <1>8, <3>2
      <4> QED
        BY <2>1, <4>1
    <3> QED
      BY <3>1, <3>2
  <2> QED
    BY <1>1, <1>13, <2>1, <2>2 DEF Reading
<1>15. Sockets'
  <2> SUFFICES ASSUME Good, NEW i \in Live
               PROVE  /\ Listens(i)'
                      /\ Connects(i) => Connects(i)'
    BY <1>1, <1>13 DEF Sockets
  <2>1. Listens(i)'
    <3>1. Listens(i)
      BY <1>1 DEF Sockets
    <3> QED
      BY <1>1, <3>1 DEF Listens
  <2>2. ASSUME Connects(i) PROVE Connects(i)'
    <3>1. PICK j \in Pids : /\ blocks_data[i].channel.handle \in Fds
                            /\ files[blocks_data[i].channel.handle] = Connected(j) /\ Idle(j)
      BY <2>2 DEF Connects
    <3>2. Idle(j)'
      BY <1>1, <1>11, <1>13, <3>1 DEF Idle
    <3> QED
      BY <1>1, <3>1, <3>2 DEF Connects
  <2> QED
    BY <2>1, <2>2
<1> QED
  BY <1>4, <1>12, <1>14, <1>15 DEF SimInv

-----------------------------------------------------------------------------
(* The invariant of the simulations, and what follows from it.             *)
LEMMA InitHolds ==
  ASSUME Init
  PROVE  SimInv
<1>1. /\ diagram \in Diagrams /\ phase = "off" /\ k = 1 /\ failed = FALSE /\ at = "scicos"
      /\ blocks_data = <<>> /\ work = [i \in DOMAIN diagram.ids |-> none] /\ erase_blocks = FALSE
      /\ asked = 0 /\ reads = <<>> /\ got = <<>> /\ inbox = [p \in Pids |-> <<>>]
      /\ files = [f \in Fds |-> Free] /\ engine = [p \in Pids |-> "unused"]
      /\ handler_already_registered = FALSE
  BY DEF Init
<1>2. DOMAIN blocks_data = {} /\ Len(blocks_data) = 0 /\ blocks_data \in Seq(EntryType)
      /\ got \in Seq(Nat) /\ reads \in Seq(Nat \ {0}) /\ DOMAIN got = {}
  BY <1>1, EmptySeq
<1>3. 1 \in DOMAIN diagram.ids
  BY <1>1, DiagramFacts
<1>4. Kept = {}
  BY <1>2 DEF Kept
<1>5. PlaceInv
  <2>1. PlaceType
    <3>1. none \in Int
      BY DEF none
    <3>2. work \in [DOMAIN diagram.ids -> Int]
      BY <1>1, <3>1
    <3> QED
      BY <1>1, <1>2, <1>3, <3>2 DEF PlaceType
  <2>2. Places /\ Pointed /\ InOrder
    BY <1>1 DEF Places, Pointed, InOrder
  <2>3. InPlace /\ Owned
    BY <1>1, <1>2 DEF InPlace, Owned
  <2> QED
    BY <2>1, <2>2, <2>3 DEF PlaceInv
<1>6. DataType
  <2>1. files \in [Fds -> FileType]
    BY <1>1 DEF FileType
  <2>2. inbox \in [Pids -> Seq(Nat)]
    BY <1>1, EmptySeq
  <2>3. /\ engine \in [Pids -> {"unused", "starting", "connecting", "connected", "dead", "reaped"}]
        /\ asked \in Nat /\ handler_already_registered \in BOOLEAN
    BY <1>1
  <2> QED
    BY <1>2, <2>1, <2>2, <2>3 DEF DataType
<1>7. Waiting /\ Handled /\ Fresh /\ EnginesKept /\ FilesKept
  BY <1>1 DEF Waiting, Handled, Fresh, EnginesKept, FilesKept
<1>8. Sockets /\ Inboxes /\ Reading /\ InStep
  BY <1>1, <1>2 DEF Sockets, Good, Inboxes, Reading, InStep
<1> QED
  BY <1>5, <1>6, <1>7, <1>8 DEF SimInv

(* Nothing happens.                                                        *)
LEMMA StutterKeeps ==
  ASSUME SimInv, UNCHANGED vars
  PROVE  SimInv'
<1>1. UNCHANGED <<diagram, phase, k, failed, at, blocks_data, current, work, erase_blocks, asked,
                  reads, got, inbox, files, engine, abandoned, handler_already_registered>>
  BY DEF vars, scicos, place, entries, update, processes
<1>2. PlaceInv /\ DataType /\ Sockets /\ Inboxes /\ Reading /\ InStep
  BY DEF SimInv
<1>3. Pause /\ UNCHANGED files /\ handler_already_registered' = handler_already_registered
  BY <1>1 DEF Pause
<1>4. SameEngines
  BY <1>1 DEF SameEngines
<1>5. PlaceInv' /\ Waiting' /\ Handled' /\ Fresh' /\ EnginesKept' /\ FilesKept'
  BY <1>1, <1>3, <1>4, PauseKeeps
<1>6. DataType' /\ Inboxes' /\ InStep'
  BY <1>1, <1>2 DEF DataType, Inboxes, InStep
<1>7. Entry' = Entry /\ Live' = Live /\ Good' = Good
  BY <1>1 DEF Entry, Live, Good
<1>8. Reading'
  BY <1>1, <1>2, <1>7 DEF Reading, Peer
<1>9. Sockets'
  BY <1>1, <1>2, <1>7 DEF Sockets, Listens, Connects, Idle, Peer
<1> QED
  BY <1>5, <1>6, <1>8, <1>9 DEF SimInv

(* Every step preserves the invariant.                                     *)
LEMMA NextKeeps ==
  ASSUME SimInv, Next
  PROVE  SimInv'
<1>1. Start => SimInv'
  BY StartKeeps
<1>2. Flag4 => SimInv'
  BY SkipBlockKeeps, MakeBlockKeeps, OpenChannelKeeps, LaunchProcessKeeps, PollConnectsKeeps,
     PollFailsKeeps DEF Flag4
<1>3. Flag1 => SimInv'
  BY SkipUpdateKeeps, RequestKeeps, RecvKeeps, RecvFailsKeeps DEF Flag1
<1>4. Flag5 \/ Clean => SimInv'
  BY EndBlockKeeps, CleanProcessKeeps, WaitReapsKeeps, WaitFailsKeeps DEF Flag5, Clean
<1>5. Engines => SimInv'
  BY EngineConnectsKeeps, EngineEndsKeeps DEF Engines
<1> QED
  BY <1>1, <1>2, <1>3, <1>4, <1>5 DEF Next, Scicos

(* The invariant holds of every behaviour.                                 *)
LEMMA SimInvariant == Spec => []SimInv
<1>1. Init => SimInv
  BY InitHolds
<1>2. SimInv /\ [Next]_vars => SimInv'
  BY NextKeeps, StutterKeeps
<1> QED
  BY <1>1, <1>2, PTL DEF Spec

(* Over every diagram, with any number of boards, engines and descriptors, *)
(* an update reads nothing but the answer to its own request, however the  *)
(* answer is cut.                                                          *)
THEOREM UpdatesAreInStep == Spec => []InStep
<1>1. SimInv => InStep
  BY DEF SimInv
<1> QED
  BY <1>1, SimInvariant, PTL

(* When a simulation is over Scicos has its handler of SIGCHLD again, and, *)
(* over a diagram whose boards are numbered in order, no engine is left    *)
(* running or unreaped, but those that were killed and whose wait was      *)
(* interrupted, and no descriptor open, whichever calls have failed and    *)
(* whichever engines have died.                                            *)
THEOREM NothingIsLeft == Spec => []NothingLeft
<1>1. SimInv => NothingLeft
  <2> SUFFICES ASSUME SimInv, phase = "off" PROVE NothingLeft
    BY DEF NothingLeft
  <2>1. /\ PlaceInv /\ DataType /\ Handled /\ EnginesKept /\ FilesKept
    BY DEF SimInv
  <2>2. Kept = {}
    BY <2>1, NothingKept DEF PlaceInv
  <2>3. ~handler_already_registered
    BY <2>1, <2>2 DEF Handled
  <2>4. Numbered => \A p \in Pids : engine[p] \in {"unused", "reaped"} \/ p \in abandoned
    BY <2>1, <2>2 DEF EnginesKept
  <2>5. Numbered => \A f \in Fds : files[f] = Free
    BY <2>1, <2>2 DEF FilesKept
  <2> QED
    BY <2>3, <2>4, <2>5 DEF NothingLeft
<1> QED
  BY <1>1, SimInvariant, PTL

=============================================================================
