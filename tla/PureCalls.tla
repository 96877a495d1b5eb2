------------------------------- MODULE PureCalls -------------------------------
(***************************************************************************)
(* One call of a function that keeps no state: a native integer block, or  *)
(* the programs of confparser one after the other.                         *)
(***************************************************************************)
EXTENDS NativeInteger, ConfParser

CONSTANTS
  Values(_),    \* of each type: the elements of the matrices
  Size,         \* the most rows, columns and ports
  Arguments     \* of confparser_mux: strings

ASSUME PureCallsAssumption ==
  /\ Size \in Nat \ {0}
  /\ \A t \in DOMAIN Half : Values(t) \subseteq -Half[t] .. Half[t] - 1
  /\ Arguments \subseteq Seq(STRING)

VARIABLE call

CallInit == call = [fn |-> "none"]

(* A gain is a matrix, or one element for an input of any size.            *)
Gain ==
  /\ call.fn = "none"
  /\ \E t \in DOMAIN Half, mu \in 1 .. Size, my \in 1 .. Size, ny \in 1 .. Size :
       \E opar \in [Row(my * mu) -> Values(t)]
                     \cup {o \in [{0} -> Values(t)] : mu = my},
          u \in [Row(mu * ny) -> Values(t)] :
         call' = [fn |-> "gain", t |-> t, opar |-> opar, u |-> u,
                  mu |-> mu, my |-> my, ny |-> ny]

Summation ==
  /\ call.fn = "none"
  /\ \E t \in DOMAIN Half, nin \in 1 .. Size + 1, size \in 1 .. Size :
       \E ipar \in [Row(nin) -> {-1, 1}],
          ports \in [Row(nin) -> [Row(size) -> Values(t)]] :
         call' = [fn |-> "summation", t |-> t, ipar |-> ipar, ports |-> ports,
                  size |-> size]

Mux ==
  /\ call.fn = "none"
  /\ \E n \in 0 .. Size : \E argv \in [1 .. n -> Arguments] :
       call' = [fn |-> "mux", argv |-> argv]

CallNext == Gain \/ Summation \/ Mux

CallSpec == CallInit /\ [][CallNext]_call

-----------------------------------------------------------------------------
Total(f, s) ==
  LET sum[n \in 0 .. s] == IF n = 0 THEN 0 ELSE sum[n - 1] + f[n - 1] IN sum[s]

(* A gain assigns every element of y and nothing else, and what it assigns *)
(* is the exact product, taken once modulo the width: the wraps on the way *)
(* do not add up.  Not so nat_gainblk_i32n with a matrix.                  *)
GainExact ==
  call.fn = "gain" =>
    LET opar == call.opar  u == call.u  mu == call.mu  my == call.my  ny == call.ny
        y == nat_gainblk(call.t, opar, u, mu, my, ny)
        Exact(j, l) ==
          IF DOMAIN opar = {0} THEN opar[0] * u[j + l * my]
          ELSE Total([i \in Row(mu) |-> opar[j + i * my] * u[i + l * mu]], mu)
    IN  \/ call.t = "i32" /\ DOMAIN opar # {0}
        \/ /\ Assigned(call.t, opar, mu, my, ny) = Row(my * ny)
           /\ \A j \in Row(my), l \in Row(ny) : y[j + l * my] = Wrap(call.t, Exact(j, l))

(* A sum is the exact signed sum modulo the width, whatever the order of   *)
(* the ports; a single port is summed whatever its sign.                   *)
SumExact ==
  call.fn = "summation" =>
    LET ports == call.ports
        nin   == Cardinality(DOMAIN ports)
        y     == nat_summation(call.t, call.ipar, ports, call.size)
    IN  IF nin = 1 THEN y = [p \in {0} |-> Wrap(call.t, Total(ports[0], call.size))]
        ELSE \A p \in Row(call.size) :
               y[p] = Wrap(call.t, Total([k \in Row(nin) |-> call.ipar[k] * ports[k][p]], nin))

(* The words with a separator between any two of them.                     *)
Joined(sep, words) ==
  LET from[n \in 1 .. Len(words)] ==
        IF n = Len(words) THEN words[n] ELSE words[n] \o <<sep>> \o from[n + 1]
  IN  from[1]

(* What is understood are the arguments, taken apart: every argument is a  *)
(* variable and its configurations, or there is an error.                  *)
Written(variable) == variable.name \o <<"=">> \o Joined(",", variable.conf)

Proper(arg) ==
  \E e \in DOMAIN arg :
    /\ arg[e] = "=" /\ SubSeq(arg, 1, e - 1) \in Seq(Alnum)
    /\ SubSeq(arg, e + 1, Len(arg)) \in Seq(Alnum \cup {","}) /\ Last(arg) \in Alnum

(* The assignments of a configuration to each variable, and the place of   *)
(* one when those of the last variable follow each other fastest.          *)
Assignments(vars) ==
  {a \in [DOMAIN vars -> UNION {DOMAIN vars[n].conf : n \in DOMAIN vars}] :
     \A n \in DOMAIN vars : a[n] \in DOMAIN vars[n].conf}

Place(vars, a) ==
  LET end == Len(vars)
      count[n \in 1 .. end + 1] == IF n > end THEN 1 ELSE Len(vars[n].conf) * count[n + 1]
      from[n \in 1 .. end + 1] ==
        IF n > end THEN 1 ELSE (a[n] - 1) * count[n + 1] + from[n + 1]
  IN  from[1]

(* confparser_mux prints a line for every assignment, once and in order.   *)
(* confparser_demux makes of it the assignment as "name=conf" with blanks  *)
(* between; confparser_demux2 keeps the configurations, in their place.    *)
(* Nothing is printed without an argument, or with one in error.           *)
RoundTrip ==
  call.fn = "mux" =>
    LET lines == confparser_mux(call.argv)
        vars  == parse_commandline(call.argv)
        all   == Assignments(vars)
        Conf(a, n)  == vars[n].conf[a[n]]
        Shown(a)    == [n \in DOMAIN vars |-> vars[n].name \o <<"=">> \o Conf(a, n)]
        Blanked(a)  == [n \in DOMAIN vars |->
                          [p \in 1 .. Len(vars[n].name) + 1 |-> " "] \o Conf(a, n)]
    IN  IF call.argv = <<>> \/ \E n \in DOMAIN call.argv : ~Proper(call.argv[n])
        THEN lines = error
        ELSE /\ DOMAIN vars = DOMAIN call.argv
             /\ \A n \in DOMAIN vars : Written(vars[n]) = call.argv[n]
             /\ {Place(vars, a) : a \in all} = DOMAIN lines
             /\ \A a, b \in all : Place(vars, a) = Place(vars, b) => a = b
             /\ \A a \in all :
                  /\ confparser_demux(lines[Place(vars, a)]) = Joined(" ", Shown(a))
                  /\ confparser_demux2(lines[Place(vars, a)]) = Joined(" ", Blanked(a))
=============================================================================
