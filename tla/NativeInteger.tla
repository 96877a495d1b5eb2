----------------------------- MODULE NativeInteger -----------------------------
(***************************************************************************)
(* The blocks of dspic/NativeInteger: a gain and a sum over char, short    *)
(* and long.  Matrices are column by column in arrays counted from zero;   *)
(* every assignment wraps, as no block detects an overflow.                *)
(* nat_product_i32n.c does not compile and is left out.                    *)
(***************************************************************************)
EXTENDS Integers, FiniteSets

CONSTANT Half   \* of each type, "i8", "i16" and "i32": minus its least value

ASSUME HalfAssumption == \A t \in DOMAIN Half : Half[t] \in Nat \ {0}

(* The value that is stored in a variable of the type.                     *)
Wrap(t, x) == ((x + Half[t]) % (2 * Half[t])) - Half[t]

Row(n) == 0 .. n - 1

-----------------------------------------------------------------------------
(* nat_gainblk_*: u has mu rows and ny columns, y has my rows.             *)

(* D = D + C over i = 0 .. mu - 1, where g and v are the factors.          *)
Dot(t, mu, g, v) ==
  LET D[n \in 0 .. mu] ==
        IF n = 0 THEN 0
        ELSE Wrap(t, D[n - 1] + Wrap(t, g[n - 1] * v[n - 1]))
  IN  D[mu]

(* The index of u in the sum for column l.                                 *)
InputIndex_output(i, l, mu, my) == i + l * my                        \* mutant
InputIndex(i, l, mu, my) == i + l * mu

MatrixGain(t, opar, u, mu, my, ny) ==
  [p \in Row(my * ny) |->
     LET j == p % my
         l == p \div my
     IN  Dot(t, mu, [i \in Row(mu) |-> opar[j + i * my]],
                    [i \in Row(mu) |-> u[InputIndex(i, l, mu, my)]])]

ScalarGain(t, gain, u) == [p \in DOMAIN u |-> Wrap(t, gain * u[p])]

(* A gain of one element is scalar.                                        *)
nat_gainblk(t, opar, u, mu, my, ny) ==
  IF DOMAIN opar = {0} THEN ScalarGain(t, opar[0], u)
  ELSE MatrixGain(t, opar, u, mu, my, ny)

(* The elements of y that a call assigns.  For a matrix nat_gainblk_i32n   *)
(* leaves its loop over the rows empty and goes on at the row after the    *)
(* last one, for the last column outside the array.                        *)
Assigned(t, opar, mu, my, ny) ==
  IF t = "i32" /\ DOMAIN opar # {0} THEN {my + l * my : l \in Row(ny)}
  ELSE IF DOMAIN opar = {0} THEN Row(ny * mu) ELSE Row(my * ny)

-----------------------------------------------------------------------------
(* nat_summation_*: one port is summed over its elements, several ports    *)
(* element by element with their signs.                                    *)
Step_signless(t, sum, sign, x) == Wrap(t, sum + x)                    \* mutant
Step(t, sum, sign, x) == Wrap(t, IF sign > 0 THEN sum + x ELSE sum - x)

Accumulated(t, n, sign, x) ==
  LET y[k \in 0 .. n] ==
        IF k = 0 THEN 0 ELSE Step(t, y[k - 1], sign[k - 1], x[k - 1])
  IN  y[n]

nat_summation(t, ipar, ports, size) ==
  IF DOMAIN ports = {0}
  THEN [p \in {0} |-> Accumulated(t, size, [j \in Row(size) |-> 1], ports[0])]
  ELSE [p \in Row(size) |-> Accumulated(t, Cardinality(DOMAIN ports), ipar,
                                        [k \in DOMAIN ports |-> ports[k][p]])]
=============================================================================
