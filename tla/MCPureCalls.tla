------------------------------ MODULE MCPureCalls ------------------------------
(* The ends of each type's range and a value between; widths that leave    *)
(* TLC's integers room for the exact results.                              *)
EXTENDS PureCalls

MCHalf == [i8 |-> 2^7, i16 |-> 2^11, i32 |-> 2^13]
MCValues(t) == {-Half[t], 3, Half[t] - 1}
MCArguments ==
  { <<"x", "=", "y">>, <<"y", "x", "=", "x", ",", "x", "y">>, <<"x", "=", ",", "y", ",", "x">>,
    <<"=", "y">>, <<"x", "=", "y", ",">>, <<"x", "=">>, <<"x", ",">>,
    <<"x", "y">>, <<"y", "=", "x", "=", "y">>, <<"x", "_", "=", "y">>, <<>> }
=============================================================================
