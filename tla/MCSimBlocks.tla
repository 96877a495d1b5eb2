------------------------------ MODULE MCSimBlocks ------------------------------
(* Two blocks that share a board beside one of another board, which is     *)
(* only written to; boards numbered as they should not be; two SMCube      *)
(* blocks.                                                                 *)
EXTENDS SimBlocks

MCDiagrams ==
  {[lib |-> "flex", ids |-> <<0, 0, 1>>, reads |-> << <<2>>, <<>>, <<1>> >>],
   [lib |-> "flex", ids |-> <<1, 1, 0>>, reads |-> << <<1>>, <<>>, <<1>> >>],
   [lib |-> "smcube", ids |-> <<1, 2>>, reads |-> << <<2, 1>>, <<1>> >>]}
=============================================================================
