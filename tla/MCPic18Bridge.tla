--------------------------- MODULE MCPic18Bridge ---------------------------
(* Three packets in each direction: one in each place that may hold one.   *)
EXTENDS Pic18Bridge
=============================================================================
