-------------------------- MODULE MCSerialUdpGateway --------------------------
(* Bytes of two bits and packets of three.  The board's stream is two      *)
(* packets, and another one if it is cut after its first byte or its       *)
(* second: start bytes are in the payload and the checksum of the first.   *)
EXTENDS SerialUdpGateway

MCXor(a, b) == LET bit(x, k) == (x \div k) % 2
                   add(k)    == (bit(a, k) + bit(b, k)) % 2
               IN  add(1) + 2 * add(2)
MCScript    == <<3, 3, 3, 3, 1, 1>>
MCDatagrams == {<<<<1, 0>>, <<1, 1>>>>}
=============================================================================
