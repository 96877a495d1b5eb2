SPECIFICATION SerialSpec
CONSTANT Byte = {0, 1, 2, 3}
CONSTANT Start = 3
CONSTANT Xor <- MCXor
CONSTANT FLOATS = 1
CONSTANT Clients = {1, 2, 3}
CONSTANT Ports = {1, 2, 3}
CONSTANT Script <- MCScript
CONSTANT Datagrams <- MCDatagrams
CONSTANT Budget = 2
INVARIANT SerialToUdp
INVARIANT UdpToSerial
INVARIANT NothingLeaks
PROPERTY ThreadFollows
CHECK_DEADLOCK FALSE
