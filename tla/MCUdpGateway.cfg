SPECIFICATION Spec
CONSTANT Channels = 2
CONSTANT Packets = 3
CONSTANT Room = 2
PROPERTY PacketsUp
PROPERTY DatagramsDown
CHECK_DEADLOCK FALSE
