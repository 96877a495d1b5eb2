\* A full ring takes a packet.
SPECIFICATION Spec
CONSTANTS
  BufferSize = 5
  PayloadSize = 3
  MaxLength = 4
  MaxRead = 3
  Word = 32
  Cycle = 7
  MaxFaults = 1
  Junk = Junk
PROPERTY OverridesOldest
