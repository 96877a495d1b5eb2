\* Any packets, of which two may be more than the ring bears.
SPECIFICATION Spec
CONSTANTS
  BufferSize = 5
  PayloadSize = 3
  MaxLength = 4
  MaxRead = 3
  Word = 32
  Cycle = 7
  MaxFaults = 2
  Junk = Junk
INVARIANT TypeOK
INVARIANT Consistent
INVARIANT InPlace
INVARIANT InStreamOrder
PROPERTY QueueUntilFault
