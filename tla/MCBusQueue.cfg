SPECIFICATION FairSpec
CONSTANTS
  a = a
  b = b
  r1 = r1
  r2 = r2
  r3 = r3
  Channels = {a, b}
  Readers = {r1, r2, r3}
  Home <- MCHome
  QueueSize = 3
  Cycle = 4
  NoMsg = NoMsg
INVARIANT NewestInOrder
INVARIANT NoStrandedReader
PROPERTY DropsOldest
PROPERTY ReaderServed
