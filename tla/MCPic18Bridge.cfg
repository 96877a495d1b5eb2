\* Sessions opened, closed and abandoned; packets both ways.
SPECIFICATION FairSpec
CONSTANT MaxPackets = 3
INVARIANT DownExact
INVARIANT UpInOrder
INVARIANT OnlySound
INVARIANT ClosedBridgeFree
PROPERTY DownDelivered
