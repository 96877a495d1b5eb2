SPECIFICATION FairSpec
CONSTANT EP0_BUFF_SIZE = 2
CONSTANT Descriptors <- MCDescriptors
CONSTANT Unsupported = {"qualifier"}
CONSTANT Registers <- MCRegisters
CONSTANT Address = 1
CONSTANT Lengths <- MCLengths
CONSTANT Budget = 2
INVARIANT TypeOK
INVARIANT TransferIntact
INVARIANT HostAgrees
PROPERTY WakesUp
PROPERTY TransferEnds
