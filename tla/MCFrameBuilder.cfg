SPECIFICATION FairSpec
CONSTANTS
  Capacity = 16
  CrcLen = 1
  LenMod = 8
  Cnsts = {1, 2, 3}
  MaxTotal = 8
  Lens = {1, 2, 7}
  Streams <- MCStreams
  MaxEmpty = 2
INVARIANTS TypeOK PayloadFits LengthKept
PROPERTIES ImplementsConsumer AllFramed
CHECK_DEADLOCK FALSE
