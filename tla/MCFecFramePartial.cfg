SPECIFICATION Spec
CONSTANTS
  Capacity = 16
  Codes <- MCCodes
  CrcLen = 1
  TbMod = 256
  MaxTotal = 5
  Lens = {1, 3}
  Streams <- MCStreams
  Cnsts = {1, 2}
  Outputs = {1, 2}
  MaxEmpty = 2
  WholePdus = FALSE
INVARIANT FramesIntact
CHECK_DEADLOCK FALSE
