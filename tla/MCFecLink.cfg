SPECIFICATION LinkSpec
CONSTANTS
  Capacity = 17
  Codes <- MCOneCode
  CrcLen = 1
  TbMod = 4
  MaxTotal = 8
  Lens = {1, 6}
  Streams <- MCStreams
  Cnsts = {1, 3}
  Outputs = {1, 3}
  MaxEmpty <- MCNoLimit
  WholePdus = TRUE
  MaxHits = 2
INVARIANTS LinkTypeOK FramesIntact NeverThrows LossContained
PROPERTIES ImplementsDelivery
