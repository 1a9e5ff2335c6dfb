SPECIFICATION LinkFairSpec
CONSTANTS
  Capacity = 16
  Codes <- MCCodes
  CrcLen = 1
  TbMod = 256
  MaxTotal = 6
  Lens = {1, 3}
  Streams <- MCStreams
  Cnsts = {1, 2, 3}
  Outputs = {16}
  MaxEmpty <- MCNoLimit
  WholePdus = TRUE
  MaxHits = 0
PROPERTIES AllDelivered
