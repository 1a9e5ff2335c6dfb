SPECIFICATION PhyFairSpec
CONSTANTS
  MaxTotal = 17
  Lens = {4, 5, 9}
  Streams <- MCStreams
  Payloads = {4, 8}
  Addrs = 2
  Hdr = 3
  LenEnd = 4
  Misread = {3, 5, 8}
  Room = {1, 2, 5, 9}
  Links = {"coded", "plain"}
  MaxHits = 2
INVARIANTS TypeOK RemainInSync AdvanceIsLoop PhyTypeOK IntactRebuilt NoneHeldBack
PROPERTIES NoMixing CutOnlyJumbo NextReleases
CHECK_DEADLOCK FALSE
