SPECIFICATION Spec
CONSTANTS
  FrameLen = 5
  Tolerance = 3
  SyncedTh = 2
  MaxMissing = 3
  ResetAfter = 3
  Windows <- MCWindows
  MaxRemainder = 14
INVARIANTS TypeOK RemainderTrue FreewheelBounded
PROPERTIES GapBounded
