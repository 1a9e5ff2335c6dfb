SPECIFICATION Spec
CONSTANTS
  Lut <- MCLut
  NumMcs = 4
  Hysteresis = 1
  DecisionTh = 5
  InitialMcs = 0
  Snrs <- MCSnrsLow
INVARIANT InTable
CHECK_DEADLOCK FALSE
