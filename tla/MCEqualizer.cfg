SPECIFICATION EqSpec
CONSTANTS
  Lut <- MCLut
  NumMcs = 3
  Hysteresis = 1
  DecisionTh = 3
  InitialMcs = 1
  Snrs <- MCSnrs
  HeaderLen = 96
  FrameMod = 3
  Cnsts = {1, 4}
  MaxMissed = 4
INVARIANTS TypeOK EqTypeOK CounterBacked Responsive LostCounted  HeaderTrusted
PROPERTIES SwitchBacked Convergence
