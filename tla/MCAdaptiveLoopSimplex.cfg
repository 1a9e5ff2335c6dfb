SPECIFICATION LoopFairSpec
CONSTANTS
  Lut <- MCLut
  NumMcs = 3
  Hysteresis = 1
  DecisionTh = 2
  InitialMcs = 1
  Snrs <- MCSnrs
  Mcs <- MCMcs
  Links = {"coded", "plain"}
  Modes = {"simplex"}
  QueueMax = 1
  AirMax = 1
  MaxRestarts = 0
PROPERTY Adapted
