CONSTANTS
  Writers = {w1, w2}
  Global = global
  N = 1
  Data = {0, 1}
  MaxTime = 1
  Ticks = {0, 1}
  CallerTime = {}
  CounterMod = 16
  Overlap = TRUE
  MaxPush = 4
SPECIFICATION FairSpec
PROPERTIES OwnStateIsolated NoABA
CHECK_DEADLOCK FALSE
