CONSTANTS
  Writers = {w1, w2}
  Global = global
  N = 2
  Data = {0, 1}
  MaxTime = 1
  Ticks = {0, 1}
  CallerTime = {}
  CounterMod = 16
  Overlap = TRUE
  MaxPush = 2
SPECIFICATION FairSpec
PROPERTY PushCompletes
CHECK_DEADLOCK FALSE
