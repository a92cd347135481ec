CONSTANTS
  Writers = {w1, w2}
  Global = global
  N = 1
  Data = {0, 1}
  MaxTime = 1
  Ticks = {0, 1}
  CallerTime = {}
  CounterMod = 1
  Overlap = TRUE
  MaxPush = 4
SPECIFICATION Spec
PROPERTY NoABA
CHECK_DEADLOCK FALSE
