CONSTANTS
  Writers = {w1}
  Global = global
  N = 2
  Data = {0, 1, 2, 3, 4, 5, 6}
  MaxTime = 6
  Ticks = {1}
  CallerTime = {}
  CounterMod = 16
  Overlap = FALSE
  MaxPush = 6
  Interleaving = "calls"
SPECIFICATION RSpec
PROPERTY EverySkipReported
CHECK_DEADLOCK FALSE
