CONSTANTS
  Writers = {w1}
  Global = global
  N = 3
  Data = {0, 1, 2, 3, 4, 5, 6, 7, 8}
  MaxTime = 8
  Ticks = {1}
  CallerTime = {}
  CounterMod = 16
  Overlap = FALSE
  MaxPush = 8
  Interleaving = "any"
SPECIFICATION RSpec
INVARIANT RTypeOK
PROPERTIES PullsInOrder SkipsReported
CHECK_DEADLOCK FALSE
