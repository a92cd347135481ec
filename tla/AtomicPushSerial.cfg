CONSTANTS
  Writers = {w1, w2}
  Global = global
  N = 2
  Data = {0, 1}
  MaxTime = 1
  Ticks = {0, 1}
  CallerTime = {0}
  CounterMod = 16
  Overlap = FALSE
  MaxPush = 4
SPECIFICATION FairSpec
INVARIANTS TypeOK SerialInv
PROPERTIES ImplementsDeque FixedSteps PublishedStateIsolated PushCompletes
CHECK_DEADLOCK FALSE
