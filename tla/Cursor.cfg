CONSTANTS
  N = 3
  Data = {0}
  MaxTime = 4
  Ticks = {0, 1}
  Goals = {0, 1, 2, 3, 4}
  SizeT = 64
SPECIFICATION Spec
INVARIANTS TypeOK ConsumedTells SetMissesNothingStraight SetLands SetPlaces
PROPERTIES CursorStays SetReturns
CHECK_DEADLOCK FALSE
