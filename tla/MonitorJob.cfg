CONSTANTS
  N = 3
  Data = {0, 1, 2}
  MaxTime = 5
  Ticks = {0, 1, 2}
  Goals = {}
  SizeT = 64
  Monitors <- MCMonitors
  MaxLog = 5
SPECIFICATION MSpec
PROPERTIES Sound Exact Final
CHECK_DEADLOCK FALSE
