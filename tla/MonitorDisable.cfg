CONSTANTS
  Uninit = {"UNACTIVATE", "RUNNING", "DELAY", "ABORT", "ABORTED"}
  Periods = {1, 2}
  MaxLate = 3
  Faults = {}
  Owner = "tests"
SPECIFICATION FairSpec
PROPERTY DisableEnds
CHECK_DEADLOCK FALSE
