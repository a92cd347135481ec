CONSTANTS
  Uninit = {"ACTIVATE", "UNACTIVATE", "RUNNING", "DELAY", "ABORT", "ABORTED"}
  Periods = {1, 2}
  MaxLate = 3
  Faults = {"create", "destroy", "init", "wakeup"}
  Owner = "any"
SPECIFICATION FairSpec
INVARIANTS TypeOK TrapBlocks RunningMeansAlive AliveMeansRunning AtMostOneLateJob
PROPERTIES DisableStops JobsGoOn
CHECK_DEADLOCK FALSE
