CONSTANTS
  Tasks = {1}
  Workers = {u, v}
  Clients = {c}
  Schedules <- Recurring
  Commands = {"create", "update", "reschedule", "pause", "enable", "delete", "run_now"}
  RequestIds = TRUE
  CatchUp = TRUE
  MaxQueuedRuns = 2
  RetryDelay = 1
  MaxTime = 3
  MaxCommands = 3
  FaultKinds = {"store"}
  MaxFaults = 1
SPECIFICATION Spec
SYMMETRY Symmetry
INVARIANTS
  NextRunInSchedule
PROPERTIES
  StaleWakeupCreatesNothing
  NoPausedCatchUp
CHECK_DEADLOCK FALSE
