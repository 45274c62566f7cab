CONSTANTS
  Executions = {"a", "b"}
  Scopes = {"task"}
  ScopeOf <- MCScopeOf
  MaxConcurrentRuns <- MCMaxConcurrentRuns
  MaxQueuedRuns <- MCMaxQueuedRuns
  WorkItemId <- MCWorkItemId
  GlobalConcurrency = 1
  ScanLimit = 4
  Outcomes = {"succeeded", "failed", "timed_out", "cancelled"}
  LeaseDuration = 2
  QueueTimeout = 3
  ExecutionTimeout = 1
  MaxTime = 2
  MaxFence = 4
  Workers = {u, v}
  Unregistered = {}
  FinalCancel = {"b"}
  OnInterrupt = TRUE
  Shutdown = TRUE
  LastEnqueue = 0
  LastRenewal = 2
  MaxFaults = 1
SPECIFICATION EngineSpec
SYMMETRY Symmetry
INVARIANTS
  InvokedOnce
  UnconfirmedReserved
  OneHolder
PROPERTIES
  StoreSpec
CHECK_DEADLOCK FALSE
