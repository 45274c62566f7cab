CONSTANTS
  Executions = {"a"}
  Scopes = {"task"}
  ScopeOf <- MCScopeOf
  MaxConcurrentRuns <- MCMaxConcurrentRuns
  MaxQueuedRuns <- MCMaxQueuedRuns
  WorkItemId <- MCWorkItemId
  GlobalConcurrency = 1
  ScanLimit = 4
  Outcomes = {"succeeded", "failed", "timed_out", "cancelled"}
  LeaseDuration = 2
  QueueTimeout = 2
  ExecutionTimeout = 1
  MaxTime = 5
  MaxFence = 4
  Workers = {u, v}
  Unregistered = {}
  FinalCancel = {}
  OnInterrupt = TRUE
  Shutdown = FALSE
  LastEnqueue = 0
  LastRenewal = 3
  MaxFaults = 2
SPECIFICATION FairEngineSpec
PROPERTIES
  EverythingSettles
CHECK_DEADLOCK FALSE
