CONSTANTS
  Executions = {"a", "b", "c"}
  Scopes = {"task"}
  ScopeOf <- MCScopeOf
  MaxConcurrentRuns <- MCMaxConcurrentRuns
  MaxQueuedRuns <- MCMaxQueuedRuns
  WorkItemId <- MCWorkItemId
  GlobalConcurrency = 2
  ScanLimit = 2
  Outcomes = {"succeeded"}
  LeaseDuration = 2
  QueueTimeout = 1
  ExecutionTimeout = 1
  MaxTime = 2
  MaxFence = 2
SPECIFICATION StoreSpec
INVARIANTS
  TypeOK
  AllocationExact
  WithinConcurrency
  WithinQueue
  WorkMatchesStatus
  StartedOnce
  AdmissionMatchesStatus
PROPERTIES
  SettledIsFinal
  LapsedClaimNeverRevives
CHECK_DEADLOCK FALSE
