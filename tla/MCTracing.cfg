CONSTANTS
  Threads = {"t"}
  Runs = {"r1", "r2"}
  ThreadOf <- MCThreadOf
  Tokens = {"s1", "s2"}
  SizeOf <- MCSizeOf
  MaxTracerThreads = 1
  MaxTracerBytes = 10
  MaxThreadEvents = 5
  MaxThreadBytes = 10
  MaxEventBytes = 2
  TerminalReserveEvents = 2
  TerminalReserveBytes = 4
  MaxGeneration = 2
  Opens <- MCOpens
  Queried = {"s1"}
  MaxFacts <- MCMaxFacts
  Submissions = {1}
  MaxBatchEvents = 2
  MaxPendingEvents = 2
  MaxFaults = 1
SPECIFICATION Spec
INVARIANTS
  AcceptedOnceInOrder
  RunEndsOnce
  WithinLimits
  EndsHaveRoom
  SnapshotsAreCurrent
PROPERTIES
  CallsReturn
CHECK_DEADLOCK FALSE
