CONSTANTS
  Runs = {"r1", "r2"}
  Ids = {1, 2}
  Cancellable = {"r1"}
  Recoverable = {"r1"}
  MaxMessages = 2
  MaxGeneration = 2
  MaxFence = 4
SPECIFICATION LedgerSpec
INVARIANTS
  LedgerTypeOK
  OneLiveRun
  RunWindows
PROPERTIES
  PromisedLog
  OwnershipNeverReturns
CHECK_DEADLOCK FALSE
