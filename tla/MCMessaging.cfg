CONSTANTS
  Runs = {"r1", "r2"}
  Ids <- MCIds
  Cancellable = {"r1"}
  Recoverable = {"r1"}
  MaxMessages = 3
  MaxGeneration = 1
  MaxFence = 3
  Producers = {"p1", "p2"}
  Followers = {"f"}
  Items <- MCItems
  Cursors = {0}
  PageLimit = 2
SPECIFICATION Spec
INVARIANTS
  SourceInOrder
  PublishedInsideRun
  CancelCallbackOnce
  FollowerExact
PROPERTIES
  FollowersEnd
CHECK_DEADLOCK FALSE
