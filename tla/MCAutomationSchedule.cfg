CONSTANTS
  Schedules <- MCSchedules
  Policies <- MCPolicies
  DayLength = 3
  SearchDays = 6
  MaxScan = 5
  Horizon = 28
  MaxTime = 8
SPECIFICATION Spec
INVARIANTS
  NextRunIsFirst
PROPERTIES
  LateRuns
CHECK_DEADLOCK FALSE
