CONSTANTS
  a = a
  b = b
  Managers = {a, b}
  Asked <- Everything
  MaxSequence <- RecreatedPaused
  MaxLosses = 0
  MaxLapses = 0
SPECIFICATION Spec
INVARIANTS
  PausedWhenQuiet
CHECK_DEADLOCK FALSE
