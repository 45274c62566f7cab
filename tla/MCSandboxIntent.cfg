CONSTANTS
  a = a
  b = b
  Managers = {a, b}
  Asked <- PausedByOther
  MaxSequence <- PausedTwice
  MaxLosses = 1
  MaxLapses = 2
SPECIFICATION Spec
INVARIANTS
  NoLateRequest
  PhaseIsRemote
CHECK_DEADLOCK FALSE
