SPECIFICATION Spec
CONSTANTS
  Writers = {w1, w2}
  Operators = {op1, op2}
  MaxRows = 3
  MaxAttacks = 1
  MaxCrashes = 1
SYMMETRY Symmetric
INVARIANTS
  TamperDetected
  ForkNeedsRace
  TimelineExplainsStatus
PROPERTY DamageShows
CHECK_DEADLOCK FALSE
