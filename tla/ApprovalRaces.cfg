SPECIFICATION Spec
CONSTANTS
  Requests = {r1, r2}
  Workers = {w1, w2}
  LastTarget = 0
  TimeoutTicks = 1
  NotifierFails = FALSE
  ButtonsFail = TRUE
  HasRunner = TRUE
  MaxCalls = 3
  MaxCrashes = 1
SYMMETRY Symmetric
INVARIANTS
  DecidedOnce
  ExecutedWasGranted
PROPERTY MeetsContract
