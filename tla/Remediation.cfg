SPECIFICATION RSpec
CONSTANTS
  r1 = r1
  r2 = r2
  First = r1
  Second = r2
  Requests <- MCRequests
  Workers = {w1}
  LastTarget = 1
  TimeoutTicks = 1
  NotifierFails = TRUE
  ButtonsFail = TRUE
  HasRunner = TRUE
  MaxCalls = 2
  MaxCrashes = 1
  Steps = 1
  Unpreviewed = {1}
INVARIANTS
  TableMatchesMemory
  EveryActIsPaidFor
PROPERTY UnansweredIsClosed
