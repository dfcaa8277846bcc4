SPECIFICATION Spec
CONSTANTS
  s1 = s1
  s2 = s2
  s3 = s3
  other = other
  Prod = Prod
  Api = Api
  High = High
  Missing = Missing
  Threads = {t1, t2}
  Alerts <- MCAlerts
  FingerprintOf <- MCFingerprintOf
  LabelsOf <- MCLabelsOf
  MaxCalls = 3
  MaxMoves = 3
  MaxCrashes = 1
SYMMETRY Symmetric
INVARIANTS
  StormSplitBounded
  AnsweredIsTraceable
CHECK_DEADLOCK FALSE
