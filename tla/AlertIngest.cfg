SPECIFICATION FairSpec
CONSTANTS
  n1 = n1
  n2 = n2
  f1 = f1
  f2 = f2
  Notifications <- MCNotifications
  Alerts <- MCAlerts
  Fingerprints <- MCFingerprints
  maxEntries = 1
  MaxCalls = 9
  MaxFailures = 1
  MaxCrashes = 1
INVARIANTS
  TriagedOnce
  UntriagedOnlyAfterDeath
PROPERTY EventuallyAcked
CHECK_DEADLOCK FALSE
