SPECIFICATION FairSpec
CONSTANTS
  MaxUpdates = 4
  Callbacks <- MCCallbacks
  Verb <- MCVerb
  RequestId <- MCRequestId
  Reason <- MCReason
  maxPending = 2
  Wired = FALSE
  MaxFailures = 4
  MaxCrashes = 1
INVARIANTS
  NothingVanishesUnseen
  QueueInOrder
  TwiceOnlyIfUnsure
PROPERTY PressArrives
