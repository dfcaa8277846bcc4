SPECIFICATION MCSpec
CONSTANTS
  MaxIncidents = 4
  MaxChanges = 2
  PageSize = 2
  Zone = 1
INVARIANTS
  ListIsComplete
  PageExplainsStatus
  EveryChainIsSound
  EveryRunbookIsWhole
CHECK_DEADLOCK FALSE
