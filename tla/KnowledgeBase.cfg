SPECIFICATION Spec
CONSTANTS
  i1 = i1
  Threads = {t1, t2}
  RunbookFiles <- MCRunbookFiles
  StemOf <- MCStemOf
  Incidents <- MCIncidents
  Texts = {x1, x2}
  TopK = 1
  MaxCalls = 3
  MaxEdits = 1
  MaxDrafts = 2
  MaxCrashes = 1
SYMMETRY Symmetric
INVARIANTS
  CopiesBounded
  PassIsExact
  FinalizedIsSearchable
  ReturnedIsCommitted
CHECK_DEADLOCK FALSE
