SPECIFICATION Spec
CONSTANTS
  scale = scale
  rescale = rescale
  look = look
  forged = forged
  Threads = {t1, t2}
  NoThread = NoThread
  Reports <- MCReports
  Validated <- MCValidated
  Risks <- MCRisks
  Unpreviewed <- MCUnpreviewed
  KeyOf <- MCKeyOf
  AuditFails = TRUE
  MaxCalls = 3
  MaxCrashes = 1
SYMMETRY Symmetric
INVARIANTS
  FailureStops
  ActsAuthorised
PROPERTY MeetsContract
CHECK_DEADLOCK FALSE
