SPECIFICATION FairSpec
CONSTANTS
  i1 = i1
  i2 = i2
  r1 = r1
  r2 = r2
  Runs = {r1, r2}
  Incidents <- MCIncidents
  IncidentOf <- MCIncidentOf
  LastProvider = 2
  threshold = 2
  PoolSize = 1
  max_calls = 2
  max_tokens = 2
  Costs = {0, 2}
  Replies <- MCReplies
  Answers <- MCAnswers
  Degraded <- MCDegraded
  Shadow = TRUE
  MaxCooldowns = 1
INVARIANTS
  OverspendBounded
  ClosedStopsTriage
  EndIsRecorded
  SavedMeetsContract
PROPERTY RunsEnd
CHECK_DEADLOCK FALSE
