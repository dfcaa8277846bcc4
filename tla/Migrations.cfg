SPECIFICATION MigrateSpec
CONSTANT MaxDeaths = 3
INVARIANTS
  RecordedIsBuilt
  FailsOnlyIfTorn
