SPECIFICATION Spec
CONSTANTS
  u = u
  v1 = v1
  NoUrl = NoUrl
  UrlOf <- SameAddress
  Word = 16
  BatchSize = 2
  MaxHour = 2
  MaxRuns = 3
CHECK_DEADLOCK FALSE
INVARIANTS NothingMissed DamageOnlyAfterKill VectorsAreStories WaitsOnlyIf
CONSTRAINT StuckIsStuck
