\* Three findings that share two ids, two workers, every lookup may fail.
SPECIFICATION FairSpec
CONSTANTS
  a = a
  b = b
  Ids = {a, b}
  IdsOf <- SharedIds
  WantVector = TRUE
  Workers = 2
  Reported <- SomeReports
  MaxScore = 1
INVARIANTS AsSequential ChangedIsCounted ScoredIsRated
PROPERTIES NeverOverridden EnrichmentReturns
\* An enrichment that has returned stops.
CHECK_DEADLOCK FALSE
