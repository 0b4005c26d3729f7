\* The enforcer as the command line configures it, both limits set, events
\* delivered late and two calls in flight.
SPECIFICATION FairSpec
CONSTANTS
  Keys = {k1}
  MaxCycles = 2
  MaxTokens = 2
  Strict = FALSE
  Parallel = 2
  MaxCalls = 4
  MaxTurns = 1
  MaxContext = 2
  MaxQueue = 2
INVARIANTS CallsBounded ToldBeforeRefused UsageExact
PROPERTIES NoCallAfterTold TokenStop BudgetKept SpentIsTold
\* A session that has returned stops.
CHECK_DEADLOCK FALSE
