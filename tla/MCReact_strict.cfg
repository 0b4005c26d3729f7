\* A strict enforcer with no budget.
SPECIFICATION Spec
CONSTANTS
  Keys = {k1, k2, k3}
  MaxCycles = 0
  MaxTokens = 0
  Strict = TRUE
  Parallel = 2
  MaxCalls = 4
  MaxTurns = 2
  MaxContext = 0
  MaxQueue = 2
SYMMETRY KeySymmetry
INVARIANTS StrictRunsOnce ThoughtSeen
\* A session that has returned stops.
CHECK_DEADLOCK FALSE
