SPECIFICATION Spec
CONSTANTS
  N = 2
  Adversary = TRUE
  Markdown = TRUE
  FailOn = "uncertain"
  Former = FALSE
  MaxRequests = 1
INVARIANTS EveryFindingCounted GateHolds AccountsAgree OutputsRight CostExact
\* A published run is over.
CHECK_DEADLOCK FALSE
