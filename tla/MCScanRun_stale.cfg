SPECIFICATION Spec
CONSTANTS
  N = 1
  Adversary = FALSE
  Markdown = FALSE
  FailOn = ""
  Former = TRUE
  MaxRequests = 1
INVARIANTS OutputOfThisRun
\* A published run is over.
CHECK_DEADLOCK FALSE
