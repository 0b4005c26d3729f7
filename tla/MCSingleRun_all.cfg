\* The stricter policy, over the files of a former run.
SPECIFICATION FairSpec
CONSTANTS
  Adversary = TRUE
  FailOn = "uncertain"
  Former = TRUE
INVARIANTS RouteMatchesAnswer RouteKept EvidenceBacked GateHolds AccountsAgree NothingLeftRunning AllReadable
PROPERTIES RunEnds LifecycleSpec
\* A published run is over.
CHECK_DEADLOCK FALSE
