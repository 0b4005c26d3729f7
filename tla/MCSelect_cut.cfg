SPECIFICATION Spec
CONSTANTS
  EntriesOf <- FewEntries
  Cves <- Two
  Rows <- FeedRows
  Options <- GateOptions
  MaxReport = 2
  MaxScore = 3
INVARIANTS UnmatchedAreKept
\* The pipeline stops when the findings are chosen or the run is given up.
CHECK_DEADLOCK FALSE
