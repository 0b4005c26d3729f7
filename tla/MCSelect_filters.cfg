\* Reports of up to three entries, each set of flags, each feed.
SPECIFICATION Spec
CONSTANTS
  EntriesOf <- FewEntries
  Cves <- Two
  Rows <- FeedRows
  Options <- AllOptions
  MaxReport = 3
  MaxScore = 3
INVARIANTS TypeOK EvidencePaired NoWastedSession OncePerCve BestAreAnalyzed AlertsStandOut
\* The pipeline stops when the findings are chosen or the run is given up.
CHECK_DEADLOCK FALSE
