\* Two calls, in flight together or not; one archive is over the budget.
SPECIFICATION FairSpec
CONSTANTS
  a1 = a1
  a2 = a2
  r1 = r1
  Calls = {c1, c2}
  Archives = {a1, a2}
  Repos = {r1}
  Parallel = 2
  NFiles <- TwoEach
  MaxEntries = 2
INVARIANTS PathStaysWhole SearchSeesWhole
PROPERTIES CallsEnd
\* A server whose calls have all ended may be left alone.
CHECK_DEADLOCK FALSE
