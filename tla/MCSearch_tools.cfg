\* Two requests for the same rule, by any tools and with any limits.
SPECIFICATION FairSpec
CONSTANTS
  c1 = c1
  c2 = c2
  p = p
  q = q
  s1 = s1
  s2 = s2
  s3 = s3
  Calls = {c1, c2}
  Rules = {p, q}
  Sites = {s1, s2, s3}
  Found <- TwoRules
  Colons = {s1}
  Requests <- AllTools
  PerPattern = 2
  MaxInline = 2
INVARIANTS NothingLostUntold
PROPERTIES CallsEnd
\* Requests that have been answered ask for nothing more.
CHECK_DEADLOCK FALSE
