\* One grep of a single file.
SPECIFICATION Spec
CONSTANTS
  c1 = c1
  c2 = c2
  p = p
  q = q
  s1 = s1
  s2 = s2
  s3 = s3
  Calls = {c1}
  Rules = {p, q}
  Sites = {s1, s2, s3}
  Found <- TwoRules
  Colons = {s1}
  Requests <- FileGreps
  PerPattern = 2
  MaxInline = 0
INVARIANTS EveryHitReturned
\* Requests that have been answered ask for nothing more.
CHECK_DEADLOCK FALSE
