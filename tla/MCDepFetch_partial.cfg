SPECIFICATION Spec
CONSTANTS
  a1 = a1
  a2 = a2
  r1 = r1
  Calls = {c1, c2}
  Archives = {a1}
  Repos = {}
  Parallel = 2
  NFiles <- JustOne
  MaxEntries = 2
INVARIANTS ReturnedIsWhole
\* A server whose calls have all ended may be left alone.
CHECK_DEADLOCK FALSE
