CONSTANTS
  Modulus = 4
  Capacity = 3
  MaxDepth = 3
  Thieves = {t1, t2}
  Owner = w0
SPECIFICATION DequeFairSpec
INVARIANTS
  DequeInvariant
  StealsAreExclusive
PROPERTIES
  ImplementsForkJoin
  JobsGetDone
