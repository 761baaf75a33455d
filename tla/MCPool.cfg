CONSTANTS
  Workers = {w1, w2}
  Arrays = {a1, a2, a3}
  Blocks = {p1, p2, p3, p4}
  MaxBytes = 4
  Threshold1 = 1
  Threshold2 = 2
  null = null
  UserData = UserData
SPECIFICATION PoolSpec
SYMMETRY Symmetry
INVARIANTS
  PoolInvariant
  EverythingIsReturned
CHECK_DEADLOCK FALSE
