CONSTANTS
  B = 2
  Layers = 3
  n = 7
  Threads = {s1, s2, s3}
  Phases = {"insert", "remove", "for_each", "consume_each", "for_each_remove",
            "for_range", "consume_range"}
SPECIFICATION Spec
SYMMETRY Symmetry
INVARIANTS
  SetInvariant
  QueriesAreExact
PROPERTY ImplementsSet
