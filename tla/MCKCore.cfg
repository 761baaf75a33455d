CONSTANTS
  Vertices = {0, 1, 2, 3, 4, 5, 6}
  Graphs <- ManyGraphs
  W = 2
  sample_threshold = 2
  EmptyRounds = {0, 1}
  Width = 3
SPECIFICATION Spec
INVARIANTS
  FindsCoreness
  KCoreInvariant
PROPERTY
  KRises
