CONSTANTS
  B = 2
  Layers = 2
  n = 3
  Max = 3
  Threads = {t1, t2}
SPECIFICATION Spec
INVARIANTS
  MapInvariant
  ExtractsTheMinima
PROPERTY TakesPrefixMinima
