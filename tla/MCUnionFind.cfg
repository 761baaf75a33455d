CONSTANTS
  N = 4
  Threads = {t1, t2}
SPECIFICATION Spec
SYMMETRY Symmetry
INVARIANT ForestInvariant
PROPERTIES
  UniteTellsTheTruth
  LinksAreForGood
