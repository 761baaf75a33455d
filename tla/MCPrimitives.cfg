CONSTANTS
  Nodes = {1, 2, 3}
  None = None
  Degrees <- ManyDegrees
  Capacity = 3
  MaxFound = 3
  start = 2
  Sequential = 3
  BlockSize = 2
  W = 2
  MaxBlocks = 3
  Grain = 1
  SortInto = 3
  ManyBuckets = 2
  ShuffleBlocks = 4
  copies = 2
  block = 2
  num_workers = 2
  AnyVertex = 1
SPECIFICATION AllSpec
INVARIANTS
  ReturnsInOrder
  RearrangesInput
  RowsAreRight
  QueueInvariant
PROPERTY ImplementsWorklist
