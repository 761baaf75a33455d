CONSTANTS
  MaxThreads = 3
  N = 7
  Granularity = 1
  Room = 2
SPECIFICATION FairSpec
INVARIANT SchedulerInvariant
PROPERTIES
  ReturnsAfterItsRange
  Completes
