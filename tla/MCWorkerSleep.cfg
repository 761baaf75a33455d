CONSTANTS
  NumThreads = 4
  MaxJobs = 2
SPECIFICATION SleepFairSpec
INVARIANT SleepInvariant
PROPERTIES
  WakeUpsReachSleepers
  ShutdownCompletes
