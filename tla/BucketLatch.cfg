CONSTANTS
  t1 = t1
  t2 = t2
  Threads <- TwoThreads
  Buckets = {1, 2}
  MaxShared = 1
  MaxCalls = 2
SPECIFICATION FairSpec
INVARIANTS MutualExclusion UnlockAsserts
PROPERTY LinkKept EveryoneGetsIn
CHECK_DEADLOCK FALSE
