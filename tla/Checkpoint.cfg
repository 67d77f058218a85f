CONSTANTS
  t1 = t1
  t2 = t2
  k1 = k1
  s1 = s1
  None = None
  Threads <- TwoThreads
  Keys <- OneKey
  Savers <- OneSaver
  Ops = {"read", "incr", "delete"}
  Written = 3
  MaxLog = 3
  MaxCalls = 3
  MaxEvictions = 0
  MaxVersion = 2
SPECIFICATION FairSpec
INVARIANTS RecoversPrefix
PROPERTY LinearizableUntilCrash CheckpointCompletes
CHECK_DEADLOCK FALSE
