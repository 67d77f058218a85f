CONSTANTS
  t1 = t1
  t2 = t2
  k1 = k1
  k2 = k2
  None = None
  Threads <- TwoThreads
  Keys <- OneKey
  Ops = {"incr"}
  Written = 3
  MaxLog = 3
  MaxCalls = 3
  MaxEvictions = 2
SPECIFICATION Spec
PROPERTY Linearizable
CHECK_DEADLOCK FALSE
