CONSTANTS
  t1 = t1
  t2 = t2
  k1 = k1
  k2 = k2
  None = None
  Threads <- TwoThreads
  Keys <- TwoKeys
  Ops = {"read", "upsert", "incr", "take", "setnx", "delete"}
  Written = 3
  MaxLog = 3
  MaxCalls = 3
  MaxEvictions = 1
SPECIFICATION Spec
SYMMETRY Symmetry
INVARIANTS NewestIsOpen
PROPERTY Linearizable SafeIsFrozen
CHECK_DEADLOCK FALSE
