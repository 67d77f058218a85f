CONSTANTS
  Nil = Nil
  Operands <- SmallOperands
  Deltas <- SmallDeltas
  Times = {0, 1}
  SetOptions <- SmallOptions
  I64Max = 99
  MaxLen = 2
  MaxTime = 2
SPECIFICATION StringSpec
INVARIANTS RegionIndependent ValueFits ReplayAgrees
CHECK_DEADLOCK FALSE
