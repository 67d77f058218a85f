CONSTANTS
  s1 = s1
  s2 = s2
  a = a
  b = b
  None = None
  Sessions = {s1, s2}
  Keys = {a, b}
  Commands <- SmallCommands
  Slots = {1, 2}
  SlotOf <- SmallSlotOf
  MaxQueue = 2
  MaxCalls = 3
SPECIFICATION FairSpec
INVARIANTS WatchedWriteAborts ReplayReproducesStore
PROPERTY Serializable CommandsAnswered
CHECK_DEADLOCK FALSE
