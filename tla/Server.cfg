CONSTANTS
  c1 = c1
  c2 = c2
  c3 = c3
  None = None
  Clients = {c1, c2, c3}
  Streams <- SmallStreams
  maxclients = 2
  MaxThreads = 2
  InitialRecv = 4
  MaxRecv = 13
  MaxArray = 3
  IntMax = 99
SPECIFICATION FairSpec
INVARIANTS Framing RepliesFlushed SlotsSuffice
PROPERTY BatchEnds
CHECK_DEADLOCK FALSE
