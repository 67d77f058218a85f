CONSTANTS
  t1 = t1
  t2 = t2
  None = None
  Threads <- TwoThreads
  PageSize = 3
  BufferSize = 2
  MutablePages = 1
  Sizes = {1, 2}
  OffsetLimit = 100
  InitialTails = {5}
  MaxPage = 3
  MaxAllocs = 2
  MaxOffset = 5
  MaxFailures = 0
SPECIFICATION FairSpec
PROPERTY AllocationCompletes FoldOverCompletes
