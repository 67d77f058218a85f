CONSTANTS
  t1 = t1
  t2 = t2
  None = None
  Threads <- TwoThreads
  PageSize = 3
  BufferSize = 2
  MutablePages = 1
  Sizes = {1, 2}
  OffsetLimit = 100
  InitialTails = {1}
  MaxPage = 3
  MaxAllocs = 3
  MaxOffset = 5
  MaxFailures = 1
SPECIFICATION Spec
SYMMETRY Symmetry
INVARIANTS WatermarkOrder PointerValid FlushedIsFinal TailCoversRecords
PROPERTY AllocationIsFresh
CHECK_DEADLOCK FALSE
