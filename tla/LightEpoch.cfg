CONSTANTS
  t1 = t1
  t2 = t2
  a1 = a1
  None = None
  Threads <- TwoThreads
  Actions <- OneAction
  MAX_THREADS = 2
  MaxEpoch = 2
SPECIFICATION FairSpec
INVARIANTS TypeOK NoEarlyReclaim
PROPERTY ImplementsPromise DrainAllTerminates AwaitedActionRuns
