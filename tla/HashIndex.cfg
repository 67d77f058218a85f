CONSTANTS
  t1 = t1
  t2 = t2
  t3 = t3
  g1 = g1
  g2 = g2
  None = None
  Threads <- ThreeThreads
  Tags <- TwoTags
  EntriesPerBucket = 2
  ArenaLen = 1
SPECIFICATION Spec
SYMMETRY Symmetry
INVARIANTS UniqueTag SameEntry NoMissedTag
