CONSTANTS
  c1 = c1
  c2 = c2
  Sessions <- TwoSessions
  Modes = {"always", "interval", "never"}
  CommitWaits = {TRUE, FALSE}
  MaxCalls = 3
  MaxSaves = 2
  MaxCrashes = 2
SPECIFICATION FairSpec
INVARIANT SavedSurvives
PROPERTY  EveryWriteAnswered
CHECK_DEADLOCK FALSE
