CONSTANTS
  j1 = j1
  j2 = j2
  t1 = t1
  None = None
  Jobs <- TwoJobs
  Splits <- FirstSplits
  Library <- OneTrack
  MaxAttempts = 1
  MaxTrouble = 2
  Submissions <- SomeSubmissions
SPECIFICATION Spec
INVARIANTS
  SplitAskedOnce
PROPERTIES
  YieldedNeverTakesStudio
  ListeningEnds
CHECK_DEADLOCK FALSE
