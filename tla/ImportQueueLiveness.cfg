CONSTANTS
  u1 = u1
  l1 = l1
  t1 = t1
  t2 = t2
  None = None
  Jobs <- TwoJobs
  Uploads <- OneUpload
  Threads <- OneThread
  MaxPending = 1
  Stages = 1
SPECIFICATION FairSpec
PROPERTIES
  EveryJobGetsItsTurn
  CancelIsAnswered
