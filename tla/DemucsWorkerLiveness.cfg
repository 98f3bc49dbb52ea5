CONSTANTS
  j1 = j1
  j2 = j2
  t1 = t1
  t2 = t2
  None = None
  Jobs <- OneJob
  Threads <- TwoThreads
  Devices <- AnyDevice
SPECIFICATION FairSpec
CHECK_DEADLOCK FALSE
PROPERTY SeparationEnds
