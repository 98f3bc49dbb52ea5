CONSTANTS
  j1 = j1
  j2 = j2
  t1 = t1
  t2 = t2
  None = None
  Jobs <- TwoJobs
  Threads <- OneThread
  Devices <- AnyDevice
SPECIFICATION Spec
CHECK_DEADLOCK FALSE
SYMMETRY Symmetry
INVARIANTS
  IInv
  OkMeansSeparated
  NoStaleRegistration
  BystanderSurvives
