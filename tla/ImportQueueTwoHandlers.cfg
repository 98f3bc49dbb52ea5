CONSTANTS
  u1 = u1
  l1 = l1
  t1 = t1
  t2 = t2
  None = None
  Jobs <- TwoJobs
  Uploads <- OneUpload
  Threads <- TwoThreads
  MaxPending = 1
  Stages = 2
SYMMETRY Symmetry
SPECIFICATION Spec
INVARIANTS
  NoLimbo
  IInv
  CancelledFreesItsFiles
PROPERTIES
  TerminalIsFinal
  ImplementsLifecycle
