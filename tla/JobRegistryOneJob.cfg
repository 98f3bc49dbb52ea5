CONSTANTS
  u1 = u1
  l1 = l1
  t1 = t1
  t2 = t2
  s1 = s1
  s2 = s2
  None = None
  Jobs <- TheUpload
  Uploads <- TheUpload
  Untitled <- Nobody
  Stems <- TwoStems
  Threads <- TwoThreads
  AutoDelete = TRUE
  MaxResume = 1
  MaxCrashes = 3
SPECIFICATION Spec
CHECK_DEADLOCK FALSE
INVARIANTS
  DeletedStaysDeleted
  FinishedSurvives
  WaitingUploadHasItsFile
  NoCrashLoop
