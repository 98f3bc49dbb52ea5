CONSTANTS
  u1 = u1
  l1 = l1
  t1 = t1
  t2 = t2
  s1 = s1
  s2 = s2
  None = None
  Jobs <- Both
  Uploads <- TheUpload
  Untitled <- TheLink
  Stems <- OneStem
  Threads <- OneThread
  AutoDelete = FALSE
  MaxResume = 1
  MaxCrashes = 1
SPECIFICATION Spec
CHECK_DEADLOCK FALSE
INVARIANTS
  IInv
  AcceptedNotLost
PROPERTY FileKeepsFinished
