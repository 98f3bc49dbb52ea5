CONSTANTS
  NoFrame = NoFrame
  Clients = {c1, c2}
  MaxSlots = 1
  MaxWrites = 2
  MaxAside = 1
SPECIFICATION StreamFairSpec
CHECK_DEADLOCK FALSE
INVARIANTS
  SlotsCounted
  ShowsTheJob
  LastFrameIsWhole
PROPERTIES
  FrameIsExact
  ChangeReachesClient
  SlotComesBack
