CONSTANTS
  Unlooped = Unlooped
  full = full
  split = split
  MaxMounts = 2
  Modes = {"streaming", "chunked", "chunkedLarge", "fulldecode"}
  PictureActs = 3
  Durations = {80, 240, 400}
  Widths = {400, 900, 1600}
  ZoomMax = 5
  RulerActs = 5
  BaseStems <- TwoStems
  Jobs = {full, split}
  Raw <- Offers
  MixActs = 3
  KeyLanes = {"vocals", "original", "drums"}
  LaneOf <- FullSong
  Rendered = {}
  PitchMax = 2
  KeyActs = 5
  LoopDurations = {8}
  MinLoop = 2
  LoopActs = 4
  ButtonActs = 5
SPECIFICATION Spec
INVARIANT SourcesBackToBack
CHECK_DEADLOCK FALSE
