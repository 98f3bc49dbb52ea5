CONSTANTS
  Nowhere = Nowhere
  TrackIds = {"t1", "t2", "t3"}
  SourceOf <- ThreeSources
  Uploaded = {}
  KnownIds = {"t1", "t2"}
  FolderIds = {"trash", "unsorted", "playlist", "rock"}
  TrashId = "trash"
  UnsortedId = "unsorted"
  PlaylistId = "playlist"
  PlaylistIds <- OnePlaylist
  LibraryActs = 5
  Edited = {"a", "b"}
  DetectedGrids <- TwoGrids
  OnsetTimes = {1, 5}
  SnapReach = 1
  DownbeatsOf <- TwoDownbeats
  GridsInMemory <- SomeGrids
  FoundOn <- TwoFound
  TrackLength = 6
  ShortestSection = 1
  NewSection = 2
  SectionIds = 3
  GridActs = 3
  StoreActs = 5
  RibbonActs = 3
  FailingJobs = {"j"}
  ListedFailures = 2
  NoteActs = 4
  Queries = {"x", "y"}
  SearchActs = 5
  Songs = {"a", "b"}
  PhoneLanes = {"x", "y"}
  PhoneActs = 4
  Stems = {"vocals", "drums", "other"}
  Vocals = "vocals"
  MaxJobs = 2
  ChoiceActs = 4
  AutoActs = 4
  Exported = {"a", "b"}
  Films = {"b"}
  ExportActs = 5
  Fixed = {"folders", "stems"}
  Chips = {"stems"}
  Mixes = {"mix"}
  MoveActs = 4
  SetupActs = 3
SPECIFICATION Spec
INVARIANTS
  ListsInOrder
  
  PanelsTellTheTruth
PROPERTIES
  RemovedStaysRemoved
  StepsKeepWhatWasSet
  PanelsComeBack
CHECK_DEADLOCK FALSE
