------------------------------ MODULE MCPanels ------------------------------
(***************************************************************************)
(* The library, the editors, the panels, the phone page and the setup      *)
(* window, side by side.                                                   *)
(* They share no variable of the code, so a behaviour is one of one part:  *)
(* st is its record, and the variables after it are the library's own.     *)
(***************************************************************************)
EXTENDS Integers, Sequences, TLC

CONSTANTS
  Nowhere,
  TrackIds, SourceOf, Uploaded, KnownIds,   \* tracks of the library and where they are from
  FolderIds, TrashId, UnsortedId,           \* its folders
  PlaylistId, PlaylistIds,                  \* the playlist that is imported
  Edited,                   \* tracks whose beats and sections are edited
  DetectedGrids, OnsetTimes, SnapReach,     \* beats a track may come with, what a drag snaps to
  DownbeatsOf, FoundOn,     \* downbeats and detected sections of each
  GridsInMemory,            \* downbeats that may be in memory
  TrackLength, ShortestSection, NewSection, SectionIds,
  Queries,                  \* what is searched for
  FailingJobs, ListedFailures,              \* jobs that fail, and how many failures are listed
  Songs, PhoneLanes,        \* tracks and imports of the phone, lanes of its mixer
  Stems, Vocals, MaxJobs,   \* what can be chosen, and bound: imports accepted
  Exported, Films,          \* tracks in the studio, and those with a video
  Fixed, Chips, Mixes,      \* keys of the store that moves
  LibraryActs, GridActs, StoreActs, RibbonActs, SearchActs, NoteActs, PhoneActs, ChoiceActs, AutoActs, ExportActs, MoveActs,
  SetupActs                 \* bounds: what the user does

VARIABLES part, st, deleted, savedDeleted, server, bin, loading, completions, sync, restore,
          purged, late, acts
catalog == <<deleted, savedDeleted, server, bin, loading, completions, sync, restore, purged, late>>
vars == <<part, st, catalog, acts>>

(* A grid with even beats, and one that is uneven and shorter; a track with *)
(* downbeats and detected sections, and one with neither.                   *)
TwoGrids == {<<0, 2, 4, 6>>, <<1, 2, 5>>}
TwoDownbeats == [a |-> {1, 3, 5}, b |-> {}]
SomeGrids == {{}, {1, 3, 5}, {1, 2, 5}}
TwoFound == [a |-> <<<<0, 3>>, <<3, 6>>>>, b |-> <<>>]
(* Two finished tracks and a second import of the first one's source.       *)
ThreeSources == [t1 |-> "s1", t2 |-> "s2", t3 |-> "s1"]
OnePlaylist == <<"t3">>

Catalog == INSTANCE Library WITH lib <- st, Ids <- TrackIds, Source <- SourceOf, Local <- Uploaded,
             Known <- KnownIds, Folders <- FolderIds, Trash <- TrashId, Unsorted <- UnsortedId,
             Playlist <- PlaylistId, PlaylistJobs <- PlaylistIds, None <- Nowhere, MaxActs <- LibraryActs
Grid == INSTANCE BeatGrid WITH bg <- st, Grids <- DetectedGrids, Duration <- TrackLength, Onsets <- OnsetTimes,
          SnapTol <- SnapReach, MaxActs <- GridActs
GridStore == INSTANCE BeatGridStore WITH bs <- st, Jobs <- Edited, MaxActs <- StoreActs
Ribbon == INSTANCE Sections WITH sc <- st, Tracks <- Edited, Downbeats <- DownbeatsOf, Grids <- GridsInMemory,
            Found <- FoundOn, Duration <- TrackLength, MinSec <- ShortestSection, DefaultWidth <- NewSection,
            MaxIds <- SectionIds, MaxActs <- RibbonActs
Finder == INSTANCE Search WITH se <- st, MaxActs <- SearchActs
Cards == INSTANCE Notifications WITH nt <- st, Jobs <- FailingJobs, MaxFailures <- ListedFailures, MaxActs <- NoteActs
Phone == INSTANCE MobilePlayer WITH mp <- st, Tracks <- Songs, Lanes <- PhoneLanes, MaxActs <- PhoneActs
PhoneImport == INSTANCE MobileExtract WITH me <- st, Jobs <- Songs, MaxActs <- PhoneActs
Choice == INSTANCE StemChoice WITH ic <- st, MaxActs <- ChoiceActs
Sectioning == INSTANCE AutoSections WITH au <- st, MaxActs <- AutoActs
Export == INSTANCE ExportMenu WITH em <- st, Jobs <- Exported, MaxActs <- ExportActs
Start == INSTANCE StoreMigration WITH sm <- st, MaxActs <- MoveActs
Setup == INSTANCE SetupWindow WITH sw <- st, MaxActs <- SetupActs

ASSUME PanelConstants ==
  /\ Catalog!LibraryAssumption /\ Grid!GridAssumption /\ GridStore!StoreAssumption
  /\ Ribbon!SectionsAssumption /\ Finder!SearchAssumption /\ Cards!NotifAssumption /\ Phone!MobileAssumption
  /\ PhoneImport!ExtractAssumption /\ Choice!ChoiceAssumption /\ Sectioning!AutoAssumption
  /\ Export!ExportAssumption /\ Start!MigrationAssumption /\ Setup!SetupAssumption

Idle == /\ deleted = 0 /\ savedDeleted = 0 /\ server = 0 /\ bin = 0 /\ loading = 0
        /\ completions = 0 /\ sync = 0 /\ restore = 0 /\ purged = 0 /\ late = 0
Init ==
  \/ part = "library" /\ Catalog!Init
  \/ part = "grid" /\ Grid!GridInit /\ Idle
  \/ part = "gridstore" /\ GridStore!StoreInit /\ Idle
  \/ part = "sections" /\ Ribbon!SectionsInit /\ Idle
  \/ part = "search" /\ Finder!SearchInit /\ Idle
  \/ part = "notifications" /\ Cards!NotifInit /\ Idle
  \/ part = "phone" /\ Phone!MobileInit /\ Idle
  \/ part = "phoneimport" /\ PhoneImport!ExtractInit /\ Idle
  \/ part = "choice" /\ Choice!ChoiceInit /\ Idle
  \/ part = "auto" /\ Sectioning!AutoInit /\ Idle
  \/ part = "export" /\ Export!ExportInit /\ Idle
  \/ part = "start" /\ Start!StoreInit /\ Idle
  \/ part = "setup" /\ Setup!SetupInit /\ Idle

Still == UNCHANGED <<part, catalog>>
Next ==
  \/ part = "library" /\ Catalog!Next /\ UNCHANGED part
  \/ part = "grid" /\ Grid!GridNext /\ Still
  \/ part = "gridstore" /\ GridStore!StoreNext /\ Still
  \/ part = "sections" /\ Ribbon!SectionsNext /\ Still
  \/ part = "search" /\ Finder!SearchNext /\ Still
  \/ part = "notifications" /\ Cards!NotifNext /\ Still
  \/ part = "phone" /\ Phone!MobileNext /\ Still
  \/ part = "phoneimport" /\ PhoneImport!ExtractNext /\ Still
  \/ part = "choice" /\ Choice!ChoiceNext /\ Still
  \/ part = "auto" /\ Sectioning!AutoNext /\ Still
  \/ part = "export" /\ Export!ExportNext /\ Still
  \/ part = "start" /\ Start!MigrationNext /\ Still
  \/ part = "setup" /\ Setup!SetupNext /\ Still

(* One part never leaves itself, so a condition over several parts is one   *)
(* condition for each of them.                                              *)
Fairness ==
  /\ WF_vars(\/ part = "phoneimport" /\ (PhoneImport!Frame \/ PhoneImport!StreamEnds) /\ Still
             \/ part = "auto" /\ Sectioning!Served /\ Still
             \/ part = "export" /\ Export!FlashOver /\ Still)
  /\ WF_vars(\/ part = "phoneimport" /\ PhoneImport!Tick /\ Still
             \/ part = "auto" /\ Sectioning!Answered /\ Still
             \/ part = "export" /\ Export!Backstop /\ Still)
  /\ WF_vars(\/ part = "phoneimport" /\ PhoneImport!CardLeaves /\ Still
             \/ part = "setup" /\ Setup!Answers /\ Still)
  /\ WF_vars(part = "phoneimport" /\ PhoneImport!PollAnswered /\ Still)
  /\ WF_vars(part = "phoneimport" /\ PhoneImport!ServerEnds /\ Still)
Spec == Init /\ [][Next]_vars /\ Fairness

(* ------------------------------ properties ------------------------------ *)
(* The lists: folders form a forest, and every track lies in one and is     *)
(* drawn, whatever is nested, trashed, synced and imported again; and there *)
(* is one card for a failure, in the store as on the page but for the word  *)
(* that there are no details to be had.                                     *)
ListsInOrder ==
  /\ part = "library" => /\ Catalog!TypeOK /\ Catalog!FoldersFormAForest /\ Catalog!NothingStranded
                         /\ Catalog!EveryTrackIsDrawn
  /\ part = "notifications" => Cards!NotifTypeOK /\ Cards!OneCardPerFailure /\ Cards!StoreKeepsTheList

(* A trashed track leaves the Trash only by the user's act or a cancelled   *)
(* import (#542), and what was deleted for good does not come back once its *)
(* tombstone is written (#521).                                             *)
RemovedStaysRemoved ==
  [][part = "library" => Catalog!TrashedStaysTrashed /\ Catalog!PurgedStaysPurged]_vars

(* What the user made of beats and sections is kept: beats apart and under  *)
(* their marks, bars that describe the times on the beats they were counted *)
(* on, and on the server, once all is sent, the last grid and ribbon of     *)
(* each track that was not left before its own save.                        *)
EditsAreKept ==
  /\ part = "grid" => Grid!GridTypeOK /\ Grid!BeatsStayInOrder /\ Grid!MarksStandOnBeats
  /\ part = "gridstore" => GridStore!StoreTypeOK /\ GridStore!EditsReachTheServer
  /\ part = "sections" => Ribbon!SectionsTypeOK /\ Ribbon!BarsDescribeTimes /\ Ribbon!LastEditKept

(* What panels show is what is so: rows of the query in the box, chips and  *)
(* switches, once drawn, as the next import will be, one export at a time   *)
(* under its own name, a store that never goes back, a setup that ticks off what is done  *)
(* and starts no stale backend; and on the phone the track and the switches *)
(* that sound, and one split an import.                                     *)
PanelsTellTheTruth ==
  /\ part = "search" => /\ Finder!SearchTypeOK /\ Finder!RowsAnswerTheBox /\ Finder!PreviewHasItsRow
                        /\ Finder!EnterTakesAShownRow
  /\ part = "choice" => /\ Choice!ChoiceTypeOK /\ Choice!ControlsShowTheChoice /\ Choice!ChoiceIsKept
                        /\ Choice!ImportedOnce
  /\ part = "auto" => Sectioning!AutoTypeOK /\ Sectioning!OffMeansOff
  /\ part = "export" => /\ Export!ExportTypeOK /\ Export!OneExportAtATime /\ Export!RowsComeBack
                        /\ Export!FailureNamesItsTrack
  /\ part = "start" => Start!StoreTypeOK /\ Start!NothingReverts
  /\ part = "setup" => /\ Setup!SetupTypeOK /\ Setup!NeverStartsStale /\ Setup!TickedIsDone
                       /\ Setup!OneProgressListener /\ Setup!NeverLeftAlone
  /\ part = "phone" => Phone!MobileTypeOK /\ Phone!NoGhostAudio /\ Phone!SoundsAsShown
  /\ part = "phoneimport" => PhoneImport!ExtractTypeOK /\ PhoneImport!SplitAskedOnce

(* What one step may not do: a drag moves no anchored beat, an edit pushes  *)
(* no section onto another, a later sighting of a failure forgets nothing   *)
(* but the traceback, and no chip takes the last stem away.                 *)
StepsKeepWhatWasSet ==
  [][/\ part = "grid" => Grid!AnchorsHold
     /\ part = "sections" => Ribbon!EditsKeepApart
     /\ part = "notifications" => Cards!SightingsAddUp
     /\ part = "choice" => Choice!ChipsNeverEmpty]_vars

(* The phone's card of an import goes, the sections button can be used      *)
(* again, the export menu comes back, and setup opens the app or offers     *)
(* Retry, unless a run of setup hangs: with the exceptions each module      *)
(* states.                                                                  *)
Pending ==
  \/ part = "phoneimport" /\ PhoneImport!Following
  \/ part = "auto" /\ Sectioning!ButtonWaits
  \/ part = "export" /\ Export!MenuHeld
  \/ part = "setup" /\ Setup!SetupHolds
PanelsComeBack == Pending ~> ~Pending
=============================================================================
