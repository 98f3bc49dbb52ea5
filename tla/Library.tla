------------------------------ MODULE Library ------------------------------
(***************************************************************************)
(* The library panel: src/static/js/catalog.js.                            *)
(*                                                                         *)
(* Tracks, the folders they lie in and the Trash live in the page and in   *)
(* its store; the jobs they stand for live on the server.  Every user act  *)
(* changes the page's copy and saves it before anything else runs.  Four   *)
(* kinds of call wait for an answer in between and then write to whatever  *)
(* the library has become: clearing the bin, opening a track, completing a *)
(* settled import and the sync with the server's list of finished jobs.    *)
(*                                                                         *)
(* A save of the library lands at once here; the tombstones of deleted     *)
(* jobs, whose write is awaited, are written in a step of their own.       *)
(***************************************************************************)
EXTENDS Naturals, Sequences, FiniteSets, SequencesExt

CONSTANTS
  Ids,           \* job ids, which are track ids
  Source,        \* sourceUrl of each id; two ids may share one
  Local,         \* sources that are uploads: nothing to download again
  Folders,       \* folder ids, among them the next three
  Trash,         \* TRASH_ID
  Unsorted,      \* UNSORTED_ID
  Playlist,      \* the id the folder of the imported playlist gets
  PlaylistJobs,  \* the jobs of that playlist, in order
  Known,         \* tracks that are in the library, and finished, at the start
  None,
  MaxActs        \* bound: user acts and server accidents, together

LibraryAssumption ==
  /\ {Trash, Unsorted, Playlist} \subseteq Folders
  /\ Cardinality({Trash, Unsorted, Playlist}) = 3
  /\ None \notin Ids \cup Folders /\ Known \subseteq Ids /\ IsFiniteSet(Ids) /\ IsFiniteSet(Folders)
  /\ PlaylistJobs \in Seq(Ids) /\ DOMAIN Source = Ids
  /\ MaxActs \in Nat

VARIABLES
  lib,           \* folders, tracks and _currentTrackId, as in the store
  deleted,       \* _deletedJobIds
  savedDeleted,  \* ... as written under DELETED_JOBS_KEY
  server,        \* status of each job on the server
  bin,           \* the handler of the clear-bin button
  loading,       \* loadTrackIntoStudio waiting for its answer, or None
  completions,   \* completeSettledJob calls waiting for theirs
  sync,          \* the list syncWithServer is waiting for, or None
  restore,       \* tracks resyncLibrary has still to import again
  purged,        \* history: ids the user deleted for good
  late,          \* history: ids an answer wrote back after they had left
  acts           \* how much of MaxActs is used up

answers == <<loading, completions, sync, restore>>
vars == <<lib, deleted, savedDeleted, server, bin, answers, purged, late, acts>>

Statuses == {"processing", "done", "error", "unavailable"}
ServerStatuses == {"new", "running", "done", "error", "cancelled", "lost", "deleted"}
Binning == [pc : {"idle", "marking", "deleting"}, list : SUBSET Ids]
Range2Set(s) == {s[i] : i \in 1..Len(s)}
NoneTwice(s) == \A i, j \in 1..Len(s) : s[i] = s[j] => i = j

LibTypeOK(L) ==
  /\ L.tracks \in [Ids -> Statuses \cup {"absent"}]
  /\ L.order \in Seq(Folders) /\ Trash \in Range2Set(L.order) /\ NoneTwice(L.order)
  /\ L.parent \in [Folders -> Folders \cup {None}]
  /\ L.items \in [Folders -> SUBSET Ids]
  /\ \A f \in Folders \ Range2Set(L.order) : L.items[f] = {} /\ L.parent[f] = None
  /\ L.current \in Ids \cup {None}
TypeOK ==
  /\ LibTypeOK(lib)
  /\ deleted \subseteq Ids /\ savedDeleted \subseteq deleted
  /\ server \in [Ids -> ServerStatuses]
  /\ bin \in Binning /\ (bin.pc = "idle" => bin.list = {})
  /\ loading \in {None} \cup [id : Ids, status : ServerStatuses]
  /\ completions \subseteq [id : Ids, status : ServerStatuses]
  /\ sync \in {None} \cup [done : SUBSET Ids, lost : SUBSET Ids, again : BOOLEAN]
  /\ restore \subseteq Ids /\ purged \subseteq Ids /\ late \subseteq Ids
  /\ acts \in 0..MaxActs

Init ==
  /\ lib = [tracks |-> [i \in Ids |-> IF i \in Known THEN "done" ELSE "absent"],
            order |-> <<Unsorted, Trash>>,
            parent |-> [f \in Folders |-> None],
            items |-> [f \in Folders |-> IF f = Unsorted THEN Known ELSE {}],
            current |-> None]
  /\ server = [i \in Ids |-> IF i \in Known THEN "done" ELSE "new"]
  /\ deleted = {} /\ savedDeleted = {}
  /\ bin = [pc |-> "idle", list |-> {}]
  /\ loading = None /\ completions = {} /\ sync = None /\ restore = {}
  /\ purged = {} /\ late = {} /\ acts = 0

Act == acts < MaxActs /\ acts' = acts + 1
OnlyLibrary == UNCHANGED <<deleted, savedDeleted, server, bin, answers, purged, late>>

----------------------------------------------------------------------------
(* The library as a value: what the helpers of catalog.js do to it. *)

Present(L) == {i \in Ids : L.tracks[i] # "absent"}
Placed(L) == UNION {L.items[f] : f \in Range2Set(L.order)}
Without(L, ids) == [L EXCEPT !.items = [f \in Folders |-> @[f] \ ids]]

(* The entries come in the order they were inserted: any of several matches *)
(* may be the first.                                                        *)
findTrackBySource(L, id) ==
  LET same == {o \in Present(L) \ {id} : Source[o] = Source[id]}
  IN IF same = {} THEN {None} ELSE same

replaceTrackId(L, old, new) ==
  LET taken == [L.tracks EXCEPT ![old] = "absent", ![new] = IF @ = "absent" THEN L.tracks[old] ELSE @]
  IN [L EXCEPT !.tracks = taken,
               !.items = [f \in Folders |-> IF old \in @[f] THEN (@[f] \ {old}) \cup {new} ELSE @[f]],
               !.current = IF @ = old THEN new ELSE @]

(* The folders of a list that are not gone, in order. *)
Kept(list, gone) ==
  LET kept[n \in 0..Len(list)] ==
        IF n = 0 THEN <<>> ELSE IF list[n] \in gone THEN kept[n - 1] ELSE Append(kept[n - 1], list[n])
  IN kept[Len(list)]

(* The first folder that is not the Trash; an Unsorted one if there is none. *)
landingFolder(L) ==
  LET open == Kept(L.order, {Trash})
  IN IF open = <<>> THEN Unsorted ELSE open[1]

Land(L, id) ==
  LET f == landingFolder(L)
  IN [L EXCEPT !.order = IF f \in Range2Set(@) THEN @ ELSE <<f>> \o @,
               !.items[f] = @ \cup {id}]

(* A variant without the exception for a match in the Trash. *)
EvictingTrashed(L, id, status) ==
  { LET kept == IF o = None THEN L ELSE replaceTrackId(L, o, id)
        added == [kept EXCEPT !.tracks[id] = status]
    IN IF id \in Placed(added) THEN added ELSE Land(added, id)
    : o \in findTrackBySource(L, id) }

(* addTrackToLibrary: an entry with the same source is taken over, unless   *)
(* it is in the Trash; a track in no folder lands in the first one.         *)
addTrackToLibrary(L, id, status) ==
  { LET kept == IF o = None \/ o \in L.items[Trash] THEN L ELSE replaceTrackId(L, o, id)
        added == [kept EXCEPT !.tracks[id] = status]
    IN IF id \in Placed(added) THEN added ELSE Land(added, id)
    : o \in findTrackBySource(L, id) }

(* In turn; a job of a playlist is claimed for its folder before it is added. *)
claimed(L, id, folder) == IF folder = None THEN L ELSE [L EXCEPT !.items[folder] = @ \cup {id}]

addEach(L, ids, status, folder) ==
  LET libs[n \in 0..Len(ids)] ==
        IF n = 0 THEN {L}
        ELSE UNION {addTrackToLibrary(claimed(l, ids[n], folder), ids[n], status) : l \in libs[n - 1]}
  IN libs[Len(ids)]

addPlaylistToLibrary(L, ids) ==
  addEach(IF Playlist \in Range2Set(L.order) THEN L ELSE [L EXCEPT !.order = <<Playlist>> \o @],
          ids, "processing", Playlist)

moveTrackToTrash(L, id) ==
  [Without(L, {id}) EXCEPT !.items[Trash] = @ \cup {id},
                           !.current = IF @ = id THEN None ELSE @]

purgeTrash(L) ==
  [Without(L, L.items[Trash]) EXCEPT
     !.tracks = [i \in Ids |-> IF i \in L.items[Trash] THEN "absent" ELSE @[i]]]

----------------------------------------------------------------------------
(* Folders. *)

Existing == Range2Set(lib.order)
Ordinary == Existing \ {Trash}

(* What is reached from some folders, step by step. *)
Reach(from, next) ==
  LET reach[n \in 0..Cardinality(Folders)] ==
        IF n = 0 THEN from ELSE reach[n - 1] \cup UNION {next[g] : g \in reach[n - 1]}
  IN reach[Cardinality(Folders)]

Up(L) == [f \in Folders |-> {L.parent[f]} \ {None}]
Ancestors(L, f) == Reach(Up(L)[f], Up(L))

isFolderDescendant(ancestor, candidate) == ancestor \in Ancestors(lib, candidate)

(* renderFolder draws the roots and, inside a folder, its children: only    *)
(* what hangs on a root is there to be clicked or dragged.                  *)
Shown == {f \in Ordinary : Ancestors(lib, f) \subseteq Existing}

(* The Trash view, the folders that are drawn, and the collapsed strip for  *)
(* what lies in no folder.                                                  *)
Drawn == lib.items[Trash] \cup (UNION {lib.items[f] : f \in Shown}) \cup (Present(lib) \ Placed(lib))

(* Ids are times of creation: one that a folder still names is not used again. *)
Fresh == {f \in Folders \ Existing : \A g \in Folders : lib.parent[g] # f}

createFolder(f) ==
  /\ Act /\ f \in Fresh \ {Unsorted, Playlist}
  /\ lib' = [lib EXCEPT !.order = Append(@, f)]
  /\ OnlyLibrary

createSubfolder(f, p) ==
  /\ Act /\ f \in Fresh \ {Unsorted, Playlist} /\ p \in Shown
  /\ lib' = [lib EXCEPT !.order = Append(@, f), !.parent[f] = p]
  /\ OnlyLibrary

(* deleteFolder goes through the children first; Unsorted stays, with what  *)
(* is below it, and keeps the parent it had.                                *)
Doomed(f) == Reach({f}, [g \in Folders |-> {h \in Ordinary \ {Unsorted} : lib.parent[h] = g}])

RemoveFolders(L, gone) ==
  LET dropped == (UNION {L.items[g] : g \in gone}) \cap Present(L)
  IN [L EXCEPT !.order = Kept(@, gone),
               !.parent = [g \in Folders |-> IF g \in gone THEN None ELSE @[g]],
               !.items = [g \in Folders |-> IF g \in gone THEN {}
                                            ELSE IF g = Trash THEN @[g] \cup dropped ELSE @[g]]]

deleteFolder(f) ==
  /\ Act /\ f \in Shown \ {Unsorted}
  /\ lib' = RemoveFolders(lib, Doomed(f))
  /\ OnlyLibrary

reorderFolder(f, g, before) ==
  LET rest == Kept(lib.order, {f})
      at == CHOOSE i \in 1..Len(rest) : rest[i] = g
      to == IF before THEN at ELSE at + 1
  IN
  /\ Act /\ f # g /\ {f, g} \subseteq Shown /\ ~isFolderDescendant(f, g)
  /\ lib' = [lib EXCEPT !.order = InsertAt(rest, to, f)]
  /\ OnlyLibrary

(* A variant that only refuses the folder's own parent. *)
reparentUnderAny(f, g) ==
  /\ Act /\ f # g /\ {f, g} \subseteq Shown /\ lib.parent[g] # f
  /\ lib' = [lib EXCEPT !.parent[f] = g]
  /\ OnlyLibrary

reparentFolder(f, g) ==
  /\ Act /\ f # g /\ {f, g} \subseteq Shown /\ ~isFolderDescendant(f, g)
  /\ lib' = [lib EXCEPT !.parent[f] = g]
  /\ OnlyLibrary

----------------------------------------------------------------------------
(* Tracks moved by the user. *)

MoveToTrash(id) ==
  /\ Act /\ id \in Present(lib)
  /\ lib' = moveTrackToTrash(lib, id)
  /\ OnlyLibrary

restoreTrackFromTrash(id) ==
  /\ Act /\ id \in lib.items[Trash] \cap Present(lib)
  /\ lib' = Land([lib EXCEPT !.items[Trash] = @ \ {id}], id)
  /\ OnlyLibrary

(* The track leaves the first folder that holds it, whichever that is. *)
dropOnFolder(id, f) ==
  LET holding == Kept(lib.order, {g \in Folders : id \notin lib.items[g]})
      left == IF holding = <<>> THEN lib ELSE [lib EXCEPT !.items[holding[1]] = @ \ {id}]
  IN
  /\ Act /\ id \in Present(lib) \ lib.items[Trash] /\ f \in Shown
  /\ lib' = [left EXCEPT !.items[f] = @ \cup {id}]
  /\ OnlyLibrary

----------------------------------------------------------------------------
(* Imports and the server. *)

Import(id) ==
  /\ Act /\ server[id] = "new"
  /\ server' = [server EXCEPT ![id] = "running"]
  /\ lib' \in addTrackToLibrary(lib, id, "processing")
  /\ UNCHANGED <<deleted, savedDeleted, bin, answers, purged, late>>

ImportPlaylist ==
  /\ \A i \in 1..Len(PlaylistJobs) : server[PlaylistJobs[i]] = "new"
  /\ IF Playlist \in Existing THEN lib.parent[Playlist] = None ELSE Playlist \in Fresh
  /\ Act
  /\ server' = [i \in Ids |-> IF i \in Range2Set(PlaylistJobs) THEN "running" ELSE server[i]]
  /\ lib' \in addPlaylistToLibrary(lib, PlaylistJobs)
  /\ UNCHANGED <<deleted, savedDeleted, bin, answers, purged, late>>

(* A running job ends, the queue notices and, if the track is known, its    *)
(* final state is asked for.                                                *)
ServerEnds(id) ==
  /\ server[id] = "running"
  /\ \E s \in {"done", "error", "cancelled"} :
       /\ s # "done" => acts < MaxActs
       /\ acts' = IF s = "done" THEN acts ELSE acts + 1
       /\ server' = [server EXCEPT ![id] = s]
       /\ completions' = IF id \in Present(lib)
                         THEN completions \cup {[id |-> id, status |-> s]} ELSE completions
  /\ UNCHANGED <<lib, deleted, savedDeleted, bin, loading, sync, restore, purged, late>>

(* The stems of a finished job disappear from the disk. *)
ServerLosesFiles(id) ==
  /\ Act /\ server[id] = "done"
  /\ server' = [server EXCEPT ![id] = "lost"]
  /\ UNCHANGED <<lib, deleted, savedDeleted, bin, answers, purged, late>>

WrittenLate(id) == late' = IF id \in Present(lib) THEN late ELSE late \cup {id}

completeSettledJob(c) ==
  /\ completions' = completions \ {c}
  /\ \/ /\ server[c.id] = "deleted"             \* 404
        /\ lib' = IF c.id \in Present(lib) THEN [lib EXCEPT !.tracks[c.id] = "unavailable"] ELSE lib
        /\ UNCHANGED late
     \/ /\ c.status = "cancelled"
        /\ lib' = [Without(lib, {c.id}) EXCEPT !.tracks[c.id] = "absent"]
        /\ UNCHANGED late
     \/ /\ c.status \in {"done", "error"}
        /\ lib' \in addTrackToLibrary(lib, c.id, c.status)
        /\ WrittenLate(c.id)
  /\ UNCHANGED <<deleted, savedDeleted, server, bin, loading, sync, restore, purged, acts>>

(* loadTrackIntoStudio: a track known to be unavailable is imported again   *)
(* instead (Import, under a new id); for any other the state is fetched.    *)
OpenTrack(id) ==
  /\ Act /\ id \in Present(lib) /\ lib.tracks[id] # "unavailable"
  /\ loading' = [id |-> id, status |-> server[id]]
  /\ UNCHANGED <<lib, deleted, savedDeleted, server, bin, completions, sync,
                 restore, purged, late>>

TrackOpened ==
  LET id == loading.id
      s == loading.status
      shown == CASE s = "running" -> "processing" [] s \in {"done", "error"} -> s
                 [] OTHER -> "unavailable"
  IN
  /\ loading # None /\ loading' = None
  /\ lib' = [lib EXCEPT !.tracks[id] = shown, !.current = IF s = "done" THEN id ELSE @]
  /\ WrittenLate(id)
  /\ UNCHANGED <<deleted, savedDeleted, server, bin, completions, sync, restore, purged, acts>>

----------------------------------------------------------------------------
(* The bin. *)

ClearBin ==
  /\ Act /\ bin.pc = "idle"
  /\ bin' = [pc |-> "marking", list |-> lib.items[Trash]]
  /\ deleted' = deleted \cup lib.items[Trash]
  /\ UNCHANGED <<lib, savedDeleted, server, answers, purged, late>>

(* The tombstones are on disk, or their write failed, which changes nothing *)
(* of what follows.  What is purged is the Trash of this moment, what is    *)
(* deleted on the server is the list of the click: a track restored in      *)
(* between stays in the library and loses its job, and one trashed in       *)
(* between leaves it with its job kept, to come back at the next sync.      *)
TombstonesWritten ==
  /\ bin.pc = "marking" /\ bin' = [bin EXCEPT !.pc = "deleting"]
  /\ \/ savedDeleted' = deleted /\ UNCHANGED acts
     \/ Act /\ UNCHANGED savedDeleted
  /\ lib' = purgeTrash(lib)
  /\ purged' = purged \cup (bin.list \cap lib.items[Trash])
  /\ UNCHANGED <<deleted, server, answers, late>>

(* One DELETE after the other; a running job or a file that cannot be       *)
(* removed refuses, and that is only reported.                              *)
DeleteAnswered(id) ==
  /\ bin.pc = "deleting" /\ id \in bin.list
  /\ bin' = [bin EXCEPT !.list = @ \ {id}]
  /\ \/ server[id] \notin {"running", "new"} /\ server' = [server EXCEPT ![id] = "deleted"] /\ UNCHANGED acts
     \/ server[id] = "running" /\ UNCHANGED <<server, acts>>
     \/ Act /\ UNCHANGED server
  /\ UNCHANGED <<lib, deleted, savedDeleted, answers, purged, late>>

BinCleared ==
  /\ bin.pc = "deleting" /\ bin.list = {}
  /\ bin' = [bin EXCEPT !.pc = "idle"]
  /\ UNCHANGED <<lib, deleted, savedDeleted, server, answers, purged, late, acts>>

----------------------------------------------------------------------------
(* Sync. *)

Listed(again) == [done |-> {i \in Ids : server[i] = "done"},
                  lost |-> {i \in Ids : server[i] = "lost"}, again |-> again]

(* "Sync again" in the library editor. *)
Resync ==
  /\ Act /\ sync = None /\ restore = {}
  /\ sync' = Listed(TRUE)
  /\ UNCHANGED <<lib, deleted, savedDeleted, server, bin, loading, completions,
                 restore, purged, late>>

Adopted(L) == (sync.done \cup sync.lost) \ (Present(L) \cup L.items[Trash] \cup deleted)

reconcileAvailability(L) ==
  [L EXCEPT !.tracks = [i \in Ids |->
     IF @[i] \notin {"done", "unavailable"} \/ i \in L.items[Trash] THEN @[i]
     ELSE IF i \in sync.lost THEN "unavailable"
     ELSE IF i \in sync.done THEN "done"
     ELSE "unavailable"]]

(* syncWithServer: what the page does not know is added in some order, then *)
(* availability is reconciled; resyncLibrary goes on to import what can be  *)
(* downloaded again.                                                        *)
SyncAnswered ==
  /\ sync # None /\ sync' = None
  /\ \E ids \in SetToSeqs(Adopted(lib)) :
       \E added \in addEach(lib, ids, "done", None) : lib' = reconcileAvailability(added)
  /\ restore' = IF sync.again
                THEN {i \in Present(lib') \ lib'.items[Trash] :
                        lib'.tracks[i] = "unavailable" /\ Source[i] \notin Local}
                ELSE restore
  /\ UNCHANGED <<deleted, savedDeleted, server, bin, loading, completions, purged, late, acts>>

(* One at a time, from the list made then, whatever became of the track.    *)
RestoreNext(old) ==
  /\ old \in restore /\ restore' = restore \ {old}
  /\ \/ \E id \in Ids :
          /\ server[id] = "new" /\ Source[id] = Source[old]
          /\ server' = [server EXCEPT ![id] = "running"]
          /\ lib' \in addTrackToLibrary(lib, id, "processing")
     \/ UNCHANGED <<lib, server>>                 \* the import is refused
  /\ UNCHANGED <<deleted, savedDeleted, bin, loading, completions, sync, purged, late, acts>>

(* loadState after a restart of the page, and the sync that follows it. *)
Reload ==
  /\ Act
  /\ lib' = [lib EXCEPT !.items[Trash] = @ \cap Present(lib), !.current = None]
  /\ deleted' = savedDeleted
  /\ bin' = [pc |-> "idle", list |-> {}]
  /\ loading' = None /\ completions' = {} /\ restore' = {}
  /\ sync' = Listed(FALSE)
  /\ UNCHANGED <<savedDeleted, server, purged, late>>

----------------------------------------------------------------------------
Next ==
  \/ \E f \in Folders : createFolder(f) \/ deleteFolder(f)
  \/ \E f, g \in Folders : \/ createSubfolder(f, g) \/ reparentFolder(f, g)
                           \/ \E before \in BOOLEAN : reorderFolder(f, g, before)
  \/ \E id \in Ids : \/ MoveToTrash(id) \/ restoreTrackFromTrash(id)
                     \/ \E f \in Folders : dropOnFolder(id, f)
                     \/ Import(id) \/ ServerEnds(id) \/ ServerLosesFiles(id)
                     \/ OpenTrack(id) \/ DeleteAnswered(id) \/ RestoreNext(id)
  \/ \E c \in completions : completeSettledJob(c)
  \/ ImportPlaylist \/ TrackOpened \/ ClearBin \/ TombstonesWritten \/ BinCleared
  \/ Resync \/ SyncAnswered \/ Reload

Spec == Init /\ [][Next]_vars

----------------------------------------------------------------------------
(* Whatever is nested, moved and deleted, no folder ends up inside itself   *)
(* and none is left under a parent that is gone; Unsorted, which outlives   *)
(* the deletion of its parent, is the one exception.                        *)
FoldersFormAForest ==
  \A f \in Existing : /\ f \notin Ancestors(lib, f)
                      /\ f # Unsorted => lib.parent[f] \in Existing \cup {None}

(* A trashed track leaves the Trash only by an act of the user, or by word  *)
(* that its import was cancelled: no import, no answer and no sync evicts it,    *)
(* however many jobs share its source (#542).                               *)
TrashedStaysTrashed ==
  \A i \in lib.items[Trash] \ lib'.items[Trash] :
    acts' # acts \/ bin' # bin \/ [id |-> i, status |-> "cancelled"] \in completions

(* What the user deleted for good has its tombstone on disk before it       *)
(* leaves the library, unless that one write failed; and with the tombstone *)
(* there it does not come back at a sync, at whatever moment the page was   *)
(* closed and whether or not the server took the deletion (#521).  Only an  *)
(* answer that was under way may write it again.  Without it, a job the     *)
(* server did not delete either is back after a restart.                    *)
PurgedStaysPurged ==
  /\ \A i \in purged' \ purged : i \in savedDeleted' \/ (bin.pc = "marking" /\ acts' # acts)
  /\ \A i \in purged \cap savedDeleted : lib.tracks[i] = "absent" /\ lib'.tracks[i] # "absent"
       => loading' # loading \/ completions' # completions

(* Every track lies in a folder, where the user can find it, except those   *)
(* that an answer wrote back after they had left the library.               *)
NothingStranded == Present(lib) \subseteq Placed(lib) \cup late

(* Every track is drawn somewhere, except where Unsorted hangs under a      *)
(* folder that was deleted, and in what hangs on Unsorted.                  *)
EveryTrackIsDrawn ==
  \A i \in Present(lib) \ Drawn :
    \E f \in Ordinary : i \in lib.items[f] /\ Unsorted \in {f} \cup Ancestors(lib, f)

(* What keeps removed tracks removed: the library is whole, whatever is in  *)
(* it or about to be written to it is a job the server has heard of, and    *)
(* the page knows every tombstone that is on disk.                          *)
Whole(L) ==
  /\ L = [tracks |-> L.tracks, order |-> L.order, parent |-> L.parent, items |-> L.items, current |-> L.current]
  /\ L.tracks \in [Ids -> Statuses \cup {"absent"}] /\ L.items \in [Folders -> SUBSET Ids]
Heard == {i \in Ids : server[i] # "new"}
OnlyHeardOf ==
  /\ server \in [Ids -> ServerStatuses]
  /\ Present(lib) \subseteq Heard /\ purged \subseteq Heard
  /\ \A f \in Folders : lib.items[f] \subseteq Heard
  /\ loading # None => loading.id \in Heard
  /\ completions \subseteq [id : Heard, status : ServerStatuses]
  /\ sync # None => sync.done \cup sync.lost \subseteq Heard
TombstonesStand ==
  /\ savedDeleted \subseteq deleted
  /\ bin.pc = "marking" => bin.list \subseteq deleted
LibraryIInv == Whole(lib) /\ OnlyHeardOf /\ bin \in Binning /\ TombstonesStand /\ acts \in Nat

(* What keeps the lists in order: no folder, existing or not, is above      *)
(* itself; Trash and Unsorted are always there, the Trash as a root; and    *)
(* no folder but Unsorted hangs on one that is gone.                        *)
InOrder(L) ==
  /\ LibTypeOK(L) /\ Unsorted \in Range2Set(L.order) /\ L.parent[Trash] = None
  /\ \A f \in Folders : f \notin Ancestors(L, f)
  /\ \A f \in Range2Set(L.order) \ {Unsorted} : L.parent[f] \in Range2Set(L.order) \cup {None}
ListsIInv == LibraryIInv /\ TypeOK /\ InOrder(lib) /\ NothingStranded
=============================================================================
