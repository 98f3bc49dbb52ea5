--------------------------- MODULE BeatGridStore ----------------------------
(***************************************************************************)
(* Keeping an edited beat grid: the saves, the reset and the life of the   *)
(* editor in src/static/js/beatgrid.js and beatgridUi.js.                  *)
(*                                                                         *)
(* Edits are sent a moment after the last of them, and when the editor is  *)
(* closed or dropped.  A request on its way, the reset's two requests and  *)
(* the reading of the next track's grid all overlap with new edits.  What  *)
(* a grid holds is a version here: [of, v], version 0 being detection's.   *)
(***************************************************************************)
EXTENDS Integers

CONSTANTS
  Jobs,
  MaxActs  \* bound: what the user does

VARIABLES bs, acts

storeVars == <<bs, acts>>
None == "none"
Detected(j) == [of |-> j, v |-> 0]
Grids == [of : Jobs, v : 0..MaxActs]
NoGrid == [of |-> None, v |-> 0]

StoreAssumption == None \notin Jobs /\ MaxActs \in Nat

Editors ==
  [job : Jobs \cup {None}, grid : Grids \cup {NoGrid}, dirty : BOOLEAN, timer : BOOLEAN,
   patches : SUBSET [job : Jobs, grid : Grids], server : [Jobs -> Grids],
   opening : Jobs \cup {None}, read : Grids \cup {NoGrid},
   reset : [step : {"no", "delete", "read"}, job : Jobs \cup {None}],
   available : BOOLEAN, editing : BOOLEAN, toolbar : BOOLEAN,
   want : [Jobs -> Grids], overlapped : BOOLEAN]
StoreTypeOK == bs \in Editors /\ acts \in 0..MaxActs

NoReset == [step |-> "no", job |-> None]

StoreInit ==
  /\ bs = [job |-> None, grid |-> NoGrid, dirty |-> FALSE, timer |-> FALSE, patches |-> {},
           server |-> [j \in Jobs |-> Detected(j)], opening |-> None, read |-> NoGrid,
           reset |-> NoReset, available |-> FALSE, editing |-> FALSE, toolbar |-> FALSE,
           want |-> [j \in Jobs |-> Detected(j)], overlapped |-> FALSE]
  /\ acts = 0

Act == acts < MaxActs /\ acts' = acts + 1
Quiet(b) == b.patches = {} /\ b.reset = NoReset

(* The payload is taken at once, under the job of that moment.              *)
save(b) ==
  IF b.job = None \/ ~b.dirty THEN [b EXCEPT !.timer = FALSE]
  ELSE [b EXCEPT !.timer = FALSE, !.patches = @ \cup {[job |-> b.job, grid |-> b.grid]},
                 !.overlapped = @ \/ ~Quiet(b)]

flushBeatGrid(b) == IF b.timer THEN save(b) ELSE b

dropped(b) ==
  [b EXCEPT !.job = None, !.grid = NoGrid, !.timer = FALSE, !.available = FALSE, !.editing = FALSE]
destroyWithoutFlush(b) == dropped(b)

(* The toolbar stays: by the time the grid is declared gone, the editor is  *)
(* already off, and what hides the toolbar is not called.                   *)
destroyBeatGrid(b) == dropped(flushBeatGrid(b))

initBeatGrid(b, j) ==
  [destroyBeatGrid(b) EXCEPT !.job = j, !.grid = b.read, !.dirty = FALSE, !.available = TRUE]

toggleBeatGridEditor(b, next) ==
  IF next /\ ~b.available THEN b
  ELSE LET q == [b EXCEPT !.editing = next, !.toolbar = next]
       IN IF next THEN q ELSE flushBeatGrid(q)

(* ------------------------------- the track ------------------------------ *)
(* wireUpAudio asks for the grid, canplay drops the old one, and the new    *)
(* one is set up when the engine runs and the grid is there.                *)
Open == Act /\ bs.opening = None /\ \E j \in Jobs :
  bs' = [bs EXCEPT !.opening = j, !.read = NoGrid]
GridRead == bs.opening # None /\ bs.read = NoGrid /\
  bs' = [bs EXCEPT !.read = bs.server[bs.opening], !.overlapped = @ \/ ~Quiet(bs) \/ (bs.timer /\ bs.opening = bs.job)]
  /\ UNCHANGED acts
teardownMetronome == bs.opening # None /\ bs.job # None /\
  bs' = destroyBeatGrid(bs) /\ UNCHANGED acts
GridUp == bs.opening # None /\ bs.read # NoGrid /\ bs.job = None /\
  bs' = [initBeatGrid(bs, bs.opening) EXCEPT !.opening = None] /\ UNCHANGED acts
destroyPlayer == Act /\ bs.job # None /\ bs.opening = None /\ bs' = destroyBeatGrid(bs)

(* ------------------------------- the edits ------------------------------ *)
Edit == Act /\ bs.editing /\
  bs' = [bs EXCEPT !.grid = [of |-> bs.grid.of, v |-> acts + 1],
                   !.want[bs.job] = [of |-> bs.grid.of, v |-> acts + 1], !.dirty = TRUE, !.timer = TRUE,
                   !.overlapped = @ \/ ~Quiet(bs) \/ bs.opening = bs.job]

Toggle == Act /\ \E next \in BOOLEAN :
  next # bs.toolbar /\ bs' = toggleBeatGridEditor(bs, next)

SaveDue == bs.timer /\ bs' = save(bs) /\ UNCHANGED acts

(* A save that arrives clears the flag of whatever grid is open by then.    *)
Patched(b, p) == [b EXCEPT !.patches = @ \ {p}, !.server[p.job] = p.grid, !.dirty = FALSE]
PatchAnswered == \E p \in bs.patches : bs' = Patched(bs, p) /\ UNCHANGED acts

(* A save that fails is logged and not tried again.                         *)
PatchFailed == \E p \in bs.patches :
  bs' = [bs EXCEPT !.patches = @ \ {p}, !.overlapped = TRUE] /\ UNCHANGED acts

(* ------------------------------- the reset ------------------------------ *)
resetBeatGrid == Act /\ bs.job # None /\ bs.toolbar /\ bs.reset = NoReset /\
  bs' = [bs EXCEPT !.reset = [step |-> "delete", job |-> bs.job], !.want[bs.job] = Detected(bs.job),
                   !.overlapped = @ \/ ~Quiet(bs) \/ bs.timer \/ bs.opening = bs.job]

(* The grid is then asked for under the job of this moment...               *)
ResetDeleted == bs.reset.step = "delete" /\
  LET cleared == [bs EXCEPT !.server[bs.reset.job] = Detected(bs.reset.job)]
  IN /\ bs' = [cleared EXCEPT !.reset = IF bs.job = None THEN NoReset
                                        ELSE [step |-> "read", job |-> bs.job],
                              !.overlapped = @ \/ bs.job # bs.reset.job]
     /\ UNCHANGED acts

(* ... and taken for the grid of whatever job is open when it comes.        *)
ResetRead == bs.reset.step = "read" /\
  bs' = [bs EXCEPT !.reset = NoReset, !.grid = bs.server[bs.reset.job], !.dirty = FALSE,
                   !.overlapped = @ \/ bs.job # bs.reset.job]
  /\ UNCHANGED acts

StoreNext ==
  \/ Open \/ GridRead \/ teardownMetronome \/ GridUp \/ destroyPlayer
  \/ Edit \/ Toggle \/ SaveDue \/ PatchAnswered \/ PatchFailed
  \/ resetBeatGrid \/ ResetDeleted \/ ResetRead

StoreSpec == StoreInit /\ [][StoreNext]_storeVars

(* ------------------------------ properties ------------------------------ *)
Settled == Quiet(bs) /\ ~bs.timer

(* Switching tracks, closing the editor, undoing everything: as long as no  *)
(* two requests and edits overlap and no save fails, each track keeps the   *)
(* last grid its user made, or detection's after a reset, and the editor    *)
(* shows it (bs.want is that grid; it is read by no action).                *)
EditsReachTheServer ==
  Settled /\ ~bs.overlapped =>
    /\ bs.server = bs.want
    /\ bs.job # None => bs.grid = bs.want[bs.job]

(* What it rests on.  An editor has a track and its grid; a timer is of an  *)
(* edit not sent yet.                                                       *)
EditorIsOpen(b) ==
  /\ b.available <=> b.job # None
  /\ b.job # None => b.grid # NoGrid
  /\ b.editing => b.job # None
  /\ b.timer => b.job # None
  /\ b.reset.step = "no" <=> b.reset.job = None

(* Where nothing overlaps, one thing is under way, and it carries what its  *)
(* track is to have.                                                        *)
OneThingUnderWay(b) ==
  /\ b.timer => Quiet(b) /\ b.dirty
  /\ b.patches # {} => b.reset = NoReset
  /\ \A p, q \in b.patches : p = q
  /\ \A p \in b.patches : p.grid = b.want[p.job]
  /\ b.reset # NoReset => b.want[b.reset.job] = Detected(b.reset.job)

Unsent(b, j) ==
  \/ b.timer /\ b.job = j
  \/ \E p \in b.patches : p.job = j
  \/ b.reset.step = "delete" /\ b.reset.job = j
NothingForgotten(b) ==
  /\ \A j \in Jobs : b.server[j] = b.want[j] \/ Unsent(b, j)
  /\ b.job # None /\ b.reset.job # b.job => b.grid = b.want[b.job]
  /\ b.opening # None /\ b.read # NoGrid => b.read = b.want[b.opening]

WellKept(b) == EditorIsOpen(b) /\ (~b.overlapped => OneThingUnderWay(b) /\ NothingForgotten(b))
StoreIInv == StoreTypeOK /\ WellKept(bs)
=============================================================================
