----------------------------- MODULE ExportMenu ------------------------------
(***************************************************************************)
(* The export menu of the footer: wireFooterControls of                    *)
(* src/static/js/main.js and the download helpers of player.js it starts.  *)
(* In the desktop app an export asks for a destination in a modal dialog   *)
(* and then moves the bytes, in a browser it is over with the click and    *)
(* the menu only flashes.  A timer gives the menu back when the shell      *)
(* never answers.                                                          *)
(***************************************************************************)
EXTENDS Integers, FiniteSets

CONSTANTS
  Jobs,    \* tracks that may be in the studio
  Films,   \* those that came with a video
  MaxActs  \* bound: what the user does, and tracks loaded

VARIABLES em, acts

exportVars == <<em, acts>>
Rows == {"mix", "stems", "region"}
Waiting == {"asked", "dialog", "moving"}
Exports == [id : 0..MaxActs, job : Jobs, of : Jobs, token : 0..MaxActs,
            at : Waiting \cup {"flash"}, timed : BOOLEAN]

(* off: the rows that are disabled; late: where the timer caught an export. *)
ExportAssumption == "none" \notin Jobs /\ MaxActs \in Nat

ExportRecords ==
  [desktop : BOOLEAN, job : Jobs \cup {"none"}, loop : BOOLEAN, audible : BOOLEAN, format : {"audio", "mp4"},
   panel : BOOLEAN, busy : BOOLEAN, picking : BOOLEAN, token : 0..MaxActs, off : SUBSET Rows,
   exports : SUBSET Exports, late : SUBSET Waiting, failures : SUBSET [job : Jobs, of : Jobs]]
ExportTypeOK == em \in ExportRecords /\ acts \in 0..MaxActs

ExportInit ==
  /\ \E d \in BOOLEAN :
       em = [desktop |-> d, job |-> "none", loop |-> FALSE, audible |-> TRUE, format |-> "audio", panel |-> FALSE,
             busy |-> FALSE, picking |-> FALSE, token |-> 0, off |-> {"region"}, exports |-> {}, late |-> {},
             failures |-> {}]
  /\ acts = 0

(* The dialog is modal: nothing else is clicked while it is open.           *)
Act == acts < MaxActs /\ acts' = acts + 1
Click == Act /\ \A e \in em.exports : e.at # "dialog"

videoAvailable(q) == q.job \in Films
visible(q) == IF ~q.panel THEN {} ELSE IF q.format = "mp4" THEN {"mix"} ELSE Rows
updateLoopRegionVisual(q) == [q EXCEPT !.off = IF q.loop THEN @ \ {"region"} ELSE @ \cup {"region"}]
applyFormatState(q) == IF q.format = "mp4" THEN q ELSE updateLoopRegionVisual(q)
setFormat(q, f) == applyFormatState([q EXCEPT !.format = f])

resetBusy(q) == applyFormatState([q EXCEPT !.busy = FALSE, !.off = {}])
enterBusy(q) == [q EXCEPT !.busy = TRUE, !.off = @ \cup visible(q), !.panel = FALSE]

(* ------------------------------- the page ------------------------------- *)
TrackLoaded == Act /\ \E j \in Jobs : em' = updateLoopRegionVisual([em EXCEPT !.job = j, !.loop = FALSE])
LoopChanged == Click /\ em.job # "none" /\ em' = updateLoopRegionVisual([em EXCEPT !.loop = ~@])
LanesChanged == Click /\ em' = [em EXCEPT !.audible = ~@]

(* The arrow key opens the menu of a busy button too.                       *)
openPanel == Click /\ ~em.panel /\
  em' = [IF em.format = "mp4" /\ ~videoAvailable(em) THEN setFormat(em, "audio") ELSE em EXCEPT !.panel = TRUE]
closePanel == Click /\ em.panel /\ em' = [em EXCEPT !.panel = FALSE]
FormatChosen == Click /\ em.panel /\
  \E f \in {"audio"} \cup IF videoAvailable(em) THEN {"mp4"} ELSE {} : em' = setFormat(em, f)

(* ------------------------------ an export ------------------------------- *)
(* Whether the helper of this row has something to export.                  *)
something(q, row) ==
  /\ q.job # "none"
  /\ row # "stems" => q.audible
  /\ row = "region" => q.loop
  /\ row = "mix" /\ q.format = "mp4" => videoAvailable(q)

settleBusy(q, n, at) ==
  [q EXCEPT !.token = @ + 1,
            !.exports = @ \cup {[id |-> n, job |-> q.job, of |-> q.job, token |-> q.token + 1,
                                 at |-> at, timed |-> at # "flash"]}]
triggered(q, n) ==
  IF q.desktop THEN settleBusy(q, n, "asked") ELSE settleBusy(enterBusy(q), n, "flash")
runUnlessBusy(q, row, n) ==
  IF q.busy \/ ~something(q, row) THEN q ELSE triggered([q EXCEPT !.picking = TRUE], n)
runExport(q, row, n) == IF q.picking THEN q ELSE runUnlessBusy(q, row, n)

RowClicked == Click /\ \E row \in visible(em) :
  (row = "mix" \/ row \notin em.off) /\ em' = runExport(em, row, acts + 1)

moved(q, e, at) == [q EXCEPT !.exports = (@ \ {e}) \cup {[e EXCEPT !.at = at]}]
Shown == (\E e \in em.exports : e.at = "asked" /\ em' = moved(em, e, "dialog")) /\ UNCHANGED acts
Chosen == (\E e \in em.exports : e.at = "dialog" /\ em' = enterBusy(moved(em, e, "moving"))) /\ UNCHANGED acts

finishAnyToken(q) == resetBusy([q EXCEPT !.picking = FALSE])
finish(q, e) == IF e.token = q.token THEN finishAnyToken(q) ELSE [q EXCEPT !.picking = FALSE]

(* The failure is put down to the job that was exported.                    *)
blame(q, e) == e.job
failed(q, e) == [q EXCEPT !.failures = @ \cup {[job |-> blame(q, e), of |-> e.of]}]
dismissFailuresByJobId(q, j) == [q EXCEPT !.failures = {f \in @ : f.job # j}]
gone(q, e) == [q EXCEPT !.exports = @ \ {e}]

Cancelled == (\E e \in em.exports : e.at = "dialog" /\ em' = finish(gone(em, e), e)) /\ UNCHANGED acts
Written == (\E e \in em.exports :
  e.at = "moving" /\ em' = finish(dismissFailuresByJobId(gone(em, e), e.job), e)) /\ UNCHANGED acts
Failed == (\E e \in em.exports :
  e.at \in Waiting /\ em' = finish(failed(gone(em, e), e), e)) /\ UNCHANGED acts

(* The two timers: the flash, and the backstop of a shell that is silent.   *)
FlashOver == (\E e \in em.exports : e.at = "flash" /\ em' = finish(gone(em, e), e)) /\ UNCHANGED acts
stopTiming(q, e) == [q EXCEPT !.late = @ \cup {e.at}, !.exports = (@ \ {e}) \cup {[e EXCEPT !.timed = FALSE]}]
backstop(q, e) == finish(stopTiming(q, e), e)
Backstop == (\E e \in em.exports : e.timed /\ em' = backstop(em, e)) /\ UNCHANGED acts

ExportNext ==
  \/ TrackLoaded \/ LoopChanged \/ LanesChanged \/ openPanel \/ closePanel \/ FormatChosen \/ RowClicked
  \/ Shown \/ Chosen \/ Cancelled \/ Written \/ Failed \/ FlashOver \/ Backstop

(* Only the timers are certain: the shell may never answer.                 *)
ExportFairness == WF_exportVars(FlashOver) /\ WF_exportVars(Backstop)
ExportSpec == ExportInit /\ [][ExportNext]_exportVars /\ ExportFairness

(* ------------------------------ properties ------------------------------ *)
(* One export at a time, and the button says so: as long as the backstop    *)
(* did not have to give the menu back, the menu is held exactly while an    *)
(* export is under way, and reads busy exactly while bytes move.            *)
OneExportAtATime ==
  em.late = {} =>
    /\ Cardinality(em.exports) <= 1
    /\ em.picking = (em.exports # {})
    /\ em.busy = \E e \in em.exports : e.at \in {"moving", "flash"}

(* A menu that is not held can be used: no row stays disabled after an      *)
(* export, the region row without a region excepted.                        *)
RowsComeBack ==
  ~em.busy /\ em.late = {} =>
    /\ em.off \subseteq {"region"}
    /\ em.format # "mp4" => ("region" \in em.off) = ~em.loop

(* An export that fails is put down to the track it was started for,        *)
(* whatever track is open by then.                                          *)
FailureNamesItsTrack == \A f \in em.failures : f.job = f.of

(* What makes them inductive: as long as no timer had to step in, there is  *)
(* one export, of the newest token; and a flash has no backstop.            *)
NewestToken ==
  /\ em.token <= acts
  /\ em.late = {} => \A e, f \in em.exports : e = f /\ e.token = em.token
ExportsKnowTheirTrack == \A e \in em.exports : e.job = e.of
FlashIsShort == \A e \in em.exports : e.at = "flash" => ~e.timed
ExportIInv ==
  /\ ExportTypeOK /\ NewestToken /\ ExportsKnowTheirTrack /\ FlashIsShort
  /\ OneExportAtATime /\ RowsComeBack /\ FailureNamesItsTrack

(* Must end: the menu does not stay busy when the shell never answers,      *)
(* unless the timer ran out while the dialog was still open.                *)
MenuHeld == em.busy /\ em.late \cap {"asked", "dialog"} = {}
=============================================================================
