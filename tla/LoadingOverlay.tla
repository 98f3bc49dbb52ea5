--------------------------- MODULE LoadingOverlay ---------------------------
(***************************************************************************)
(* The loading overlay of the studio: setWaveformLoading in                *)
(* src/static/js/player.js, its callers there and in job.js.               *)
(*                                                                         *)
(* A track's overlay is shown by wireUpAudio and taken away by its canplay *)
(* or by a timer that compares the token of the track; hiding waits until  *)
(* the overlay was on for a moment, and is not undone by a later show.     *)
(***************************************************************************)
EXTENDS Integers

CONSTANT MaxMounts  \* bound: tracks opened on one page

VARIABLES ov, acts

overlayVars == <<ov, acts>>
Mounts == 1..MaxMounts

OverlayRecords ==
  [shown : BOOLEAN, stalled : BOOLEAN, importing : BOOLEAN, token : 0..MaxMounts,
   canplay : SUBSET Mounts, giveUp : SUBSET Mounts, stall : SUBSET Mounts, hides : 0..3]
OverlayTypeOK == ov \in OverlayRecords /\ acts \in 0..MaxMounts + 1 + ov.token

OverlayInit ==
  /\ ov = [shown |-> FALSE, stalled |-> FALSE, importing |-> FALSE, token |-> 0,
           canplay |-> {}, giveUp |-> {}, stall |-> {}, hides |-> 0]
  /\ acts = 0

show(o) == [o EXCEPT !.shown = TRUE]
hide(o) == IF o.hides = 3 THEN o ELSE [o EXCEPT !.hides = @ + 1]

wireUpAudio ==
  /\ ov.token < MaxMounts /\ acts' = acts + 1
  /\ LET m == ov.token + 1 IN
       ov' = [show(ov) EXCEPT !.token = m, !.importing = FALSE,
                              !.canplay = @ \cup {m}, !.giveUp = @ \cup {m}, !.stall = @ \cup {m}]

(* An import in the foreground shows it too, and hides it when it ends      *)
(* without a track: cancelled, failed, or dismissed.                        *)
startImport ==
  /\ acts <= MaxMounts /\ acts' = acts + 1
  /\ ~ov.importing /\ ov' = [show(ov) EXCEPT !.importing = TRUE]
endImport == ov.importing /\ ov' = hide([ov EXCEPT !.importing = FALSE]) /\ UNCHANGED acts

(* Not every multitrack can play; a replaced one may still say it can.      *)
canplay == \E m \in ov.canplay :
  ov' = hide([ov EXCEPT !.canplay = @ \ {m}]) /\ UNCHANGED acts

Stalled == \E m \in ov.stall :
  /\ ov' = [ov EXCEPT !.stall = @ \ {m}, !.stalled = @ \/ (m = ov.token /\ ov.shown)]
  /\ UNCHANGED acts

GaveUp(o, m) == LET q == [o EXCEPT !.giveUp = @ \ {m}] IN IF m = o.token THEN hide(q) ELSE q
giveUp == \E m \in ov.giveUp : ov' = GaveUp(ov, m) /\ UNCHANGED acts

hidden == ov.hides > 0 /\
  ov' = [ov EXCEPT !.hides = @ - 1, !.shown = FALSE, !.stalled = FALSE] /\ UNCHANGED acts

OverlayNext ==
  wireUpAudio \/ startImport \/ endImport \/ canplay \/ Stalled \/ giveUp \/ hidden

(* Timers fire.  Nothing says a multitrack ever can play.                   *)
OverlayFairness == WF_overlayVars(giveUp) /\ WF_overlayVars(hidden)
OverlaySpec == OverlayInit /\ [][OverlayNext]_overlayVars /\ OverlayFairness

(* ------------------------------ properties ------------------------------ *)
(* Must end: the overlay does not stay over the studio, whatever becomes of *)
(* a track, unless an import is what it stands for.                         *)
Covered == ov.shown /\ ~ov.importing
=============================================================================
