------------------------------ MODULE Timeline ------------------------------
(***************************************************************************)
(* The timeline over the lanes: zoom, rulers and playhead of               *)
(* src/static/js/transport.js.                                             *)
(*                                                                         *)
(* The rulers are rebuilt by whoever changes what they depend on: a track, *)
(* the zoom, the width of the window (a frame later, and only if the step  *)
(* changes, since building them resizes what is watched).                  *)
(***************************************************************************)
EXTENDS Integers

CONSTANTS
  Durations, Widths,   \* of tracks, and of the panel, in pixels
  ZoomMax,             \* WAVE_ZOOM_MAX; one notch is one step here
  MaxActs              \* bound: what the user does

VARIABLES tl, acts

timelineVars == <<tl, acts>>
Zooms == 1..ZoomMax
MinWidth == 720        \* WAVE_MIN_WIDTH
MinTick == 110         \* MIN_TICK_PX
Ladder == {1, 2, 5, 10, 15, 30, 60}
MinBarLabel == 40      \* MIN_BAR_LABEL_PX
BarLadder == {1, 2, 4, 8, 16, 32, 64}
Bars(d) == d \div 2     \* a bar every two seconds
Base(d) == IF d < 90 THEN 15 ELSE IF d < 300 THEN 30 ELSE 60
Least(S) == CHOOSE x \in S : \A y \in S : x <= y

(* The content is as wide as the zoom asks, and at least MinWidth.          *)
ContentWidth(w, zoom) == IF w * zoom < MinWidth THEN MinWidth ELSE w * zoom

(* The finest step whose labels have room, never coarser than the base.     *)
tickStep(d, w, zoom) ==
  LET room == {s \in Ladder : s <= Base(d) /\ s * ContentWidth(w, zoom) >= MinTick * d}
  IN IF zoom = 1 \/ room = {} THEN Base(d) ELSE Least(room)

TimelineAssumption ==
  /\ Durations \subseteq Nat \ {0} /\ Widths \subseteq Nat /\ ZoomMax \in Nat \ {0} /\ MaxActs \in Nat

TimelineRecords ==
  [duration : Durations \cup {0}, mounted : BOOLEAN, width : Widths, zoom : Zooms, laidOut : Nat,
   step : Ladder \cup {0}, ruled : Durations \cup {0}, barEvery : BarLadder \cup {0}, beats : BOOLEAN,
   squeezed : BOOLEAN, resized : BOOLEAN, frame : BOOLEAN, waiting : BOOLEAN]
TimelineTypeOK == tl \in TimelineRecords /\ acts \in 0..MaxActs

TimelineInit ==
  /\ \E w \in Widths :
       tl = [duration |-> 0, mounted |-> FALSE, width |-> w, zoom |-> 1, laidOut |-> 0,
             step |-> 0, ruled |-> 0, barEvery |-> 0, beats |-> FALSE,
             squeezed |-> FALSE, resized |-> FALSE, frame |-> FALSE,
             waiting |-> FALSE]
  /\ acts = 0

Act == acts < MaxActs /\ acts' = acts + 1

(* The lanes take their width at once, the multitrack a frame later.        *)
applyWaveZoom(t) ==
  IF t.mounted /\ t.duration > 0
  THEN [t EXCEPT !.laidOut = ContentWidth(t.width, t.zoom), !.frame = TRUE] ELSE t

buildRuler(t) ==
  IF t.duration = 0 THEN [t EXCEPT !.ruled = 0]
  ELSE [t EXCEPT !.ruled = t.duration, !.step = tickStep(t.duration, t.width, t.zoom)]

(* The bars, once the track's beats are known: a label every so many.       *)
buildBarRuler(t) ==
  LET room == {n \in BarLadder : n * ContentWidth(t.width, t.zoom) >= MinBarLabel * Bars(t.duration)}
  IN [t EXCEPT !.squeezed = FALSE,
               !.barEvery = IF t.duration = 0 \/ ~t.beats THEN 0
                            ELSE IF room = {} THEN 64 ELSE Least(room)]

(* Nothing is laid out again when the zoom is where it was.                 *)
setWaveZoomLevel(t, next) ==
  IF next = t.zoom THEN t
  ELSE buildBarRuler(buildRuler(applyWaveZoom([t EXCEPT !.zoom = next])))

(* ------------------------------- the steps ------------------------------ *)
Open == Act /\ \E d \in Durations :
  tl' = [setWaveZoomLevel([tl EXCEPT !.duration = d, !.mounted = FALSE], 1)
           EXCEPT !.mounted = TRUE, !.waiting = TRUE]

canplay == tl.waiting /\
  tl' = [applyWaveZoom(buildBarRuler(buildRuler([tl EXCEPT !.beats = FALSE]))) EXCEPT !.waiting = FALSE] /\ UNCHANGED acts

(* The rulers are emptied; the zoom stays until the next track.             *)
destroyPlayer == Act /\ tl.duration > 0 /\
  tl' = [tl EXCEPT !.duration = 0, !.mounted = FALSE, !.waiting = FALSE, !.ruled = 0,
                    !.beats = FALSE]

wheel == Act /\ tl.duration > 0 /\ \E next \in Zooms : tl' = setWaveZoomLevel(tl, next)

Resize == Act /\ \E w \in Widths \ {tl.width} :
  tl' = [tl EXCEPT !.width = w, !.resized = TRUE, !.squeezed = @ \/ w < tl.width]

(* The observer asks for a frame; the frame lays out and rules again.       *)
resizeFrame == tl.resized /\
  LET q == [tl EXCEPT !.resized = FALSE]
      laid == applyWaveZoom(q)
  IN /\ tl' = (IF ~q.mounted \/ q.duration = 0 THEN q
               ELSE IF tickStep(q.duration, q.width, q.zoom) = q.step THEN laid
               ELSE buildBarRuler(buildRuler(laid)))
     /\ UNCHANGED acts

(* The engine is up and the beats have come, or one of them was moved.      *)
beatsChanged == Act /\ tl.mounted /\ ~tl.waiting /\ tl' = buildBarRuler([tl EXCEPT !.beats = TRUE])

zoomFrame == tl.frame /\ tl' = [tl EXCEPT !.frame = FALSE] /\ UNCHANGED acts

TimelineNext ==
  Open \/ canplay \/ destroyPlayer \/ wheel \/ Resize \/ resizeFrame \/ zoomFrame \/ beatsChanged

TimelineSpec == TimelineInit /\ [][TimelineNext]_timelineVars

(* ------------------------------ properties ------------------------------ *)
(* Once the frames have run, the ruler is that of the track, with the step  *)
(* its width calls for, and its labels never crowd where zoom chose them.   *)
RulerFitsWidth ==
  tl.mounted /\ ~tl.waiting /\ ~tl.resized =>
    /\ tl.ruled = tl.duration
    /\ tl.step = tickStep(tl.duration, tl.width, tl.zoom)
    /\ tl.laidOut = ContentWidth(tl.width, tl.zoom)
    /\ tl.step < Base(tl.duration) => tl.step * tl.laidOut >= MinTick * tl.duration

(* The bar numbers keep their distance through every zoom; a window made    *)
(* narrower squeezes them until the seconds above them change their step.   *)
BarLabelsFit ==
  tl.mounted /\ ~tl.waiting /\ ~tl.resized /\ tl.barEvery \notin {0, 64} =>
    \/ tl.barEvery * tl.laidOut >= MinBarLabel * Bars(tl.duration)
    \/ tl.squeezed

(* What makes them inductive: only the ruler of a mounted track is looked   *)
(* at; a resize that is still to be laid out has kept its number, and bar   *)
(* numbers that fitted one width fit every wider one.                       *)
MountedHasLength == (tl.mounted <=> tl.duration > 0) /\ (tl.waiting => tl.mounted)
RuledOnce == tl.mounted /\ ~tl.waiting => tl.ruled = tl.duration
BarsFitWider ==
  tl.mounted /\ ~tl.waiting /\ ~tl.squeezed /\ tl.barEvery \notin {0, 64} =>
    tl.barEvery * ContentWidth(tl.width, tl.zoom) >= MinBarLabel * Bars(tl.duration)

TimelineIInv ==
  /\ TimelineTypeOK /\ MountedHasLength /\ RuledOnce /\ BarsFitWider /\ RulerFitsWidth /\ BarLabelsFit
=============================================================================
