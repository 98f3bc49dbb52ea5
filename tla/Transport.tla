----------------------------- MODULE Transport ------------------------------
(***************************************************************************)
(* Play, pause, stop and count-in: src/static/js/transport.js.             *)
(*                                                                         *)
(* The transport drives the engine if there is one, else the page's audio  *)
(* elements (the multitrack).  Opening a track destroys the elements; the  *)
(* engine sounds on, and is what the buttons mean, until the new elements  *)
(* can play.  An engine that decodes everything first is deaf until it has *)
(* decoded something.  In the desktop app the elements drop their buffers  *)
(* after a seek, so play waits for them, or for a timer.  A count-in       *)
(* starts the engine late and clicks meanwhile.                            *)
(*                                                                         *)
(* Where the playhead stands belongs to the engines; a track whose engine  *)
(* fails has nothing to play.                                              *)
(***************************************************************************)
EXTENDS Integers

CONSTANT MaxActs  \* bound: what the user does

VARIABLES tp, acts

transportVars == <<tp, acts>>

TransportAssumption == MaxActs \in Nat

(* track: how the open one is to be played; mounting: its canplay is to     *)
(* come; waits: plays that wait, by how often each will still try; shown:   *)
(* the play button shows "playing".  History: wanted, play was pressed      *)
(* last; lost, that play came to nothing; unseen, something sounds the      *)
(* button was never told of; outlived, a play still waits after a stop, the *)
(* end or the change of the track.                                          *)
TransportRecords ==
  [desktop : BOOLEAN, track : {"none", "engine", "elements"}, mounting : BOOLEAN,
   engine : {"none", "deaf", "up"}, engPlays : BOOLEAN,
   elPlays : BOOLEAN, buffered : BOOLEAN, waits : [1..2 -> 0..MaxActs],
   shown : BOOLEAN, countIn : BOOLEAN, counting : BOOLEAN, loop : BOOLEAN,
   wanted : BOOLEAN, lost : BOOLEAN, unseen : BOOLEAN, outlived : BOOLEAN]
TransportTypeOK == tp \in TransportRecords /\ acts \in 0..MaxActs

TransportInit ==
  /\ \E desktop \in BOOLEAN :
       tp = [desktop |-> desktop, track |-> "none", mounting |-> FALSE, engine |-> "none",
             engPlays |-> FALSE, elPlays |-> FALSE, buffered |-> FALSE,
             waits |-> [left \in 1..2 |-> 0], shown |-> FALSE, countIn |-> FALSE,
             counting |-> FALSE, loop |-> FALSE,
             wanted |-> FALSE, lost |-> FALSE, unseen |-> FALSE, outlived |-> FALSE]
  /\ acts = 0

Act == acts < MaxActs /\ acts' = acts + 1

Sounds(t) == t.engPlays \/ t.elPlays
Waits(t) == t.waits[1] > 0 \/ t.waits[2] > 0
isPlaying(t) == IF t.engine # "none" THEN t.engPlays ELSE t.elPlays

(* A seek empties the elements' buffers in the desktop app.                 *)
setTime(t) == IF t.engine # "none" THEN t ELSE [t EXCEPT !.buffered = ~t.desktop]

(* The elements of a track an engine plays have nothing to play; those of   *)
(* one that is mounting tell the button nothing yet.                        *)
elementsPlay(t) ==
  IF t.track # "elements" THEN t
  ELSE [t EXCEPT !.elPlays = TRUE, !.shown = @ \/ ~t.mounting,
                 !.unseen = @ \/ t.mounting \/ t.engine # "none"]

ReadyToPlay(t) == ~t.desktop \/ t.buffered \/ t.track # "elements"

(* Both the buffers and the timer will try to start it.                     *)
playWhenReadyOnce(t) ==
  IF ReadyToPlay(t) THEN elementsPlay([t EXCEPT !.lost = t.track # "elements"])
  ELSE [t EXCEPT !.lost = FALSE]
playWhenReady(t) ==
  IF ReadyToPlay(t) THEN elementsPlay([t EXCEPT !.lost = t.track # "elements"])
  ELSE [t EXCEPT !.lost = FALSE, !.waits[2] = @ + 1]

(* A deaf engine ignores it; the button shows it all the same.              *)
startEngine(t, arms) ==
  LET hears == t.engine = "up"
  IN [t EXCEPT !.engPlays = hears, !.counting = arms /\ hears, !.shown = TRUE, !.lost = ~hears]

paused(t) ==
  [t EXCEPT !.engPlays = FALSE, !.elPlays = @ /\ t.engine # "none", !.shown = FALSE, !.counting = FALSE,
            !.wanted = FALSE, !.lost = FALSE, !.unseen = t.elPlays /\ t.engine # "none",
            !.outlived = Waits(t)]

(* Whether a count-in can be had depends on the click track and the grid.   *)
played(t, arms) ==
  LET snapped == [(IF t.loop THEN setTime(t) ELSE t) EXCEPT !.wanted = TRUE]
  IN IF t.engine # "none" THEN startEngine(snapped, arms) ELSE playWhenReady(snapped)

(* ------------------------------- the steps ------------------------------ *)
(* The elements go at once, and the button with them; timers of the track   *)
(* before will find the new ones.                                           *)
opened(t, track) ==
  [t EXCEPT !.track = track, !.mounting = TRUE, !.elPlays = FALSE, !.buffered = ~t.desktop, !.shown = FALSE,
            !.loop = FALSE, !.wanted = FALSE, !.lost = FALSE, !.unseen = t.engPlays, !.outlived = Waits(t)]
Open == Act /\ \E track \in {"engine", "elements"} : tp' = opened(tp, track)

(* canplay: only a track with an engine of its own ends the one before.     *)
replaced(t, engine) ==
  [t EXCEPT !.mounting = FALSE, !.engine = engine, !.engPlays = FALSE, !.counting = FALSE,
            !.lost = t.wanted, !.unseen = FALSE]
canplay == tp.mounting /\ UNCHANGED acts /\
  \/ tp.track = "engine" /\ \E engine \in {"deaf", "up"} : tp' = replaced(tp, engine)
  \/ tp.track = "elements" /\ tp' = [tp EXCEPT !.mounting = FALSE, !.counting = FALSE]

(* The engine has decoded its first stem.                                   *)
Hears == tp.engine = "deaf" /\ tp' = [tp EXCEPT !.engine = "up"] /\ UNCHANGED acts

togglePlayPause == Act /\ tp.track # "none" /\ \E arms \in {FALSE, tp.countIn} :
  tp' = (IF isPlaying(tp) THEN paused(tp) ELSE played(tp, arms))

stopTransport == Act /\ tp.track # "none" /\ tp' = setTime(paused(tp))
seek == Act /\ tp.track # "none" /\ tp' = setTime(tp)
toggleLoop == Act /\ tp' = [tp EXCEPT !.loop = ~@]
toggleCountIn == Act /\ tp' = [tp EXCEPT !.countIn = ~@]

Buffer == tp.track = "elements" /\ ~tp.buffered /\ tp' = [tp EXCEPT !.buffered = TRUE] /\ UNCHANGED acts

(* Buffered at last, and 1.5 s later: the first of the two that finds the   *)
(* elements silent starts them, the other then does nothing.                *)
fire == \E left \in 1..2 :
  /\ tp.waits[left] > 0
  /\ LET q == [tp EXCEPT !.waits[left] = @ - 1]
     IN tp' = (IF ~tp.elPlays THEN elementsPlay(q)
               ELSE IF left = 2 THEN [q EXCEPT !.waits[1] = @ + 1] ELSE q)
  /\ UNCHANGED acts

(* The engine's audio enters, the count is over.                            *)
Entered == tp.counting /\ tp' = [tp EXCEPT !.counting = FALSE] /\ UNCHANGED acts

(* The end of the track.  Without an engine the elements' handlers loop.    *)
ended == UNCHANGED acts /\
  \/ /\ tp.engPlays /\ ~tp.counting /\ ~tp.loop
     /\ tp' = [tp EXCEPT !.engPlays = FALSE, !.shown = FALSE, !.wanted = FALSE, !.outlived = Waits(tp)]
  \/ /\ tp.elPlays /\ (~tp.loop \/ tp.mounting)
     /\ tp' = [tp EXCEPT !.elPlays = FALSE, !.shown = @ /\ tp.mounting,
                         !.wanted = @ /\ tp.engPlays, !.outlived = @ \/ Waits(tp)]

TransportNext ==
  \/ Open \/ canplay \/ Hears \/ togglePlayPause \/ stopTransport \/ seek \/ toggleLoop \/ toggleCountIn
  \/ Buffer \/ fire \/ Entered \/ ended

(* The timer fires.                                                         *)
TransportFairness == WF_transportVars(fire)
TransportSpec == TransportInit /\ [][TransportNext]_transportVars /\ TransportFairness

(* ------------------------------ properties ------------------------------ *)
(* No count is heard over a transport that stands still.                    *)
CountEndsWithPlay == tp.counting => tp.engPlays

(* The button shows what is heard.  Two exceptions are the code's: a play   *)
(* that a deaf engine, or one about to be replaced, took and that came to   *)
(* nothing (lost), and what sounds of the track before, or sounds before    *)
(* its canplay (unseen).                                                    *)
ButtonTells ==
  /\ tp.shown => Sounds(tp) \/ tp.lost
  /\ Sounds(tp) => tp.shown \/ tp.unseen

(* What plays was asked for, and what was asked for plays, waits for its    *)
(* buffers, or was lost.  A play that waits is not taken back by Stop, nor  *)
(* by another track: it starts what is there then (outlived).               *)
PlaysWhenAsked ==
  /\ Sounds(tp) => tp.wanted \/ tp.unseen \/ tp.outlived
  /\ tp.wanted => Sounds(tp) \/ Waits(tp) \/ tp.lost

(* What makes them inductive: each play that waits was an act of the user,  *)
(* only the desktop app waits, a play that outlives its stop does wait or   *)
(* has started, elements sound only for a track of theirs, an engine only   *)
(* for a play it heard; and what the button shows of an engine's track, or  *)
(* before any canplay, was asked of an engine.                              *)
WaitsWereAsked == tp.waits[1] + tp.waits[2] <= acts
DesktopWaits == ~tp.desktop => ~Waits(tp)
WaitsAreWanted == Waits(tp) => tp.wanted \/ tp.outlived
PartsPlay ==
  /\ tp.elPlays => tp.track = "elements" /\ (tp.engine # "none" => tp.unseen)
  /\ tp.engPlays => tp.engine = "up" /\ ~tp.lost
  /\ tp.shown \/ tp.lost => tp.wanted \/ tp.track = "elements"
  /\ tp.mounting /\ tp.shown => tp.engine # "none" /\ (tp.engPlays \/ tp.lost)
  /\ tp.track # "elements" /\ tp.wanted => tp.engPlays \/ tp.lost
  /\ tp.engine = "none" =>
       (tp.track = "engine" => tp.mounting) /\ (tp.lost => tp.track # "elements")
TransportIInv ==
  /\ TransportTypeOK /\ WaitsWereAsked /\ DesktopWaits /\ WaitsAreWanted /\ PartsPlay
  /\ CountEndsWithPlay /\ ButtonTells /\ PlaysWhenAsked

(* Must end, "so the user is never stuck": play pressed is play, taken back *)
(* or lost.                                                                 *)
PlayWaits == tp.wanted /\ ~Sounds(tp) /\ ~tp.lost
=============================================================================
