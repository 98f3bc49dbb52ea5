------------------------------- MODULE Player -------------------------------
(***************************************************************************)
(* Bringing a track up in the studio: src/static/js/player.js.             *)
(*                                                                         *)
(* Every call of wireUpAudio mounts track m, the m-th of the page.  Its    *)
(* multitrack, its engine, its peaks and its beat grid are all waited for, *)
(* and the user may open another track or empty the studio while any of    *)
(* them is on the way.  Late answers compare the token and the multitrack  *)
(* they started with; the canplay handler compares neither, because the    *)
(* multitrack's destroy() does not unsubscribe it.  What is drawn for a    *)
(* track is left out; its loading overlay is module LoadingOverlay.        *)
(***************************************************************************)
EXTENDS Integers

CONSTANTS
  MaxMounts,  \* bound: tracks opened on one page
  Modes       \* how a track may have to be played, of AllModes

VARIABLES pl, acts

playerVars == <<pl, acts>>
Mounts == 1..MaxMounts
EngineIds == [m : Mounts, kind : {"chunked", "fulldecode"}]
None == [m |-> 0, kind |-> "none"]

(* engineMode, and whether the decoded track fits in memory: a large one    *)
(* never gets the engine that decodes it whole.                             *)
AllModes == {"streaming", "chunked", "chunkedLarge", "fulldecode"}
PlayerAssumption == Modes \subseteq AllModes /\ MaxMounts \in Nat

PlayerRecords ==
  [token : 0..MaxMounts, multitrack : 0..MaxMounts, mode : [Mounts -> Modes], canplay : SUBSET Mounts,
   beats : [Mounts -> {"asked", "some", "none"}], peaks : [Mounts -> {"asked", "some", "none"}],
   engine : EngineIds \cup {None}, starting : SUBSET EngineIds, alive : SUBSET EngineIds,
   onBeats : SUBSET EngineIds, onPeaks : SUBSET EngineIds,
   metronome : EngineIds \cup {None}, editor : 0..MaxMounts, undone : BOOLEAN]

PlayerTypeOK ==
  /\ pl \in PlayerRecords /\ pl.multitrack \in {0, pl.token}
  /\ \A id \in pl.onBeats : pl.beats[id.m] = "asked"
  /\ \A id \in pl.onPeaks : pl.peaks[id.m] = "asked" /\ id.kind = "chunked"
  /\ acts \in 0..MaxMounts + 1 + pl.token

PlayerInit ==
  /\ \E mode \in [Mounts -> Modes] :
       pl = [token |-> 0, multitrack |-> 0, mode |-> mode, canplay |-> {},
             beats |-> [m \in Mounts |-> "none"], peaks |-> [m \in Mounts |-> "none"],
             engine |-> None, starting |-> {}, alive |-> {}, onBeats |-> {}, onPeaks |-> {},
             metronome |-> None, editor |-> 0, undone |-> FALSE]
  /\ acts = 0

(* -------------------------- engines and metronome ----------------------- *)
useEngine(p, m) == p.mode[m] # "streaming"
firstEngine(p, m) == [m |-> m, kind |-> IF p.mode[m] = "fulldecode" THEN "fulldecode" ELSE "chunked"]
canFallBack(p, id) == id.kind = "chunked" /\ p.mode[id.m] # "chunkedLarge"

teardownMetronome(p) == [p EXCEPT !.metronome = None, !.editor = 0]

dropEngine(p, id) ==
  [p EXCEPT !.alive = @ \ {id}, !.engine = IF @ = id THEN None ELSE @]

startEngine(p, id) ==
  [p EXCEPT !.engine = id, !.alive = @ \cup {id}, !.starting = @ \cup {id}, !.undone = FALSE]

switched(p, id) == p.token # id.m \/ p.multitrack # id.m

clickOn(p, id) ==
  LET q == teardownMetronome(p)
  IN IF p.beats[id.m] = "some" THEN [q EXCEPT !.metronome = id, !.editor = id.m] ELSE q

(* The beat grid is there: the click track is built on this engine, if it   *)
(* is still the one that plays.                                             *)
beatsFor(p, id) == IF switched(p, id) \/ p.engine # id THEN p ELSE clickOn(p, id)

fullDecode(p, id) ==
  startEngine(dropEngine(teardownMetronome(p), id), [id EXCEPT !.kind = "fulldecode"])

(* No peaks for a chunked track: it is decoded whole, unless too large.     *)
peaksFor(p, id) ==
  IF switched(p, id) \/ p.engine # id \/ p.peaks[id.m] = "some" \/ ~canFallBack(p, id) THEN p
  ELSE fullDecode(p, id)

(* eng.ready resolved; what it then waits for may be there already.         *)
engineUp(p, id) ==
  LET beats == IF p.beats[id.m] = "asked" THEN [p EXCEPT !.onBeats = @ \cup {id}]
               ELSE beatsFor(p, id)
  IN IF id.kind = "fulldecode" THEN beats
     ELSE IF p.peaks[id.m] = "asked" THEN [beats EXCEPT !.onPeaks = @ \cup {id}]
     ELSE peaksFor(beats, id)

engineDown(p, id) ==
  IF canFallBack(p, id) THEN fullDecode(p, id) ELSE dropEngine(teardownMetronome(p), id)

(* Whoever comes too late takes down the click that is there, also when it  *)
(* hangs on the engine that plays (undone).                                 *)
late(p, id) == [dropEngine(teardownMetronome(p), id) EXCEPT !.undone = @ \/ p.engine # id]

engineReadyAnyTrack(p, id, ok) ==
  LET q == [p EXCEPT !.starting = @ \ {id}]
  IN IF ok THEN engineUp(q, id) ELSE engineDown(q, id)

engineReady(p, id, ok) ==
  LET q == [p EXCEPT !.starting = @ \ {id}]
  IN IF switched(p, id) THEN late(q, id)
     ELSE IF ok THEN engineUp(q, id) ELSE engineDown(q, id)

(* The bring-up threw: the same whatever track is open by now.              *)
engineThrew(p, id) == late([p EXCEPT !.starting = @ \ {id}], id)

(* ------------------------------- the steps ------------------------------ *)
wireUpAudio ==
  /\ pl.token < MaxMounts /\ acts' = acts + 1
  /\ LET m == pl.token + 1 IN
       pl' = [pl EXCEPT !.token = m, !.multitrack = m, !.canplay = @ \cup {m},
                        !.beats[m] = "asked", !.peaks[m] = "asked"]

emptied(p) == [dropEngine(teardownMetronome(p), p.engine) EXCEPT !.multitrack = 0]

destroyPlayer ==
  /\ acts <= MaxMounts /\ acts' = acts + 1
  /\ pl.multitrack # 0 /\ pl' = emptied(pl)

(* canplay: the old engine goes, the one of this multitrack comes.          *)
mounted(p, m) ==
  LET q == teardownMetronome([p EXCEPT !.canplay = @ \ {m}])
  IN IF useEngine(p, m) THEN startEngine(dropEngine(q, p.engine), firstEngine(p, m))
     ELSE [q EXCEPT !.undone = TRUE]

canplay == \E m \in pl.canplay : pl' = mounted(pl, m) /\ UNCHANGED acts

engineSettled == \E id \in pl.starting :
  /\ \/ \E ok \in BOOLEAN : pl' = engineReady(pl, id, ok)
     \/ pl' = engineThrew(pl, id)
  /\ UNCHANGED acts

(* A fetch is answered, and every engine of the track that waits for it     *)
(* goes on at once; only the one that plays does anything.                  *)
WaitingIn(S, m) == {id \in S : id.m = m}

beatsThere(p, m, answer) ==
  LET q == [p EXCEPT !.beats[m] = answer, !.onBeats = @ \ WaitingIn(p.onBeats, m)]
  IN IF p.engine \in WaitingIn(p.onBeats, m) THEN beatsFor(q, p.engine) ELSE q

peaksThere(p, m, answer) ==
  LET q == [p EXCEPT !.peaks[m] = answer, !.onPeaks = @ \ WaitingIn(p.onPeaks, m)]
  IN IF p.engine \in WaitingIn(p.onPeaks, m) THEN peaksFor(q, p.engine) ELSE q

beatsAnswered == \E m \in Mounts, answer \in {"some", "none"} :
  pl.beats[m] = "asked" /\ pl' = beatsThere(pl, m, answer) /\ UNCHANGED acts

peaksAnswered == \E m \in Mounts, answer \in {"some", "none"} :
  pl.peaks[m] = "asked" /\ pl' = peaksThere(pl, m, answer) /\ UNCHANGED acts

PlayerNext ==
  wireUpAudio \/ destroyPlayer \/ canplay \/ engineSettled \/ beatsAnswered \/ peaksAnswered

(* Engines come up or fail, and the two fetches are aborted after seconds.  *)
PlayerFairness ==
  WF_playerVars(engineSettled) /\ WF_playerVars(beatsAnswered) /\ WF_playerVars(peaksAnswered)
PlayerSpec == PlayerInit /\ [][PlayerNext]_playerVars /\ PlayerFairness

(* ------------------------------ properties ------------------------------ *)
(* An engine that lost its place to another is gone, or has yet to answer   *)
(* and goes then: two engines that came up are never alive together.        *)
OneEngineAlive == pl.alive \ {pl.engine} \subseteq pl.starting

(* The click track hangs on the nodes of a living engine, the current one,  *)
(* and the beat grid being edited is that engine's track.                   *)
ClickHasItsEngine ==
  /\ pl.metronome # None => pl.metronome = pl.engine /\ pl.engine \in pl.alive
  /\ pl.editor = pl.metronome.m

(* The engine that plays the open track has its click once the beat grid is *)
(* there, whichever engine asked for it, unless a late one took it down.    *)
ClickIsThere ==
  /\ pl.engine # None /\ pl.engine \notin pl.starting /\ ~switched(pl, pl.engine)
  /\ pl.beats[pl.engine.m] = "some" /\ ~pl.undone
  => pl.metronome = pl.engine

(* What makes the three inductive: an engine is of a track whose canplay is *)
(* over; of each track at most one is coming up, and never beside one that  *)
(* plays the open track; what lives beside the current engine is of another *)
(* track; and the click waits where the beats will look.                    *)
EnginesOfMounted == \A id \in pl.alive \cup pl.starting \cup pl.onPeaks : id.m <= pl.token /\ id.m \notin pl.canplay
CanplaysOfMounted == \A m \in pl.canplay : m <= pl.token
OneComesUp == \A i, j \in pl.starting : i.m = j.m => i = j
UpOrWaiting == pl.onPeaks \cap pl.starting = {}
EngineAlive == pl.engine \in pl.alive \cup {None}
PlaysAlone ==
  pl.engine # None /\ pl.engine \notin pl.starting => \A id \in pl.starting : switched(pl, id)
OthersAreLate == \A id \in pl.alive \ {pl.engine} : switched(pl, id)
ClickAwaited ==
  /\ pl.engine # None /\ pl.engine \notin pl.starting /\ ~switched(pl, pl.engine)
  /\ pl.beats[pl.engine.m] = "asked" /\ ~pl.undone
  => pl.engine \in pl.onBeats

PlayerIInv ==
  /\ PlayerTypeOK /\ EnginesOfMounted /\ CanplaysOfMounted /\ OneComesUp /\ UpOrWaiting /\ EngineAlive
  /\ PlaysAlone /\ OthersAreLate /\ ClickAwaited /\ OneEngineAlive /\ ClickHasItsEngine /\ ClickIsThere

(* Must end: what an emptied studio had on the way does not come back to    *)
(* sound; a late engine is dropped once it has come up.                     *)
SoundsEmptied == pl.multitrack = 0 /\ pl.engine # None
=============================================================================
