---------------------------- MODULE MobilePlayer ----------------------------
(***************************************************************************)
(* The mixer and the library of the mobile page: src/static/mobile/app.js. *)
(*                                                                         *)
(* Opening a track waits twice, for its details and for its audio, and the *)
(* user may open another, delete it, or touch play, speed and switches     *)
(* meanwhile.  A token tells a continuation that it is out of date.        *)
(***************************************************************************)
EXTENDS Integers, FiniteSets

CONSTANTS
  Tracks,
  Lanes,
  MaxActs  \* bound: what the user does

VARIABLES mp, acts

mobileVars == <<mp, acts>>
None == "none"
Speeds == {1, 2}

MobileAssumption == None \notin Tracks /\ MaxActs \in Nat

MobileRecords ==
  [tracks : SUBSET Tracks, server : SUBSET Tracks, current : Tracks \cup {None},
   view : {"loading", "shown", "error"}, engine : Tracks \cup {None}, ready : BOOLEAN,
   pendingPlay : BOOLEAN, playing : BOOLEAN, muted : SUBSET Lanes, solo : SUBSET Lanes, heard : SUBSET Lanes,
   speed : Speeds, rate : Speeds, early : BOOLEAN, opens : SUBSET [n : 1..MaxActs, step : {"detail", "audio"}],
   token : 0..MaxActs, deletes : SUBSET Tracks, loads : SUBSET SUBSET Tracks]
MobileTypeOK == mp \in MobileRecords /\ acts \in 0..MaxActs

MobileInit ==
  /\ mp = [tracks |-> {}, server |-> Tracks, current |-> None, view |-> "shown",
           engine |-> None, ready |-> FALSE, pendingPlay |-> FALSE, playing |-> FALSE,
           muted |-> {}, solo |-> {}, heard |-> Lanes, speed |-> 1, rate |-> 1, early |-> FALSE,
           opens |-> {}, token |-> 0, deletes |-> {}, loads |-> {Tracks}]
  /\ acts = 0

Act == acts < MaxActs /\ acts' = acts + 1

laneActive(m, l) == l \notin m.muted /\ (m.solo = {} \/ l \in m.solo)
applyMix(m) == IF m.engine = None THEN m ELSE [m EXCEPT !.heard = {l \in Lanes : laneActive(m, l)}]
destroyed(m) == [m EXCEPT !.engine = None, !.ready = FALSE, !.playing = FALSE]

(* ----------------------------- opening a track -------------------------- *)
openTrack(m, id, autoplay) ==
  [destroyed(m) EXCEPT !.current = id, !.view = "loading", !.speed = 1, !.pendingPlay = autoplay,
                       !.token = acts + 1, !.early = FALSE,
                       !.opens = @ \cup {[n |-> acts + 1, step |-> "detail"]}]

Open == Act /\ \E id \in mp.tracks : mp' = openTrack(mp, id, FALSE)

(* The next track, or the one before, plays on if this one plays.           *)
Skip == Act /\ mp.current # None /\ \E id \in mp.tracks \ {mp.current} :
  mp' = openTrack(mp, id, mp.playing)

outdated(o) == o.n # mp.token

(* With the track deleted meanwhile there is nothing to write the details   *)
(* into, and the continuation ends in an error.                             *)
DetailArrives == \E o \in mp.opens :
  /\ o.step = "detail"
  /\ LET q == [mp EXCEPT !.opens = @ \ {o}]
         detailed == [q EXCEPT !.muted = {}, !.solo = {}, !.view = "shown"]
         started == [detailed EXCEPT !.engine = mp.current, !.rate = 1, !.heard = Lanes,
                                     !.opens = @ \cup {[o EXCEPT !.step = "audio"]}]
     IN \/ (outdated(o) \/ mp.current = None) /\ mp' = q
        \/ ~outdated(o) /\ mp.current # None /\ mp' = started
        \/ ~outdated(o) /\ mp.current # None /\ mp' = [q EXCEPT !.view = "error"]
        \/ ~outdated(o) /\ mp.current # None /\ mp' = [detailed EXCEPT !.view = "error"]
  /\ UNCHANGED acts

AudioArrives == \E o \in mp.opens :
  /\ o.step = "audio"
  /\ LET q == [mp EXCEPT !.opens = @ \ {o}]
         up == applyMix([q EXCEPT !.ready = TRUE])
     IN \/ outdated(o) /\ mp' = q
        \/ ~outdated(o) /\
             mp' = [up EXCEPT !.pendingPlay = FALSE, !.playing = mp.pendingPlay /\ mp.engine # None]
        \/ ~outdated(o) /\ mp' =
             (IF mp.current = None THEN q ELSE [q EXCEPT !.view = "error", !.pendingPlay = FALSE])
  /\ UNCHANGED acts

(* ------------------------------ the transport --------------------------- *)
togglePlay == Act /\ mp.current # None /\
  mp' = (IF mp.engine = None THEN openTrack(mp, mp.current, TRUE)
         ELSE IF ~mp.ready THEN [mp EXCEPT !.pendingPlay = TRUE]
         ELSE [mp EXCEPT !.playing = ~@])
onEnded == mp.playing /\ mp' = [mp EXCEPT !.playing = FALSE] /\ UNCHANGED acts

setSpeed(m, rate) ==
  IF m.engine = None THEN [m EXCEPT !.speed = rate, !.early = TRUE]
  ELSE [m EXCEPT !.speed = rate, !.rate = rate, !.early = FALSE]
Speed == Act /\ mp.current # None /\ \E rate \in Speeds : mp' = setSpeed(mp, rate)

Switch == Act /\ mp.view = "shown" /\ mp.current # None /\ \E l \in Lanes :
  \/ mp' = applyMix([mp EXCEPT !.muted = (@ \ {l}) \cup ({l} \ @)])
  \/ mp' = applyMix([mp EXCEPT !.solo = (@ \ {l}) \cup ({l} \ @)])

(* ------------------------------- the library ---------------------------- *)
loadLibrary == Act /\ mp' = [mp EXCEPT !.loads = @ \cup {mp.server}]
LibraryArrives == \E answer \in mp.loads :
  mp' = [mp EXCEPT !.loads = @ \ {answer}, !.tracks = answer] /\ UNCHANGED acts
LibraryFails == \E answer \in mp.loads : mp' = [mp EXCEPT !.loads = @ \ {answer}] /\ UNCHANGED acts

(* The row goes whatever the server answers.                                *)
DeleteClicked == Act /\ \E id \in mp.tracks : mp' = [mp EXCEPT !.deletes = @ \cup {id}]
gone(m, id) ==
  IF m.current = id THEN [destroyed(m) EXCEPT !.current = None, !.tracks = @ \ {id}]
  ELSE [m EXCEPT !.tracks = @ \ {id}]
deleteTrack == \E id \in mp.deletes, refused \in BOOLEAN :
  mp' = gone([mp EXCEPT !.deletes = @ \ {id}, !.server = IF refused THEN @ ELSE @ \ {id}], id)
  /\ UNCHANGED acts

MobileNext ==
  \/ Open \/ Skip \/ DetailArrives \/ AudioArrives \/ togglePlay \/ onEnded \/ Speed \/ Switch
  \/ loadLibrary \/ LibraryArrives \/ LibraryFails \/ DeleteClicked \/ deleteTrack

MobileSpec == MobileInit /\ [][MobileNext]_mobileVars

(* ------------------------------ properties ------------------------------ *)
(* What can be heard is the track on the screen, whatever was opened,       *)
(* skipped and deleted before its audio came.                               *)
NoGhostAudio == mp.engine # None => mp.engine = mp.current

(* It sounds as the switches and the speed say, unless the speed was moved  *)
(* while there was no engine to tell.                                       *)
SoundsAsShown ==
  mp.ready /\ mp.engine # None =>
    /\ mp.heard = {l \in Lanes : laneActive(mp, l)}
    /\ mp.early \/ mp.rate = mp.speed

(* What makes it inductive: an opening that is not out of date and has no   *)
(* details yet has no engine either, and its speed is the new one's unless  *)
(* it was moved; no two openings share a number.                            *)
NotYetUp ==
  \A o \in mp.opens : ~outdated(o) /\ o.step = "detail" =>
    mp.engine = None /\ ~mp.ready /\ (mp.early \/ mp.speed = 1)
EngineAtSpeed == mp.engine # None => mp.early \/ mp.rate = mp.speed
OpensApart ==
  /\ mp.token <= acts
  /\ \A o, p \in mp.opens : o.n <= acts /\ (o.n = p.n => o = p)
MobileIInv == MobileTypeOK /\ NotYetUp /\ EngineAtSpeed /\ OpensApart /\ NoGhostAudio /\ SoundsAsShown
=============================================================================
