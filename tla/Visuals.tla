------------------------------ MODULE Visuals -------------------------------
(***************************************************************************)
(* What the studio draws of a track: waveforms over the lanes, the one in  *)
(* the footer, the energy bars and the meters of src/static/js/player.js.  *)
(*                                                                         *)
(* All of it comes late: from the peaks the server has, or from decoded    *)
(* audio when it has none.  Each continuation knows the track it is for by *)
(* its mount, the number wireUpAudio gave it; most of them compare it.     *)
(***************************************************************************)
EXTENDS Integers

CONSTANTS
  MaxMounts,  \* bound: tracks opened on one page
  MaxActs     \* bound: what the user does

VARIABLES vi, acts

visualVars == <<vi, acts>>
Mounts == 1..MaxMounts
Shown == 0..MaxMounts   \* the mount something was drawn for, 0 for nothing
Paths == {"streaming", "chunked", "chunkedLarge", "fulldecode"}

VisualsAssumption == MaxMounts \in Nat /\ MaxActs \in Nat

VisualsRecords ==
  [token : Shown, mt : Shown, overview : Shown, source : Shown, footer : Shown, energy : Shown,
   meters : Shown, path : [Mounts -> Paths], peaks : [Mounts -> {"no", "asked", "late", "some", "none"}],
   canplay : SUBSET Mounts, decoding : SUBSET Mounts, footers : SUBSET Mounts,
   engine : [Mounts -> {"no", "starting", "chunked", "up"}], frame : BOOLEAN, stray : BOOLEAN]
VisualsTypeOK == vi \in VisualsRecords /\ acts \in 0..MaxActs

VisualsInit ==
  /\ vi = [token |-> 0, mt |-> 0, overview |-> 0, source |-> 0, footer |-> 0, energy |-> 0,
           meters |-> 0, path |-> [m \in Mounts |-> "chunked"], peaks |-> [m \in Mounts |-> "no"],
           canplay |-> {}, decoding |-> {}, footers |-> {}, engine |-> [m \in Mounts |-> "no"],
           frame |-> FALSE, stray |-> FALSE]
  /\ acts = 0

Act == acts < MaxActs /\ acts' = acts + 1

(* ------------------------------- drawing -------------------------------- *)
renderAllOverviewWaveforms(v, m) == [v EXCEPT !.overview = m, !.source = m]

(* A zoom or a new width draws again what was drawn last.                   *)
rerenderOverviewWaveforms(v) == IF v.source = 0 THEN v ELSE [v EXCEPT !.overview = v.source]

stopStemVuLoop(v) == [v EXCEPT !.meters = 0]
startVuLoop(v, m) == [v EXCEPT !.meters = m]

applyWaveZoom(v) == IF v.mt = 0 THEN v ELSE [v EXCEPT !.frame = TRUE]

(* From what was decoded, unless the peaks have drawn the lanes.            *)
fromDecoded(v, m) ==
  LET lanes == IF v.peaks[m] = "some" THEN v ELSE renderAllOverviewWaveforms(v, m)
  IN startVuLoop([lanes EXCEPT !.energy = m], m)

(* ------------------------------- the track ------------------------------ *)
wireUpAudio == Act /\ vi.token < MaxMounts /\ \E path \in Paths :
  LET m == vi.token + 1
  IN vi' = [stopStemVuLoop(vi) EXCEPT
              !.token = m, !.mt = m, !.path[m] = path, !.overview = 0, !.footer = 0,
              !.peaks[m] = "asked", !.canplay = @ \cup {m}]

(* Footers that are still being fetched find no context to decode in.       *)
destroyPlayer == Act /\ vi.mt # 0 /\ \E footers \in SUBSET vi.footers :
  vi' = [stopStemVuLoop(vi) EXCEPT !.mt = 0, !.overview = 0, !.footer = 0, !.energy = 0,
                                   !.engine = [m \in Mounts |-> IF @[m] = "starting" THEN @[m] ELSE "no"],
                                   !.footers = footers]

(* The peaks draw at once, lanes and footer; without them the footer is     *)
(* decoded from the audio.                                                  *)
peaksDrawn(v, m, some) ==
  IF some THEN renderAllOverviewWaveforms([v EXCEPT !.peaks[m] = "some", !.footer = m], m)
  ELSE [v EXCEPT !.peaks[m] = "none", !.footers = @ \cup {m}]
peaksFor(v, m, some) ==
  IF m # v.token THEN [v EXCEPT !.peaks[m] = "late"] ELSE peaksDrawn(v, m, some)

(* What a chunked engine draws of the peaks; without any it is replaced by  *)
(* one that decodes, if the track is not too large for that.                *)
switched(v, m) == v.token # m \/ v.mt # m
enginePeaks(v, m) ==
  IF switched(v, m) \/ v.engine[m] # "chunked" \/ v.peaks[m] = "asked" THEN v
  ELSE IF v.peaks[m] = "some" THEN [v EXCEPT !.energy = m]
  ELSE IF v.path[m] = "chunkedLarge" THEN v
  ELSE [v EXCEPT !.engine[m] = "starting", !.path[m] = "fulldecode"]

peaksAnswered == \E m \in Mounts, some \in BOOLEAN :
  /\ vi.peaks[m] = "asked"
  /\ vi' = enginePeaks(peaksFor(vi, m, some), m)
  /\ UNCHANGED acts

(* A multitrack that was replaced may still say it can play (stray).        *)
canplay == \E m \in vi.canplay :
  LET q == applyWaveZoom([vi EXCEPT !.canplay = @ \ {m}, !.stray = @ \/ m # vi.mt])
      drawn == IF q.peaks[m] = "some" THEN renderAllOverviewWaveforms(q, m) ELSE q
  IN /\ vi' = (IF vi.path[m] = "streaming" THEN [drawn EXCEPT !.decoding = @ \cup {m}]
               ELSE [drawn EXCEPT !.engine = [k \in Mounts |->
                       IF k = m THEN "starting" ELSE IF @[k] = "starting" THEN @[k] ELSE "no"]])
     /\ UNCHANGED acts

(* Streamed audio is decoded for the pictures only; 15 s are enough.        *)
decodedDrawn(v, m) == fromDecoded([v EXCEPT !.decoding = @ \ {m}], m)
decodedFor(v, m) ==
  IF m # v.token THEN [v EXCEPT !.decoding = @ \ {m}] ELSE decodedDrawn(v, m)
streamDecoded == \E m \in vi.decoding : vi' = decodedFor(vi, m) /\ UNCHANGED acts

engineReady == \E m \in Mounts :
  /\ vi.engine[m] = "starting"
  /\ \/ switched(vi, m) /\ vi' = [vi EXCEPT !.engine[m] = "no"]
     \/ ~switched(vi, m) /\ vi.path[m] = "fulldecode" /\
          vi' = fromDecoded([vi EXCEPT !.engine[m] = "up"], m)
     \/ ~switched(vi, m) /\ vi.path[m] # "fulldecode" /\
          vi' = enginePeaks(startVuLoop([vi EXCEPT !.engine[m] = "chunked"], m), m)
  /\ UNCHANGED acts

(* No mount is compared here.                                               *)
initFooterWaveform == \E m \in vi.footers :
  vi' = [vi EXCEPT !.footers = @ \ {m}, !.footer = m] /\ UNCHANGED acts

(* ------------------------------- the window ----------------------------- *)
setWaveZoomLevel == Act /\ vi.mt # 0 /\ vi' = applyWaveZoom(vi)
zoomFrame == vi.frame /\
  LET q == [vi EXCEPT !.frame = FALSE]
  IN vi' = (IF vi.mt = 0 THEN q ELSE rerenderOverviewWaveforms(q)) /\ UNCHANGED acts

(* A frame of the meters ends their loop when the track is another.         *)
meterFrame == vi.meters # 0 /\ switched(vi, vi.meters) /\ vi' = stopStemVuLoop(vi) /\ UNCHANGED acts

VisualsNext ==
  \/ wireUpAudio \/ destroyPlayer \/ peaksAnswered \/ canplay \/ streamDecoded \/ engineReady
  \/ initFooterWaveform \/ setWaveZoomLevel \/ zoomFrame \/ meterFrame

VisualsSpec == VisualsInit /\ [][VisualsNext]_visualVars

(* ------------------------------ properties ------------------------------ *)
(* Once the peaks of the open track are there, the lanes show them and go   *)
(* on showing them, through every zoom and whatever the tracks before it    *)
(* still had on the way; so does the footer if those tracks had peaks too.  *)
PeaksStayOnScreen ==
  vi.mt # 0 /\ vi.mt = vi.token /\ vi.peaks[vi.mt] = "some" /\ ~vi.stray =>
    /\ vi.overview = vi.mt
    /\ (\A m \in 1..vi.mt : vi.peaks[m] # "none") => vi.footer = vi.mt

(* The meters that move are those of the track that plays, and the energy   *)
(* bars are its own as soon as its audio can be heard and drawn.            *)
MetersOfTheTrack ==
  vi.mt # 0 =>
    /\ vi.meters \in {0, vi.mt}
    /\ vi.engine[vi.mt] = "up" \/ (vi.engine[vi.mt] = "chunked" /\ vi.peaks[vi.mt] = "some")
         => vi.energy = vi.mt /\ vi.meters = vi.mt

(* What makes them inductive: what was drawn last is what a zoom draws      *)
(* again, footers are decoded only for tracks without peaks, and an engine  *)
(* that is up has started the meters.                                       *)
OfMounted ==
  \A m \in Mounts : m \in vi.canplay \/ vi.peaks[m] # "no" \/ vi.engine[m] # "no" => m <= vi.token
DrawnAgain == vi.mt # 0 /\ vi.peaks[vi.mt] = "some" /\ ~vi.stray => vi.source = vi.mt
FootersWithoutPeaks == \A m \in vi.footers : vi.peaks[m] = "none"
MetersStarted == vi.mt # 0 /\ vi.engine[vi.mt] \in {"chunked", "up"} => vi.meters = vi.mt

VisualsIInv ==
  /\ VisualsTypeOK /\ vi.mt \in {0, vi.token} /\ OfMounted /\ DrawnAgain /\ FootersWithoutPeaks
  /\ MetersStarted /\ PeaksStayOnScreen /\ MetersOfTheTrack
=============================================================================
