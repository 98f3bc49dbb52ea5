------------------------------- MODULE Mixer -------------------------------
(***************************************************************************)
(* Which lanes a track has, what they play, and what is heard of them:     *)
(* src/static/js/mixer.js, playbackStems.js, and their callers in          *)
(* player.js.                                                              *)
(*                                                                         *)
(* The lanes on screen are the stems the user selects now; the mute and    *)
(* solo switches are stored with the job and outlive that selection.  What *)
(* sounds is decided by applyMix over the mounted lanes, what an export    *)
(* contains by _effectiveMixGains over the stems on screen.                *)
(***************************************************************************)
EXTENDS Integers

CONSTANTS
  Base,    \* STEM_NAMES, with "vocals" and "drums" among them
  Jobs,
  Raw,     \* the stems each job's server offers
  MaxActs  \* bound: what the user does

VARIABLES mx, acts

mixerVars == <<mx, acts>>
Extra == {"lead_vocals", "backing_vocals"}
AllTrackNames == {"original"} \cup Base \cup Extra
Entry0 == [muted |-> FALSE, soloed |-> FALSE, silent |-> FALSE]
Entries == [muted : BOOLEAN, soloed : BOOLEAN, silent : BOOLEAN]
Mix0 == [n \in AllTrackNames |-> Entry0]
None == "none"

(* -------------------------------- the lanes ----------------------------- *)
splitDone(names) == Extra \subseteq names

(* The lane order of a job, with or without the vocals split.               *)
effectiveStemOrder(names) ==
  IF splitDone(names) THEN (Base \ {"vocals"}) \cup Extra ELSE Base

(* The stems wireUpAudio keeps: what the user selected, and the full song.  *)
visible(raw, sel) ==
  {n \in raw : \/ n = "original"
               \/ n \in Base \ {"vocals"} /\ n \in sel
               \/ n = "vocals" /\ n \in sel /\ ~splitDone(raw)
               \/ n \in Extra /\ "vocals" \in sel /\ splitDone(raw)}

(* The sources the engine plays, each under the lane that controls it.  The *)
(* full song is put together from the stems that have no lane of their own. *)
Own(shown) == {[src |-> n, lane |-> n] : n \in shown \ {"original"}}

buildPlaybackStems(raw, shown) ==
  LET dedicated == IF Extra \subseteq shown THEN shown \cup {"vocals"} ELSE shown
      complement == Base \ dedicated
  IN IF "original" \notin shown \/ complement = {} THEN Own(shown)
     ELSE IF complement \subseteq raw
     THEN Own(shown) \cup {[src |-> n, lane |-> "original"] : n \in complement}
     ELSE Own(shown) \cup {[src |-> "original", lane |-> "original"]}

(* The rows on screen, and those of them whose buttons work.                *)
applyStemSelectionFilter(shown) ==
  LET rows == effectiveStemOrder(shown) \cup (shown \cap {"original"})
  IN [rows |-> rows, enabled |-> rows \cap shown]
Lanes(m) == applyStemSelectionFilter(m.shown)

(* ------------------------------- what is heard -------------------------- *)
anySolo(m) == \E n \in m.trackIndex : m.state[n].soloed
effective(m, n) ==
  ~m.state[n].silent /\ ~m.state[n].muted /\ (anySolo(m) => m.state[n].soloed)

applyMix(m) ==
  IF ~m.engine THEN m
  ELSE [m EXCEPT !.gain = [n \in AllTrackNames |->
                             IF n \in m.trackIndex THEN effective(m, n) ELSE @[n]]]

(* The lanes an export is rendered from.                                    *)
effectiveMixGains(m) ==
  LET solo == \E n \in m.shown : m.state[n].soloed
  IN {n \in m.shown : ~m.state[n].silent /\ ~m.state[n].muted /\ (solo => m.state[n].soloed)}

(* -------------------------------- the store ----------------------------- *)
saveMix(m) == IF m.job = None THEN m ELSE [m EXCEPT !.pending[m.job] = {m.state}]
changed(m) == saveMix(applyMix(m))

(* All lanes of a track muted: taken for a mistake, and undone.             *)
recovered(state, names) ==
  IF names # {} /\ \A n \in names : state[n].muted
  THEN [n \in AllTrackNames |-> IF n \in names THEN [state[n] EXCEPT !.muted = FALSE] ELSE state[n]]
  ELSE state

MixerAssumption ==
  /\ Base \cap (Extra \cup {"original"}) = {}
  /\ Raw \in [Jobs -> SUBSET AllTrackNames] /\ None \notin Jobs /\ MaxActs \in Nat

Mixes == [AllTrackNames -> Entries]
MixerRecords ==
  [job : Jobs \cup {None}, selected : SUBSET Base, shown : SUBSET AllTrackNames,
   trackIndex : SUBSET AllTrackNames, state : Mixes, gain : [AllTrackNames -> BOOLEAN],
   engine : BOOLEAN, loading : BOOLEAN, stored : [Jobs -> Mixes], pending : [Jobs -> SUBSET Mixes]]
OneIsPending == \A j \in Jobs : \A s, t \in mx.pending[j] : s = t
MixerTypeOK == mx \in MixerRecords /\ OneIsPending /\ acts \in 0..MaxActs

MixerInit ==
  /\ mx = [job |-> None, selected |-> Base, shown |-> {}, trackIndex |-> {}, state |-> Mix0,
           gain |-> [n \in AllTrackNames |-> FALSE], engine |-> FALSE, loading |-> FALSE,
           stored |-> [j \in Jobs |-> Mix0], pending |-> [j \in Jobs |-> {}]]
  /\ acts = 0

Act == acts < MaxActs /\ acts' = acts + 1

(* ------------------------------- the steps ------------------------------ *)
(* The stem choice of the import page; it keeps at least one stem.          *)
setStemSelected == Act /\ \E n \in Base :
  /\ mx.selected # {n}
  /\ mx' = [mx EXCEPT !.selected = IF n \in @ THEN @ \ {n} ELSE @ \cup {n}]

opened(m, j) ==
  LET shown == visible(Raw[j], m.selected)
  IN [m EXCEPT !.job = j, !.loading = TRUE, !.engine = FALSE, !.shown = shown,
               !.trackIndex = applyStemSelectionFilter(shown).rows,
               !.gain = [n \in AllTrackNames |-> FALSE]]

Open == Act /\ ~mx.loading /\ \E j \in Jobs : mx' = opened(mx, j)

(* The stored mix arrives; the engine, if it is up by then, is told.        *)
loaded(m) ==
  applyMix([m EXCEPT !.loading = FALSE, !.state = recovered(m.stored[m.job], Raw[m.job])])
loadMixIntoState == mx.loading /\ mx' = loaded(mx) /\ UNCHANGED acts

EngineUp == mx.job # None /\ ~mx.engine /\ mx' = applyMix([mx EXCEPT !.engine = TRUE]) /\ UNCHANGED acts

flushed(m, j) == [m EXCEPT !.stored[j] = CHOOSE s \in m.pending[j] : TRUE, !.pending[j] = {}]
storeSetDebounced == \E j \in Jobs : mx.pending[j] # {} /\ mx' = flushed(mx, j) /\ UNCHANGED acts

toggleStemMute == Act /\ \E n \in Lanes(mx).enabled :
  mx' = changed([mx EXCEPT !.state[n].muted = ~@])
toggleStemSolo == Act /\ \E n \in Lanes(mx).enabled :
  mx' = changed([mx EXCEPT !.state[n].soloed = ~@])
setLaneVolume == Act /\ \E n \in Lanes(mx).enabled :
  mx' = changed([mx EXCEPT !.state[n].silent = ~@])

alone(m, n) == [k \in AllTrackNames |->
                  [m.state[k] EXCEPT !.soloed = k = n, !.muted = @ /\ k # n]]
lone(m, n) == m.state[n].soloed /\ \A k \in AllTrackNames \ {n} : ~m.state[k].soloed
soloOnlyStem == Act /\ \E n \in Lanes(mx).enabled :
  mx' = changed(IF lone(mx, n) THEN [mx EXCEPT !.state[n].soloed = FALSE]
                ELSE [mx EXCEPT !.state = alone(mx, n)])

(* The toolbar works on every lane there could be, and mutes or unmutes by  *)
(* the lanes that are mounted.                                              *)
allMuted(m) ==
  LET loadedNames == m.trackIndex \ {"original"}
  IN loadedNames # {} /\ \A n \in loadedNames : m.state[n].muted
muteAll == Act /\
  mx' = changed([mx EXCEPT !.state = [n \in AllTrackNames |-> [@[n] EXCEPT !.muted = ~allMuted(mx)]]])
clearAllSolos == Act /\
  mx' = changed([mx EXCEPT !.state = [n \in AllTrackNames |-> [@[n] EXCEPT !.soloed = FALSE]]])
resetMixer == Act /\ mx' = changed([mx EXCEPT !.state = Mix0])

MixerNext ==
  \/ setStemSelected \/ Open \/ loadMixIntoState \/ EngineUp \/ storeSetDebounced
  \/ toggleStemMute \/ toggleStemSolo \/ setLaneVolume \/ soloOnlyStem
  \/ muteAll \/ clearAllSolos \/ resetMixer

MixerSpec == MixerInit /\ [][MixerNext]_mixerVars

(* ------------------------------ properties ------------------------------ *)
(* What the switches on screen say is what the engine plays, whichever of   *)
(* the stored mix and the engine came up first.                             *)
GainsFollowSwitches ==
  mx.engine /\ ~mx.loading => \A n \in mx.trackIndex : mx.gain[n] = effective(mx, n)

(* An export has the lanes that are heard, unless a lane that is solo is    *)
(* not on screen: it still silences the others, but not in an export.       *)
ExportHasWhatIsHeard ==
  mx.engine /\ ~mx.loading /\ (\A n \in mx.trackIndex \ mx.shown : ~mx.state[n].soloed) =>
    effectiveMixGains(mx) = {n \in mx.shown : mx.gain[n]}

(* The parts of the song a source contains.                                 *)
PartsOf(src) == IF src = "vocals" THEN Extra ELSE {src}

(* No part of the song is played by two sources, and with the full song on  *)
(* screen and every stem at hand, every part is played by one.              *)
EveryPartSoundsOnce == mx.job # None =>
  LET play == buildPlaybackStems(Raw[mx.job], mx.shown)
  IN /\ \A s, t \in play : s # t => PartsOf(s.src) \cap PartsOf(t.src) = {}
     /\ "original" \in mx.shown /\ Base \subseteq Raw[mx.job] =>
          \A n \in Base : \A part \in PartsOf(n) : \E s \in play : part \in PartsOf(s.src)

(* What makes them inductive: the lanes on screen are those some choice of  *)
(* stems leaves of what the job offers, and each of them is mounted.        *)
ShownIsVisible == mx.job # None => \E sel \in SUBSET Base : mx.shown = visible(Raw[mx.job], sel)
ShownIsMounted == mx.shown \subseteq mx.trackIndex
NoneLoads == mx.loading => mx.job # None
MixerIInv ==
  /\ MixerTypeOK /\ NoneLoads /\ ShownIsVisible /\ ShownIsMounted
  /\ GainsFollowSwitches /\ ExportHasWhatIsHeard /\ EveryPartSoundsOnce
=============================================================================
