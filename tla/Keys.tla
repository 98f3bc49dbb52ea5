-------------------------------- MODULE Keys --------------------------------
(***************************************************************************)
(* Transposing: the key of every lane (mixer.js), the control that moves   *)
(* them all (transport.js), and the worklet bus each source of the engine  *)
(* is on (pitchBus.js, audioEngine.js).                                    *)
(*                                                                         *)
(* A lane's key is absolute and kept with the job, so it has to find its   *)
(* way into an engine that may come up before or after the stored mix.  A  *)
(* source that is playing changes its bus a moment after it was told to,   *)
(* when it has been faded out.                                             *)
(***************************************************************************)
EXTENDS Integers

CONSTANTS
  Lanes,     \* with "drums" among them
  LaneOf,    \* [source -> lane]: the full song's lane has several sources
  Rendered,  \* sources with drums mixed in: never pitchable
  PitchMax,  \* PITCH_MAX = -PITCH_MIN
  MaxActs    \* bound: what the user does

VARIABLES ky, acts

keyVars == <<ky, acts>>
Sources == DOMAIN LaneOf
Pitches == -PitchMax..PitchMax
InKey == [l \in Lanes |-> 0]
Unrouted == [s \in Sources |-> 0]

clampPitch(n) == IF n > PitchMax THEN PitchMax ELSE IF n < -PitchMax THEN -PitchMax ELSE n
effectivePitch(s, n) == IF s = "drums" \/ s \in Rendered THEN 0 ELSE clampPitch(n)

KeysAssumption == LaneOf \in [Sources -> Lanes] /\ PitchMax \in Nat /\ MaxActs \in Nat

KeysRecords ==
  [readout : Pitches, available : BOOLEAN, steppers : BOOLEAN,
   keys : [Lanes -> Pitches], stored : [Lanes -> Pitches], unsaved : SUBSET [Lanes -> Pitches],
   engine : {"none", "starting", "bare", "up"}, playing : BOOLEAN, bus : [Sources -> Pitches],
   swaps : SUBSET [source : Sources, to : Pitches], loading : BOOLEAN, late : BOOLEAN]
KeysTypeOK == ky \in KeysRecords /\ acts \in 0..MaxActs

KeysInit ==
  /\ ky = [readout |-> 0, available |-> FALSE, steppers |-> FALSE,
           keys |-> InKey, stored |-> InKey, unsaved |-> {},
           engine |-> "none", playing |-> FALSE, bus |-> Unrouted, swaps |-> {},
           loading |-> FALSE, late |-> FALSE]
  /\ acts = 0

Act == acts < MaxActs /\ acts' = acts + 1

(* The lanes in LS are told to the engine, which routes their sources; one  *)
(* without the worklet, or not up yet, has no pitch stage and refuses.      *)
setStemPitch(k, LS) ==
  LET to(s) == effectivePitch(s, k.keys[LaneOf[s]])
      moved == {s \in Sources : LaneOf[s] \in LS /\ k.bus[s] # to(s)}
  IN IF k.engine # "up" THEN k
     ELSE IF k.playing
     THEN [k EXCEPT !.swaps = @ \cup {[source |-> s, to |-> to(s)] : s \in moved}]
     ELSE [k EXCEPT !.bus = [s \in Sources |-> IF s \in moved THEN to(s) ELSE @[s]]]

(* Every lane but the drums gets its key of `to`, as far as the range goes. *)
setLanePitch(k, to) ==
  LET moved == {l \in Lanes \ {"drums"} : k.keys[l] # clampPitch(to[l])}
      keys == [l \in Lanes |-> IF l \in moved THEN clampPitch(to[l]) ELSE k.keys[l]]
  IN IF moved = {} THEN k
     ELSE setStemPitch([k EXCEPT !.keys = keys, !.unsaved = {keys}], moved)

nudgeAllLanePitches(k, delta) == setLanePitch(k, [l \in Lanes |-> k.keys[l] + delta])
resetAllLanePitches(k) == setLanePitch(k, InKey)

(* ------------------------------- the steps ------------------------------ *)
(* A fade is over before the next click: two clicks within one fade are     *)
(* left to the list of hazards.                                             *)
Click == Act /\ ky.swaps = {}

laneStep == Click /\ ky.steppers /\ \E l \in Lanes \ {"drums"}, d \in {-1, 1} :
  ky' = setLanePitch(ky, [ky.keys EXCEPT ![l] = @ + d])

applyPitch == Click /\ ky.available /\ \E d \in {-1, 1} :
  LET clamped == clampPitch(ky.readout + d)
  IN ky' = nudgeAllLanePitches([ky EXCEPT !.readout = clamped], clamped - ky.readout)

resetAllKeys == Click /\ ky.available /\ ky' = resetAllLanePitches([ky EXCEPT !.readout = 0])

togglePlay == Click /\ ky.engine \in {"up", "bare"} /\ ky' = [ky EXCEPT !.playing = ~@]

routeTrack == \E s \in ky.swaps :
  ky' = [ky EXCEPT !.swaps = @ \ {s}, !.bus[s.source] = s.to] /\ UNCHANGED acts

(* wireUpAudio and its canplay: the readout goes back, the lanes wait for   *)
(* the stored mix, a new engine starts.                                     *)
Open == Act /\
  ky' = [ky EXCEPT !.readout = 0, !.available = FALSE, !.steppers = FALSE,
                   !.loading = TRUE, !.late = FALSE, !.engine = "starting",
                   !.playing = FALSE, !.bus = Unrouted, !.swaps = {}]

(* Mix in after the engine: nothing tells the engine its keys.              *)
loadMixIntoState == ky.loading /\
  ky' = [ky EXCEPT !.loading = FALSE, !.keys = ky.stored, !.late = ky.engine # "starting"]
  /\ UNCHANGED acts

setLaneKeysAvailable(k, pitched) == [k EXCEPT !.steppers = pitched]
engineUpUntold(k, pitched) ==
  setLaneKeysAvailable([k EXCEPT !.engine = IF pitched THEN "up" ELSE "bare", !.available = pitched], pitched)
engineUp(k, pitched) == setStemPitch(engineUpUntold(k, pitched), Lanes)
EngineReady == ky.engine = "starting" /\ (\E pitched \in BOOLEAN : ky' = engineUp(ky, pitched))
  /\ UNCHANGED acts

storeSetDebounced == ky.unsaved # {} /\
  ky' = [ky EXCEPT !.unsaved = {}, !.stored = CHOOSE keys \in ky.unsaved : TRUE] /\ UNCHANGED acts

KeysNext ==
  \/ laneStep \/ applyPitch \/ resetAllKeys \/ togglePlay \/ routeTrack
  \/ Open \/ loadMixIntoState \/ EngineReady \/ storeSetDebounced

KeysSpec == KeysInit /\ [][KeysNext]_keyVars

(* ------------------------------ properties ------------------------------ *)
(* Every source plays in the key its lane shows, through reopening, saving  *)
(* and stepping, and the drums in their own wherever they are mixed in.     *)
KeysReachTheEngine ==
  ky.engine = "up" /\ ~ky.loading /\ ~ky.late /\ ky.swaps = {} =>
    \A s \in Sources :
      ky.bus[s] = IF s = "drums" \/ s \in Rendered THEN 0 ELSE ky.keys[LaneOf[s]]

(* What makes it inductive: a source that is about to change its bus goes   *)
(* to the key of its lane, the others are there; and nothing fades or plays *)
(* on an engine that is not up.                                             *)
Tuned(k, s) ==
  /\ \A w \in k.swaps : w.source = s => w.to = effectivePitch(s, k.keys[LaneOf[s]])
  /\ k.bus[s] = effectivePitch(s, k.keys[LaneOf[s]]) \/ \E w \in k.swaps : w.source = s
SwapsTune == ky.engine = "up" /\ ~ky.loading /\ ~ky.late => \A s \in Sources : Tuned(ky, s)
SilentUntilUp == ky.engine \in {"none", "starting"} => ~ky.playing /\ ky.swaps = {}
KeysIInv == KeysTypeOK /\ SwapsTune /\ SilentUntilUp
=============================================================================
