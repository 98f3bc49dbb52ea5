---------------------------- MODULE AudioEngine ----------------------------
(***************************************************************************)
(* The player that decodes whole files: src/static/js/audioEngine.js.      *)
(*                                                                         *)
(* Stems are decoded in any order; a start hands one source per stem to    *)
(* the audio clock.  A pair (startCtxTime, startOffset) maps the clock to  *)
(* the track.  With the stretching worklet a source is read at rate 1,     *)
(* without it at the playback rate.  Clock times are counted in halves, so *)
(* that the rates 1 and 2 both give whole numbers.                         *)
(***************************************************************************)
EXTENDS Integers, FiniteSets

CONSTANTS
  Stems,
  Length,     \* duration of each decoded stem
  Leads,      \* the lead-ins the transport asks for
  Loops,      \* the loops the user can set, of [start, end]
  Seeks,      \* positions the user can jump to
  NoLoop,
  MaxNow,     \* bound: audio clock, in halves
  MaxActs     \* bound: calls of the transport

AudioEngineAssumption ==
  /\ Length \in [Stems -> Nat \ {0}] /\ Leads \subseteq Nat /\ Seeks \subseteq Nat
  /\ Loops \subseteq [start : Nat, end : Nat] /\ NoLoop \notin Loops
  /\ MaxNow \in Nat /\ MaxActs \in Nat

VARIABLES
  eng,   \* the engine's own variables
  now,   \* ctx.currentTime, in halves
  acts

engineVars == <<eng, now, acts>>
Rates == {1, 2}

EngineTypeOK ==
  /\ eng.decoding \subseteq Stems /\ eng.tracks \subseteq Stems
  /\ eng.ready \in {"loading", "ok", "none"} /\ eng.worklet \in {"loading", "ok", "failed"}
  /\ eng.playing \in BOOLEAN /\ eng.destroyed \in BOOLEAN /\ eng.frame \in BOOLEAN
  /\ eng.startCtxTime \in Int /\ eng.startOffset \in Nat /\ eng.rate \in Rates
  /\ eng.loop \in Loops \cup {NoLoop} /\ eng.epoch \in Nat
  /\ eng.sources \subseteq [stem : Stems, at : Int, from : Nat, rate : Rates]
  /\ eng.ready # "loading" => eng.decoding = {} /\ eng.worklet # "loading"
  /\ now \in 0..MaxNow /\ acts \in 0..MaxActs

(* surprised: the stretching worklet arrived over a track already playing   *)
(* resampled (a history flag; the code keeps no such thing).                *)
EngineInit ==
  /\ eng = [decoding |-> Stems, tracks |-> {}, ready |-> "loading", worklet |-> "loading",
            surprised |-> FALSE, playing |-> FALSE, destroyed |-> FALSE, frame |-> FALSE, startCtxTime |-> 0,
            startOffset |-> 0, rate |-> 1, loop |-> NoLoop, epoch |-> 0, sources |-> {}]
  /\ now = 0 /\ acts = 0

(* ------------------------------- the clock ------------------------------ *)
MaxLength(S) == IF S = {} THEN 0 ELSE CHOOSE d \in {Length[s] : s \in S} :
                                        \A s \in S : Length[s] <= d
Duration(e) == MaxLength(e.tracks)
Clamp(t, hi) == IF t > hi THEN hi ELSE t
srcRate(e) == IF e.worklet = "ok" THEN 1 ELSE e.rate
halves(e) == 2 \div srcRate(e)

(* What the playhead shows, rounded down to a whole position.               *)
playhead(e) ==
  IF e.playing /\ now > e.startCtxTime
  THEN e.startOffset + ((now - e.startCtxTime) * e.rate) \div 2 ELSE e.startOffset
sourceTimeToCtxTime(e, t) == e.startCtxTime + (t - e.startOffset) * halves(e)
isClockReady(e) == e.playing

(* ------------------------------ the sources ----------------------------- *)
stopSources(e) == [e EXCEPT !.sources = {}]
startSources(e, offset, when) ==
  [e EXCEPT !.startCtxTime = when, !.startOffset = offset, !.epoch = @ + 1,
            !.surprised = FALSE, !.sources = @ \cup {[stem |-> s, at |-> when, from |-> Clamp(offset, Length[s]),
                                 rate |-> srcRate(e)] : s \in e.tracks}]

play(e, lead) ==
  LET off == IF e.startOffset >= Duration(e) THEN 0 ELSE e.startOffset
  IN IF e.playing \/ e.destroyed \/ e.tracks = {} THEN e
     ELSE [startSources(e, off, now + lead * halves(e)) EXCEPT !.playing = TRUE, !.frame = TRUE]

pause(e) ==
  IF ~e.playing THEN e
  ELSE [stopSources(e) EXCEPT !.playing = FALSE, !.frame = FALSE, !.epoch = @ + 1,
                              !.startOffset = Clamp(playhead(e), Duration(e))]

SeekOverRunning(e, t) ==
  LET clamped == Clamp(t, Duration(e))
  IN IF e.playing THEN startSources(e, clamped, now)
     ELSE [e EXCEPT !.startOffset = clamped, !.epoch = @ + 1]

seek(e, t) ==
  LET clamped == Clamp(t, Duration(e))
  IN IF e.playing THEN startSources(stopSources(e), clamped, now)
     ELSE [e EXCEPT !.startOffset = clamped, !.epoch = @ + 1]

setPlaybackRate(e, r) ==
  LET t == playhead(e)
      set == [e EXCEPT !.rate = r]
  IN IF e.playing THEN startSources(stopSources(set), Clamp(t, Duration(e)), now)
     ELSE [set EXCEPT !.startOffset = t, !.epoch = @ + 1]

(* destroy() stops the sound and drops the tracks; `playing` stays as it is. *)
destroy(e) == [stopSources(e) EXCEPT !.destroyed = TRUE, !.frame = FALSE, !.tracks = {}]

tick(e) ==
  LET t == playhead(e)
  IN IF ~e.playing THEN [e EXCEPT !.frame = FALSE]
     ELSE IF e.loop # NoLoop /\ t >= e.loop.end THEN seek(e, e.loop.start)
     ELSE IF t >= Duration(e) THEN [pause(e) EXCEPT !.startOffset = Duration(e)]
     ELSE e

(* ------------------------------- the steps ------------------------------ *)
Act == acts < MaxActs /\ acts' = acts + 1

Play == Act /\ ~eng.playing /\ (\E l \in Leads : eng' = play(eng, l)) /\ UNCHANGED now
Pause == Act /\ eng.playing /\ eng' = pause(eng) /\ UNCHANGED now
Seek == Act /\ (\E t \in Seeks : eng' = seek(eng, t)) /\ UNCHANGED now
SetRate == Act /\ (\E r \in Rates \ {eng.rate} : eng' = setPlaybackRate(eng, r)) /\ UNCHANGED now
SetLoop == Act
  /\ \E l \in (Loops \cup {NoLoop}) \ {eng.loop} : eng' = [eng EXCEPT !.loop = l]
  /\ UNCHANGED now
Destroy == Act /\ ~eng.destroyed /\ eng' = destroy(eng) /\ UNCHANGED now

(* One stem has been fetched and decoded, or could not be.                  *)
Decoded(e, s, ok) ==
  [e EXCEPT !.decoding = @ \ {s}, !.tracks = IF ok /\ ~e.destroyed THEN @ \cup {s} ELSE @]
StemDecoded ==
  /\ \E s \in eng.decoding, ok \in BOOLEAN : eng' = Decoded(eng, s, ok)
  /\ UNCHANGED <<now, acts>>
WorkletSettled ==
  /\ eng.worklet = "loading"
  /\ \E w \in {"ok", "failed"} :
       eng' = [eng EXCEPT !.worklet = w, !.surprised = w = "ok" /\ eng.playing /\ eng.rate # 1]
  /\ UNCHANGED <<now, acts>>
Ready ==
  /\ eng.ready = "loading" /\ eng.decoding = {} /\ eng.worklet # "loading"
  /\ eng' = [eng EXCEPT !.ready = IF eng.tracks = {} THEN "none" ELSE "ok"]
  /\ UNCHANGED <<now, acts>>

Frame == eng.frame /\ eng' = tick(eng) /\ UNCHANGED <<now, acts>>
Elapse == now < MaxNow /\ eng.playing /\ now' = now + 1 /\ UNCHANGED <<eng, acts>>

EngineNext == Play \/ Pause \/ Seek \/ SetRate \/ SetLoop \/ Destroy \/ StemDecoded
              \/ WorkletSettled \/ Ready \/ Frame \/ Elapse

(* ------------------------------ properties ------------------------------ *)
(* Every source plays from where the clock says, at the rate it says,       *)
(* unless the worklet came up over a track that was already playing.        *)
AudioMatchesClock ==
  ~eng.surprised => \A s \in eng.sources :
    s.rate = srcRate(eng) /\ s.from <= eng.startOffset /\ s.at = eng.startCtxTime

(* No stem sounds twice, and none while the engine is paused or gone.       *)
EachStemOnce ==
  /\ \A s, t \in eng.sources : s.stem = t.stem => s = t
  /\ eng.sources # {} => eng.playing /\ ~eng.destroyed
=============================================================================
