----------------------------- MODULE MCPlayback -----------------------------
(***************************************************************************)
(* The parts of the player, side by side.  They share no variable of the   *)
(* code but `the track that is open', which each has in its own way; so a  *)
(* behaviour is one of one part: st is its record, st2 that of the         *)
(* metronome over the decoded engine, clock the audio clock of the engines.*)
(***************************************************************************)
EXTENDS Integers, Sequences, TLC

CONSTANTS
  Unlooped, full, split,
  MaxMounts, Modes,             \* of the tracks opened in the studio
  PictureActs,                  \* bound: what the user does with its pictures
  Durations, Widths, ZoomMax,   \* of its timeline
  BaseStems, Jobs, Raw,         \* stems of the mixer, jobs, and what each offers
  KeyLanes, LaneOf, Rendered, PitchMax,  \* of the keys
  LoopDurations, MinLoop,       \* of the loop
  RulerActs, MixActs, KeyActs, LoopActs, ButtonActs  \* bounds: what the user does with each

VARIABLES part, st, st2, clock, acts
vars == <<part, st, st2, clock, acts>>

OneLoop == {[start |-> 1, end |-> 3]}
StemLength == [s \in {"drums", "bass"} |-> IF s = "drums" THEN 6 ELSE 4]
FullSong == [s \in {"vocals", "bass", "drums"} |-> IF s = "vocals" THEN s ELSE "original"]
TwoStems == {"vocals", "drums"}
Offers == (full :> TwoStems \cup {"original"})
          @@ (split :> TwoStems \cup {"lead_vocals", "backing_vocals", "original"})

(* Grids without marks, with marks and a pickup, and of a single beat.      *)
ThreeGrids ==
  {[beats |-> <<2, 4, 8, 14, 18, 20>>, bars |-> {}],
   [beats |-> <<2, 6, 10, 14, 18, 24>>, bars |-> {[beat |-> 1, meter |-> 4]}],
   [beats |-> <<4>>, bars |-> {[beat |-> 0, meter |-> 2]}]}

(* Chunk tables: a format the engine plays or not, metadata of sizes around *)
(* the first request and the ones after it, and the samples.                *)
Fmts == {[id |-> "fmt", size |-> 16, playable |-> TRUE], [id |-> "fmt", size |-> 40, playable |-> TRUE],
         [id |-> "fmt", size |-> 18, playable |-> FALSE]}
Meta(n) == [id |-> "other", size |-> n]
Datas == {[id |-> "data", size |-> n, real |-> 96] : n \in {0, 96, 2000000000}}
After == {<<>>, <<Meta(981)>>, <<Meta(3000), Meta(981)>>, <<Meta(3000), Meta(16339), Meta(70001)>>,
          <<Meta(300000)>>, <<Meta(16384), Meta(16384), Meta(16384), Meta(16384), Meta(16384), Meta(70000)>>}
SomeTables == {a \o <<f>> \o b \o <<d>> : a \in {<<>>, <<Meta(979)>>}, f \in Fmts, b \in After, d \in Datas}

Chunked == INSTANCE ChunkedEngine WITH eng <- st, now <- clock, NoLoop <- Unlooped, NChunks <- 2, Chunk <- 2, Lookahead <- 3,
             CountIns <- {0}, Loops <- OneLoop, Seeks <- {0, 1, 3}, MaxNow <- 3, MaxActs <- 3
Decoded == INSTANCE Metronome WITH eng <- st, metro <- st2, now <- clock, NoLoop <- Unlooped, Stems <- {"drums", "bass"},
             Length <- StemLength, Leads <- {0}, Loops <- OneLoop, Seeks <- {0, 3}, MaxNow <- 5, MaxActs <- 3,
             Grids <- {<<0, 2, 4>>, <<2, 4>>}, Horizon <- 4
Wav == INSTANCE WavHeader WITH wh <- st, Tables <- SomeTables, Spare <- {-20, -120, 0, 4}
Player == INSTANCE Player WITH pl <- st
Pictures == INSTANCE Visuals WITH vi <- st, MaxActs <- PictureActs
Overlay == INSTANCE LoadingOverlay WITH ov <- st
Ruler == INSTANCE Timeline WITH tl <- st, MaxActs <- RulerActs
Mix == INSTANCE Mixer WITH mx <- st, Base <- BaseStems, MaxActs <- MixActs
Transposed == INSTANCE Keys WITH ky <- st, Lanes <- KeyLanes, MaxActs <- KeyActs
Loop == INSTANCE LoopRegion WITH lp <- st, Durations <- LoopDurations, MaxActs <- LoopActs
Buttons == INSTANCE Transport WITH tp <- st, MaxActs <- ButtonActs
Click == INSTANCE ClickControl WITH cc <- st, Tracks <- ThreeGrids, MaxActs <- 4

ASSUME EngineConstants ==
  /\ Chunked!EngineAssumption /\ Decoded!AudioEngineAssumption /\ Decoded!MetronomeAssumption
  /\ Player!PlayerAssumption /\ Pictures!VisualsAssumption /\ Ruler!TimelineAssumption
  /\ Mix!MixerAssumption /\ Transposed!KeysAssumption /\ Loop!LoopAssumption /\ Buttons!TransportAssumption

Idle == st2 = 0 /\ clock = 0
Init ==
  \/ part = "chunked" /\ Chunked!EngineInit /\ st2 = 0
  \/ part = "decoded" /\ Decoded!MetroInit
  \/ part = "wav" /\ Wav!WavInit /\ Idle /\ acts = 0
  \/ part = "player" /\ Player!PlayerInit /\ Idle
  \/ part = "pictures" /\ Pictures!VisualsInit /\ Idle
  \/ part = "overlay" /\ Overlay!OverlayInit /\ Idle
  \/ part = "ruler" /\ Ruler!TimelineInit /\ Idle
  \/ part = "lanes" /\ Mix!MixerInit /\ Idle
  \/ part = "keys" /\ Transposed!KeysInit /\ Idle
  \/ part = "loop" /\ Loop!LoopInit /\ Idle
  \/ part = "buttons" /\ Buttons!TransportInit /\ Idle
  \/ part = "click" /\ Click!ClickInit /\ Idle

Still == UNCHANGED <<part, st2, clock>>
Next ==
  \/ part = "chunked" /\ Chunked!EngineNext /\ UNCHANGED <<part, st2>>
  \/ part = "decoded" /\ Decoded!MetroNext /\ UNCHANGED part
  \/ part = "wav" /\ Wav!WavNext /\ Still /\ UNCHANGED acts
  \/ part = "player" /\ Player!PlayerNext /\ Still
  \/ part = "pictures" /\ Pictures!VisualsNext /\ Still
  \/ part = "overlay" /\ Overlay!OverlayNext /\ Still
  \/ part = "ruler" /\ Ruler!TimelineNext /\ Still
  \/ part = "lanes" /\ Mix!MixerNext /\ Still
  \/ part = "keys" /\ Transposed!KeysNext /\ Still
  \/ part = "loop" /\ Loop!LoopNext /\ Still
  \/ part = "buttons" /\ Buttons!TransportNext /\ Still
  \/ part = "click" /\ Click!ClickNext /\ Still

(* What each part is promised: answers to fetches, engines that come up or  *)
(* fail, timers.  All of it runs out, so one condition serves them all.     *)
Timely ==
  \/ part = "chunked" /\ (Chunked!FetchDone \/ Chunked!OrphanDone) /\ UNCHANGED <<part, st2>>
  \/ part = "player" /\ (Player!engineSettled \/ Player!beatsAnswered \/ Player!peaksAnswered) /\ Still
  \/ part = "overlay" /\ (Overlay!giveUp \/ Overlay!hidden) /\ Still
  \/ part = "buttons" /\ Buttons!fire /\ Still
Spec == Init /\ [][Next]_vars /\ WF_vars(Timely)

(* ------------------------------ properties ------------------------------ *)
(* The sources on the audio clock and the clicks between them: each stem    *)
(* once and at the engine's own time, every beat of the grid with one click *)
(* at its time, one filler of the chunked schedule, and the header that     *)
(* says where a stem's samples begin.                                       *)
SoundFollowsTheClock ==
  /\ part = "chunked" => Chunked!EngineTypeOK /\ Chunked!OneFiller /\ Chunked!ChunksFollowTheClock
  /\ part = "decoded" => /\ Decoded!MetroTypeOK /\ Decoded!AudioMatchesClock /\ Decoded!EachStemOnce
                         /\ Decoded!ClicksOnTheBeat /\ Decoded!OneClickPerBeat
  /\ part = "wav" => Wav!WavTypeOK /\ Wav!PlayableIsFound /\ Wav!SamplesAreInTheFile

(* What is on the screen is of the track that is open: one engine alive,    *)
(* the click and the editor on it, waveforms, meters and ruler its own,     *)
(* whatever the tracks before it still had on the way.                      *)
StudioIsOfOneTrack ==
  /\ part = "player" => Player!PlayerTypeOK /\ Player!OneEngineAlive /\ Player!ClickHasItsEngine /\ Player!ClickIsThere
  /\ part = "pictures" => Pictures!VisualsTypeOK /\ Pictures!PeaksStayOnScreen /\ Pictures!MetersOfTheTrack
  /\ part = "ruler" => Ruler!TimelineTypeOK /\ Ruler!RulerFitsWidth /\ Ruler!BarLabelsFit
  /\ part = "overlay" => Overlay!OverlayTypeOK

(* What the controls show is what is played: the gains of the mixer, the    *)
(* keys of the lanes, the loop, and the play button, with what is lost on a *)
(* deaf engine or still sounds of the track before as its exceptions.       *)
ControlsAreHeard ==
  /\ part = "lanes" => Mix!MixerTypeOK /\ Mix!GainsFollowSwitches /\ Mix!EveryPartSoundsOnce
                       /\ Mix!ExportHasWhatIsHeard
  /\ part = "keys" => Transposed!KeysTypeOK /\ Transposed!KeysReachTheEngine
  /\ part = "loop" => /\ Loop!LoopTypeOK /\ Loop!LoopInTrack /\ Loop!LoopIsAudible /\ Loop!EngineLoopsAsShown
  /\ part = "buttons" => Buttons!TransportTypeOK /\ Buttons!CountEndsWithPlay /\ Buttons!ButtonTells
                       /\ Buttons!PlaysWhenAsked

(* The click's controls agree with each other and with what the next page   *)
(* restores, and an export has the clicks and the count-in that were heard. *)
ExportSoundsAsHeard ==
  part = "click" => Click!ClickTypeOK /\ Click!ControlsAgree /\ Click!ExportSoundsAsHeard

(* What the chunked engine's fetches may never do, however late they are:   *)
(* sound after a pause, or lose the window a loop jumps back to.            *)
LateFetchesDoNoHarm == [][part = "chunked" => Chunked!StaysSilent /\ Chunked!PinKept]_vars

(* chunkedAudioEngine.js: sources are chained back to back for gapless       *)
(* playback.                                                                *)
SourcesBackToBack == part = "chunked" => Chunked!NoneOverlap

(* Play pressed is heard or taken back, an emptied studio falls silent, the *)
(* overlay goes; and the schedule is never left without a filler.           *)
Pending ==
  \/ part = "chunked" /\ Chunked!Unheard
  \/ part = "player" /\ Player!SoundsEmptied
  \/ part = "overlay" /\ Overlay!Covered
  \/ part = "buttons" /\ Buttons!PlayWaits
NothingGetsStuck ==
  /\ Pending ~> ~Pending
  /\ (part = "chunked" /\ Chunked!Filling) ~> (part = "chunked" => ~Chunked!Filling)
=============================================================================
