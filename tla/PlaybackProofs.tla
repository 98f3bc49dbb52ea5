--------------------------- MODULE PlaybackProofs ---------------------------
(***************************************************************************)
(* What is played is of one track and as the controls show: the inductive  *)
(* invariants of the parts of MCPlayback that stand beside the sound.      *)
(* Those of the loading overlay, the timeline, the pictures and the player *)
(* give theorem OneTrack, those of the transport, the keys, the loop and   *)
(* the mixer theorem ShownIsPlayed.                                        *)
(*                                                                         *)
(* The operators of the parts take a record and return one; so each part's *)
(* invariant is restated as a condition on its record (Settled, Drawn,     *)
(* Wired, Playable), and one lemma per operator says that it keeps it.     *)
(***************************************************************************)
EXTENDS MCPlayback, TLAPS

LEMMA Bounds ==
  /\ MaxMounts \in Nat /\ PictureActs \in Nat
  /\ Durations \subseteq Nat \ {0} /\ Widths \subseteq Nat /\ ZoomMax \in Nat \ {0} /\ RulerActs \in Nat
BY EngineConstants DEF Player!PlayerAssumption, Pictures!VisualsAssumption, Ruler!TimelineAssumption

LEMMA Lengths == (\A d \in Durations : d \in Nat /\ d > 0) /\ (\A w \in Widths : w \in Nat)
BY Bounds

LEMMA Hides ==
  ASSUME NEW o \in Overlay!OverlayRecords
  PROVE  Overlay!hide(o) \in Overlay!OverlayRecords /\ Overlay!hide(o).token = o.token
<1>1. CASE o.hides = 3  BY <1>1 DEF Overlay!hide
<1>2. CASE o.hides # 3
  <2>1. o.hides + 1 \in 0..3  BY <1>2 DEF Overlay!OverlayRecords
  <2> QED  BY <1>2, <2>1 DEF Overlay!hide, Overlay!OverlayRecords
<1> QED  BY <1>1, <1>2

LEMMA OverlayStep ==
  ASSUME Overlay!OverlayTypeOK, [Overlay!OverlayNext]_<<st, acts>>
  PROVE  Overlay!OverlayTypeOK'
<1>1. st \in Overlay!OverlayRecords /\ acts \in 0..MaxMounts + 1 + st.token  BY DEF Overlay!OverlayTypeOK
<1>2. st.token \in Nat /\ st.token <= MaxMounts  BY <1>1, Bounds DEF Overlay!OverlayRecords
<1>3. CASE Overlay!wireUpAudio
  <2> DEFINE m == st.token + 1
  <2>1. m \in Overlay!Mounts /\ m \in 0..MaxMounts
    BY <1>2, <1>3, Bounds DEF Overlay!wireUpAudio, Overlay!Mounts
  <2>2. st' = [Overlay!show(st) EXCEPT !.token = m, !.importing = FALSE,
                 !.canplay = @ \cup {m}, !.giveUp = @ \cup {m}, !.stall = @ \cup {m}]
    BY <1>3 DEF Overlay!wireUpAudio
  <2> HIDE DEF m
  <2>3. st' = [shown |-> TRUE, stalled |-> st.stalled, importing |-> FALSE, token |-> m,
               canplay |-> st.canplay \cup {m}, giveUp |-> st.giveUp \cup {m},
               stall |-> st.stall \cup {m}, hides |-> st.hides]
    BY <1>1, <2>2 DEF Overlay!show, Overlay!OverlayRecords
  <2>4. st' \in Overlay!OverlayRecords  BY <1>1, <2>1, <2>3 DEF Overlay!OverlayRecords
  <2>5. st'.token = st.token + 1  BY <2>3 DEF m
  <2>6. acts' = acts + 1  BY <1>3 DEF Overlay!wireUpAudio
  <2> QED  BY <1>1, <1>2, <2>4, <2>5, <2>6, Bounds DEF Overlay!OverlayTypeOK
<1>4. CASE Overlay!startImport
  <2>1. st' \in Overlay!OverlayRecords /\ st'.token = st.token
    BY <1>1, <1>4 DEF Overlay!startImport, Overlay!OverlayRecords, Overlay!show
  <2>2. acts' = acts + 1 /\ acts <= MaxMounts  BY <1>4 DEF Overlay!startImport
  <2> QED  BY <1>1, <1>2, <2>1, <2>2, Bounds DEF Overlay!OverlayTypeOK
<1>5. ASSUME Overlay!endImport \/ Overlay!canplay \/ Overlay!Stalled \/ Overlay!giveUp \/ Overlay!hidden
      PROVE  Overlay!OverlayTypeOK'
  <2> SUFFICES st' \in Overlay!OverlayRecords /\ st'.token = st.token /\ acts' = acts
    BY <1>1 DEF Overlay!OverlayTypeOK
  <2>1. CASE Overlay!endImport
    <3> DEFINE o == [st EXCEPT !.importing = FALSE]
    <3>1. o \in Overlay!OverlayRecords /\ o.token = st.token  BY <1>1 DEF Overlay!OverlayRecords
    <3> QED  BY <2>1, <3>1, Hides DEF Overlay!endImport
  <2>2. CASE Overlay!canplay
    <3>1. PICK m \in st.canplay : st' = Overlay!hide([st EXCEPT !.canplay = @ \ {m}]) /\ acts' = acts
      BY <2>2 DEF Overlay!canplay
    <3> DEFINE o == [st EXCEPT !.canplay = @ \ {m}]
    <3>2. o \in Overlay!OverlayRecords /\ o.token = st.token  BY <1>1 DEF Overlay!OverlayRecords
    <3> QED  BY <3>1, <3>2, Hides
  <2>3. CASE Overlay!Stalled
    <3>1. PICK m \in st.stall :
            /\ st' = [st EXCEPT !.stall = @ \ {m}, !.stalled = @ \/ (m = st.token /\ st.shown)]
            /\ acts' = acts
      BY <2>3 DEF Overlay!Stalled
    <3>2. (st.stalled \/ (m = st.token /\ st.shown)) \in BOOLEAN  OBVIOUS
    <3> QED  BY <1>1, <3>1, <3>2 DEF Overlay!OverlayRecords
  <2>4. CASE Overlay!giveUp
    <3>1. PICK m \in st.giveUp : st' = Overlay!GaveUp(st, m) /\ acts' = acts  BY <2>4 DEF Overlay!giveUp
    <3> DEFINE o == [st EXCEPT !.giveUp = @ \ {m}]
    <3>2. o \in Overlay!OverlayRecords /\ o.token = st.token  BY <1>1 DEF Overlay!OverlayRecords
    <3>3. st' = IF m = st.token THEN Overlay!hide(o) ELSE o  BY <3>1 DEF Overlay!GaveUp
    <3> HIDE DEF o
    <3> QED  BY <3>1, <3>2, <3>3, Hides
  <2>5. CASE Overlay!hidden
    <3>1. st' = [st EXCEPT !.hides = @ - 1, !.shown = FALSE, !.stalled = FALSE] /\ st.hides > 0 /\ acts' = acts
      BY <2>5 DEF Overlay!hidden
    <3>2. st.hides - 1 \in 0..3  BY <1>1, <3>1 DEF Overlay!OverlayRecords
    <3> QED  BY <1>1, <3>1, <3>2 DEF Overlay!OverlayRecords
  <2> QED  BY <1>5, <2>1, <2>2, <2>3, <2>4, <2>5
<1>6. CASE UNCHANGED <<st, acts>>  BY <1>6 DEF Overlay!OverlayTypeOK
<1> QED  BY <1>3, <1>4, <1>5, <1>6 DEF Overlay!OverlayNext

-----------------------------------------------------------------------------
LEMMA LeastOfLadder ==
  ASSUME NEW S \in SUBSET Ruler!Ladder, S # {}
  PROVE  Ruler!Least(S) \in S
<1>1. \E x \in S : \A y \in S : x <= y
  <2>1. CASE 1 \in S   BY <2>1 DEF Ruler!Ladder
  <2>2. CASE 1 \notin S /\ 2 \in S   BY <2>2 DEF Ruler!Ladder
  <2>3. CASE 1 \notin S /\ 2 \notin S /\ 5 \in S   BY <2>3 DEF Ruler!Ladder
  <2>4. CASE 1 \notin S /\ 2 \notin S /\ 5 \notin S /\ 10 \in S   BY <2>4 DEF Ruler!Ladder
  <2>5. CASE S \subseteq {15, 30, 60}
    <3>1. CASE 15 \in S   BY <2>5, <3>1
    <3>2. CASE 15 \notin S /\ 30 \in S   BY <2>5, <3>2
    <3>3. CASE 15 \notin S /\ 30 \notin S /\ 60 \in S   BY <2>5, <3>3
    <3> QED  BY <2>5, <3>1, <3>2, <3>3
  <2> QED  BY <2>1, <2>2, <2>3, <2>4, <2>5 DEF Ruler!Ladder
<1> QED  BY <1>1 DEF Ruler!Least

LEMMA LeastOfBars ==
  ASSUME NEW S \in SUBSET Ruler!BarLadder, S # {}
  PROVE  Ruler!Least(S) \in S
<1>1. \E x \in S : \A y \in S : x <= y
  <2>1. CASE 1 \in S   BY <2>1 DEF Ruler!BarLadder
  <2>2. CASE 1 \notin S /\ 2 \in S   BY <2>2 DEF Ruler!BarLadder
  <2>3. CASE 1 \notin S /\ 2 \notin S /\ 4 \in S   BY <2>3 DEF Ruler!BarLadder
  <2>4. CASE 1 \notin S /\ 2 \notin S /\ 4 \notin S /\ 8 \in S   BY <2>4 DEF Ruler!BarLadder
  <2>5. CASE S \subseteq {16, 32, 64}
    <3>1. CASE 16 \in S   BY <2>5, <3>1
    <3>2. CASE 16 \notin S /\ 32 \in S   BY <2>5, <3>2
    <3>3. CASE 16 \notin S /\ 32 \notin S /\ 64 \in S   BY <2>5, <3>3
    <3> QED  BY <2>5, <3>1, <3>2, <3>3
  <2> QED  BY <2>1, <2>2, <2>3, <2>4, <2>5 DEF Ruler!BarLadder
<1> QED  BY <1>1 DEF Ruler!Least

LEMMA Widths0 ==
  ASSUME NEW w \in Widths, NEW z \in Ruler!Zooms
  PROVE  /\ w \in Nat /\ z \in Nat /\ w * z \in Nat /\ Ruler!ContentWidth(w, z) \in Nat
<1>1. w \in Nat /\ z \in Nat  BY Bounds DEF Ruler!Zooms
<1>2. w * z \in Nat  BY <1>1
<1> QED  BY <1>1, <1>2 DEF Ruler!ContentWidth, Ruler!MinWidth

LEMMA Wider ==
  ASSUME NEW w \in Widths, NEW v \in Widths, w <= v, NEW z \in Ruler!Zooms
  PROVE  Ruler!ContentWidth(w, z) <= Ruler!ContentWidth(v, z)
<1>1. w \in Nat /\ v \in Nat /\ z \in Nat /\ w * z \in Nat /\ v * z \in Nat  BY Widths0
<1>2. (v - w) * z \in Nat
  <2>1. v - w \in Nat  BY <1>1
  <2> QED  BY <2>1, <1>1
<1>3. v * z = w * z + (v - w) * z  BY <1>1
<1>4. w * z <= v * z  BY <1>1, <1>2, <1>3
<1> QED  BY <1>1, <1>4 DEF Ruler!ContentWidth, Ruler!MinWidth

LEMMA Step ==
  ASSUME NEW d \in Durations, NEW w \in Widths, NEW z \in Ruler!Zooms
  PROVE  /\ Ruler!tickStep(d, w, z) \in Ruler!Ladder
         /\ Ruler!tickStep(d, w, z) < Ruler!Base(d) =>
              Ruler!tickStep(d, w, z) * Ruler!ContentWidth(w, z) >= Ruler!MinTick * d
<1> DEFINE room == {s \in Ruler!Ladder : s <= Ruler!Base(d) /\ s * Ruler!ContentWidth(w, z) >= Ruler!MinTick * d}
<1>1. Ruler!Base(d) \in {15, 30, 60}  BY DEF Ruler!Base
<1>2. CASE z = 1 \/ room = {}
  <2>1. Ruler!tickStep(d, w, z) = Ruler!Base(d)  BY <1>2 DEF Ruler!tickStep
  <2> QED  BY <1>1, <2>1 DEF Ruler!Ladder
<1>3. CASE z # 1 /\ room # {}
  <2>1. Ruler!tickStep(d, w, z) = Ruler!Least(room)  BY <1>3 DEF Ruler!tickStep
  <2>2. Ruler!Least(room) \in room  BY <1>3, LeastOfLadder
  <2> QED  BY <2>1, <2>2
<1> QED  BY <1>2, <1>3

(* The operators of the timeline, on any record of its type.                *)
LEMMA BarLabels ==
  ASSUME NEW t \in Ruler!TimelineRecords
  PROVE  LET q == Ruler!buildBarRuler(t) IN
           /\ q = [t EXCEPT !.squeezed = FALSE, !.barEvery = q.barEvery]
           /\ q \in Ruler!TimelineRecords
           /\ q.barEvery \notin {0, 64} =>
                q.barEvery * Ruler!ContentWidth(t.width, t.zoom) >= Ruler!MinBarLabel * Ruler!Bars(t.duration)
           /\ ~t.beats => q.barEvery = 0
<1> DEFINE room == {n \in Ruler!BarLadder :
             n * Ruler!ContentWidth(t.width, t.zoom) >= Ruler!MinBarLabel * Ruler!Bars(t.duration)}
           every == IF t.duration = 0 \/ ~t.beats THEN 0 ELSE IF room = {} THEN 64 ELSE Ruler!Least(room)
<1>1. room # {} => Ruler!Least(room) \in room  BY LeastOfBars
<1>2. every \in Ruler!BarLadder \cup {0}  BY <1>1 DEF Ruler!BarLadder
<1>3. every \notin {0, 64} =>
        every * Ruler!ContentWidth(t.width, t.zoom) >= Ruler!MinBarLabel * Ruler!Bars(t.duration)
  BY <1>1
<1>4. ~t.beats => every = 0  OBVIOUS
<1>5. Ruler!buildBarRuler(t) = [t EXCEPT !.squeezed = FALSE, !.barEvery = every]
  BY DEF Ruler!buildBarRuler
<1> HIDE DEF every, room
<1>6. [t EXCEPT !.squeezed = FALSE, !.barEvery = every] \in Ruler!TimelineRecords
  BY <1>2 DEF Ruler!TimelineRecords
<1>7. [t EXCEPT !.squeezed = FALSE, !.barEvery = every].barEvery = every
  BY DEF Ruler!TimelineRecords
<1> QED  BY <1>3, <1>4, <1>5, <1>6, <1>7

LEMMA Ruled ==
  ASSUME NEW t \in Ruler!TimelineRecords, t.duration > 0
  PROVE  LET q == Ruler!buildRuler(t) IN
           /\ q = [t EXCEPT !.ruled = t.duration, !.step = Ruler!tickStep(t.duration, t.width, t.zoom)]
           /\ q \in Ruler!TimelineRecords
<1>1. t.duration \in Durations /\ t.width \in Widths /\ t.zoom \in Ruler!Zooms
  BY DEF Ruler!TimelineRecords
<1>2. Ruler!tickStep(t.duration, t.width, t.zoom) \in Ruler!Ladder  BY <1>1, Step
<1>3. Ruler!buildRuler(t) = [t EXCEPT !.ruled = t.duration, !.step = Ruler!tickStep(t.duration, t.width, t.zoom)]
  BY DEF Ruler!buildRuler
<1> QED  BY <1>1, <1>2, <1>3 DEF Ruler!TimelineRecords

LEMMA LaidOut ==
  ASSUME NEW t \in Ruler!TimelineRecords
  PROVE  LET q == Ruler!applyWaveZoom(t) IN
           /\ t.mounted /\ t.duration > 0 =>
                q = [t EXCEPT !.laidOut = Ruler!ContentWidth(t.width, t.zoom), !.frame = TRUE]
           /\ ~(t.mounted /\ t.duration > 0) => q = t
           /\ q \in Ruler!TimelineRecords
<1>1. Ruler!ContentWidth(t.width, t.zoom) \in Nat  BY Widths0 DEF Ruler!TimelineRecords
<1> QED  BY <1>1 DEF Ruler!applyWaveZoom, Ruler!TimelineRecords

(* The invariant of the timeline as a condition on its record.              *)
Settled(t) ==
  /\ (t.mounted <=> t.duration > 0) /\ (t.waiting => t.mounted)
  /\ t.mounted /\ ~t.waiting => t.ruled = t.duration
  /\ t.mounted /\ ~t.waiting /\ ~t.squeezed /\ t.barEvery \notin {0, 64} =>
       t.barEvery * Ruler!ContentWidth(t.width, t.zoom) >= Ruler!MinBarLabel * Ruler!Bars(t.duration)
  /\ t.mounted /\ ~t.waiting /\ ~t.resized =>
       /\ t.step = Ruler!tickStep(t.duration, t.width, t.zoom)
       /\ t.laidOut = Ruler!ContentWidth(t.width, t.zoom)

LEMMA SettledIsEnough ==
  ASSUME st \in Ruler!TimelineRecords, acts \in 0..RulerActs, Settled(st)
  PROVE  Ruler!TimelineIInv
<1>1. Ruler!TimelineTypeOK /\ Ruler!MountedHasLength /\ Ruler!RuledOnce /\ Ruler!BarsFitWider
  BY DEF Settled, Ruler!TimelineTypeOK, Ruler!MountedHasLength, Ruler!RuledOnce, Ruler!BarsFitWider
<1>2. Ruler!BarLabelsFit  BY DEF Settled, Ruler!BarLabelsFit
<1>3. Ruler!RulerFitsWidth
  <2> SUFFICES ASSUME st.mounted, ~st.waiting, ~st.resized
               PROVE  /\ st.ruled = st.duration
                      /\ st.step = Ruler!tickStep(st.duration, st.width, st.zoom)
                      /\ st.laidOut = Ruler!ContentWidth(st.width, st.zoom)
                      /\ st.step < Ruler!Base(st.duration) => st.step * st.laidOut >= Ruler!MinTick * st.duration
    BY DEF Ruler!RulerFitsWidth
  <2>1. /\ st.ruled = st.duration /\ st.duration > 0
        /\ st.step = Ruler!tickStep(st.duration, st.width, st.zoom)
        /\ st.laidOut = Ruler!ContentWidth(st.width, st.zoom)
    BY DEF Settled
  <2>2. st.duration \in Durations /\ st.width \in Widths /\ st.zoom \in Ruler!Zooms
    BY <2>1 DEF Ruler!TimelineRecords
  <2>3. st.step < Ruler!Base(st.duration) => st.step * st.laidOut >= Ruler!MinTick * st.duration
    BY <2>1, <2>2, Step
  <2> QED  BY <2>1, <2>3
<1> QED  BY <1>1, <1>2, <1>3 DEF Ruler!TimelineIInv

LEMMA TimelineIsSettled ==
  ASSUME Ruler!TimelineIInv
  PROVE  st \in Ruler!TimelineRecords /\ acts \in 0..RulerActs /\ Settled(st)
BY DEF Settled, Ruler!TimelineIInv, Ruler!TimelineTypeOK, Ruler!MountedHasLength, Ruler!RuledOnce,
       Ruler!BarsFitWider, Ruler!RulerFitsWidth

(* A change of the zoom lays out and rules again, if a track is mounted.    *)
LEMMA Zoomed ==
  ASSUME NEW t \in Ruler!TimelineRecords, NEW next \in Ruler!Zooms
  PROVE  LET q == Ruler!setWaveZoomLevel(t, next) IN
           /\ q \in Ruler!TimelineRecords
           /\ q.duration = t.duration /\ q.mounted = t.mounted /\ q.waiting = t.waiting
           /\ Settled(t) => Settled(q)
<1>1. CASE next = t.zoom  BY <1>1 DEF Ruler!setWaveZoomLevel
<1>2. CASE next # t.zoom
  <2> DEFINE z == [t EXCEPT !.zoom = next]
             a == Ruler!applyWaveZoom(z)
             r == Ruler!buildRuler(a)
             q == Ruler!buildBarRuler(r)
  <2>1. /\ z \in Ruler!TimelineRecords /\ z.duration = t.duration /\ z.mounted = t.mounted
        /\ z.waiting = t.waiting /\ z.zoom = next /\ z.width = t.width /\ z.resized = t.resized
    BY DEF Ruler!TimelineRecords
  <2> HIDE DEF z
  <2>2. /\ a \in Ruler!TimelineRecords /\ a.duration = t.duration /\ a.mounted = t.mounted
        /\ a.waiting = t.waiting /\ a.zoom = next /\ a.width = t.width /\ a.resized = t.resized
        /\ t.mounted /\ t.duration > 0 => a.laidOut = Ruler!ContentWidth(t.width, next)
    <3>1. CASE z.mounted /\ z.duration > 0
      <4>1. a = [z EXCEPT !.laidOut = Ruler!ContentWidth(z.width, z.zoom), !.frame = TRUE]
        BY <2>1, <3>1, LaidOut
      <4>2. a \in Ruler!TimelineRecords  BY <2>1, LaidOut
      <4> QED  BY <2>1, <4>1, <4>2 DEF Ruler!TimelineRecords
    <3>2. CASE ~(z.mounted /\ z.duration > 0)
      <4>1. a = z  BY <2>1, <3>2, LaidOut
      <4> QED  BY <2>1, <3>2, <4>1
    <3> QED  BY <3>1, <3>2
  <2> HIDE DEF a
  <2>3. /\ r \in Ruler!TimelineRecords /\ r.duration = t.duration /\ r.mounted = t.mounted
        /\ r.waiting = t.waiting /\ r.zoom = next /\ r.width = t.width /\ r.resized = t.resized
        /\ r.laidOut = a.laidOut
        /\ t.duration > 0 => r.ruled = t.duration /\ r.step = Ruler!tickStep(t.duration, t.width, next)
    <3>1. CASE a.duration > 0
      <4>1. /\ r = [a EXCEPT !.ruled = a.duration, !.step = Ruler!tickStep(a.duration, a.width, a.zoom)]
            /\ r \in Ruler!TimelineRecords
        BY <2>2, <3>1, Ruled
      <4> QED  BY <2>2, <4>1 DEF Ruler!TimelineRecords
    <3>2. CASE ~(a.duration > 0)
      <4>1. a.duration = 0
        <5>1. a.duration \in Durations \cup {0}  BY <2>2 DEF Ruler!TimelineRecords
        <5> QED  BY <3>2, <5>1, Lengths
      <4>2. r = [a EXCEPT !.ruled = 0]  BY <4>1 DEF Ruler!buildRuler
      <4> QED  BY <2>2, <4>1, <4>2 DEF Ruler!TimelineRecords
    <3> QED  BY <3>1, <3>2
  <2> HIDE DEF r
  <2>4. /\ q \in Ruler!TimelineRecords /\ q.duration = t.duration /\ q.mounted = t.mounted
        /\ q.waiting = t.waiting /\ q.zoom = next /\ q.width = t.width /\ q.resized = t.resized
        /\ q.laidOut = r.laidOut /\ q.ruled = r.ruled /\ q.step = r.step
        /\ q.barEvery \notin {0, 64} =>
             q.barEvery * Ruler!ContentWidth(t.width, next) >= Ruler!MinBarLabel * Ruler!Bars(t.duration)
    <3>1. /\ q = [r EXCEPT !.squeezed = FALSE, !.barEvery = q.barEvery]
          /\ q \in Ruler!TimelineRecords
          /\ q.barEvery \notin {0, 64} =>
               q.barEvery * Ruler!ContentWidth(r.width, r.zoom) >= Ruler!MinBarLabel * Ruler!Bars(r.duration)
      BY <2>3, BarLabels
    <3> HIDE DEF q
    <3> QED  BY <2>3, <3>1 DEF Ruler!TimelineRecords
  <2>5. Ruler!setWaveZoomLevel(t, next) = q
    BY <1>2 DEF Ruler!setWaveZoomLevel, z, a, r
  <2> HIDE DEF q
  <2>6. ASSUME Settled(t) PROVE Settled(q)
    BY <2>2, <2>3, <2>4, <2>6 DEF Settled
  <2> QED  BY <2>4, <2>5, <2>6
<1> QED  BY <1>1, <1>2

LEMMA TimelineStep ==
  ASSUME Ruler!TimelineIInv, [Ruler!TimelineNext]_<<st, acts>>
  PROVE  Ruler!TimelineIInv'
<1>1. st \in Ruler!TimelineRecords /\ acts \in 0..RulerActs /\ Settled(st)  BY TimelineIsSettled
<1>2. Ruler!Act => acts' \in 0..RulerActs  BY <1>1, Bounds DEF Ruler!Act
<1>3. ASSUME st' \in Ruler!TimelineRecords, acts' \in 0..RulerActs, Settled(st')
      PROVE  Ruler!TimelineIInv'
  <2>1. (st \in Ruler!TimelineRecords /\ acts \in 0..RulerActs /\ Settled(st) => Ruler!TimelineIInv)'
    BY SettledIsEnough, PTL
  <2> QED  BY <1>3, <2>1 DEF Settled
<1>4. CASE Ruler!Open
  <2>1. PICK d \in Durations :
          st' = [Ruler!setWaveZoomLevel([st EXCEPT !.duration = d, !.mounted = FALSE], 1)
                   EXCEPT !.mounted = TRUE, !.waiting = TRUE]
    BY <1>4 DEF Ruler!Open
  <2> DEFINE t == [st EXCEPT !.duration = d, !.mounted = FALSE]
             q == Ruler!setWaveZoomLevel(t, 1)
  <2>2. t \in Ruler!TimelineRecords /\ t.duration = d  BY <1>1 DEF Ruler!TimelineRecords
  <2>3. 1 \in Ruler!Zooms  BY Bounds DEF Ruler!Zooms
  <2> HIDE DEF t
  <2>4. q \in Ruler!TimelineRecords /\ q.duration = d  BY <2>2, <2>3, Zoomed
  <2>5. st' = [q EXCEPT !.mounted = TRUE, !.waiting = TRUE]  BY <2>1 DEF t
  <2> HIDE DEF q
  <2>6. st' \in Ruler!TimelineRecords /\ st'.mounted /\ st'.waiting /\ st'.duration = d
    BY <2>4, <2>5 DEF Ruler!TimelineRecords
  <2>7. d > 0  BY Bounds
  <2>8. Settled(st')  BY <2>6, <2>7 DEF Settled
  <2> QED  BY <1>2, <1>3, <1>4, <2>6, <2>8 DEF Ruler!Open
<1>5. CASE Ruler!canplay
  <2> DEFINE t == [st EXCEPT !.beats = FALSE]
             r == Ruler!buildRuler(t)
             b == Ruler!buildBarRuler(r)
             a == Ruler!applyWaveZoom(b)
  <2>1. st.mounted /\ st.duration > 0  BY <1>1, <1>5 DEF Ruler!canplay, Settled
  <2>2. /\ t \in Ruler!TimelineRecords /\ t.duration = st.duration /\ t.width = st.width /\ t.zoom = st.zoom
        /\ t.mounted /\ ~t.beats
    BY <1>1, <2>1 DEF Ruler!TimelineRecords
  <2> HIDE DEF t
  <2>3. /\ r \in Ruler!TimelineRecords /\ r.duration = st.duration /\ r.width = st.width /\ r.zoom = st.zoom
        /\ r.mounted /\ ~r.beats /\ r.ruled = st.duration
        /\ r.step = Ruler!tickStep(st.duration, st.width, st.zoom)
    <3>1. /\ r = [t EXCEPT !.ruled = t.duration, !.step = Ruler!tickStep(t.duration, t.width, t.zoom)]
          /\ r \in Ruler!TimelineRecords
      BY <2>1, <2>2, Ruled
    <3> QED  BY <2>2, <3>1 DEF Ruler!TimelineRecords
  <2> HIDE DEF r
  <2>4. /\ b \in Ruler!TimelineRecords /\ b.duration = st.duration /\ b.width = st.width /\ b.zoom = st.zoom
        /\ b.mounted /\ b.ruled = st.duration /\ b.barEvery = 0
        /\ b.step = Ruler!tickStep(st.duration, st.width, st.zoom)
    <3>1. /\ b = [r EXCEPT !.squeezed = FALSE, !.barEvery = b.barEvery]
          /\ b \in Ruler!TimelineRecords /\ b.barEvery = 0
      BY <2>3, BarLabels
    <3> HIDE DEF b
    <3> QED  BY <2>3, <3>1 DEF Ruler!TimelineRecords
  <2> HIDE DEF b
  <2>5. /\ a \in Ruler!TimelineRecords
        /\ a = [b EXCEPT !.laidOut = Ruler!ContentWidth(b.width, b.zoom), !.frame = TRUE]
    BY <2>1, <2>4, LaidOut
  <2>6. st' = [a EXCEPT !.waiting = FALSE]  BY <1>5 DEF Ruler!canplay, t, r, b
  <2> HIDE DEF a
  <2>7. /\ st' \in Ruler!TimelineRecords
        /\ st'.duration = b.duration /\ st'.width = b.width /\ st'.zoom = b.zoom /\ st'.mounted = b.mounted
        /\ st'.ruled = b.ruled /\ st'.barEvery = b.barEvery /\ st'.step = b.step
        /\ st'.laidOut = Ruler!ContentWidth(b.width, b.zoom) /\ ~st'.waiting
    <3>1. /\ a.duration = b.duration /\ a.width = b.width /\ a.zoom = b.zoom /\ a.mounted = b.mounted
          /\ a.ruled = b.ruled /\ a.barEvery = b.barEvery /\ a.step = b.step
          /\ a.laidOut = Ruler!ContentWidth(b.width, b.zoom)
      BY <2>4, <2>5 DEF Ruler!TimelineRecords
    <3> QED  BY <2>5, <2>6, <3>1 DEF Ruler!TimelineRecords
  <2>8. Settled(st')  BY <2>1, <2>4, <2>7 DEF Settled
  <2>9. acts' = acts  BY <1>5 DEF Ruler!canplay
  <2> QED  BY <1>1, <1>3, <2>7, <2>8, <2>9
<1>6. CASE Ruler!destroyPlayer
  <2>1. st' = [st EXCEPT !.duration = 0, !.mounted = FALSE, !.waiting = FALSE, !.ruled = 0, !.beats = FALSE]
    BY <1>6 DEF Ruler!destroyPlayer
  <2>2. st' \in Ruler!TimelineRecords /\ st'.duration = 0 /\ ~st'.mounted /\ ~st'.waiting
    BY <1>1, <2>1 DEF Ruler!TimelineRecords
  <2>3. Settled(st')  BY <2>2 DEF Settled
  <2> QED  BY <1>2, <1>3, <1>6, <2>2, <2>3 DEF Ruler!destroyPlayer
<1>7. CASE Ruler!wheel
  <2>1. PICK next \in Ruler!Zooms : st' = Ruler!setWaveZoomLevel(st, next)  BY <1>7 DEF Ruler!wheel
  <2>2. st' \in Ruler!TimelineRecords /\ Settled(st')  BY <1>1, <2>1, Zoomed
  <2> QED  BY <1>2, <1>3, <1>7, <2>2 DEF Ruler!wheel
<1>8. CASE Ruler!Resize
  <2>1. PICK w \in Widths \ {st.width} :
          st' = [st EXCEPT !.width = w, !.resized = TRUE, !.squeezed = @ \/ w < st.width]
    BY <1>8 DEF Ruler!Resize
  <2>2. (st.squeezed \/ w < st.width) \in BOOLEAN  OBVIOUS
  <2>3. /\ st' \in Ruler!TimelineRecords /\ st'.resized
        /\ st'.duration = st.duration /\ st'.mounted = st.mounted /\ st'.waiting = st.waiting
        /\ st'.ruled = st.ruled /\ st'.barEvery = st.barEvery /\ st'.zoom = st.zoom /\ st'.width = w
        /\ (st'.squeezed <=> (st.squeezed \/ w < st.width))
    BY <1>1, <2>1, <2>2 DEF Ruler!TimelineRecords
  <2>4. ASSUME st'.mounted, ~st'.waiting, ~st'.squeezed, st'.barEvery \notin {0, 64}
        PROVE  st'.barEvery * Ruler!ContentWidth(w, st.zoom) >= Ruler!MinBarLabel * Ruler!Bars(st.duration)
    <3>1. /\ st.width \in Widths /\ w \in Widths /\ st.zoom \in Ruler!Zooms
          /\ st.barEvery \in Ruler!BarLadder
      BY <1>1, <2>3, <2>4 DEF Ruler!TimelineRecords
    <3>2. st.width <= w /\ ~st.squeezed  BY <2>3, <2>4, <3>1, Lengths
    <3>3. Ruler!ContentWidth(st.width, st.zoom) <= Ruler!ContentWidth(w, st.zoom)  BY <3>1, <3>2, Wider
    <3>4. st.barEvery * Ruler!ContentWidth(st.width, st.zoom) >= Ruler!MinBarLabel * Ruler!Bars(st.duration)
      BY <1>1, <2>3, <2>4, <3>2 DEF Settled
    <3>5. Ruler!ContentWidth(st.width, st.zoom) \in Nat /\ Ruler!ContentWidth(w, st.zoom) \in Nat
      BY <3>1, Widths0
    <3>6. st.barEvery * Ruler!ContentWidth(w, st.zoom) >= st.barEvery * Ruler!ContentWidth(st.width, st.zoom)
      BY <3>1, <3>3, <3>5 DEF Ruler!BarLadder
    <3>7. st.duration \in Nat /\ Ruler!MinBarLabel * Ruler!Bars(st.duration) \in Int
      <4>1. st.duration \in Durations \cup {0}  BY <1>1 DEF Ruler!TimelineRecords
      <4>2. st.duration \in Nat  BY <4>1, Lengths
      <4> QED  BY <4>2 DEF Ruler!MinBarLabel, Ruler!Bars
    <3>8. /\ st.barEvery * Ruler!ContentWidth(w, st.zoom) \in Int
          /\ st.barEvery * Ruler!ContentWidth(st.width, st.zoom) \in Int
      BY <3>1, <3>5 DEF Ruler!BarLadder
    <3> QED  BY <2>3, <3>4, <3>6, <3>7, <3>8
  <2>5. Settled(st')  BY <1>1, <2>3, <2>4 DEF Settled
  <2> QED  BY <1>2, <1>3, <1>8, <2>3, <2>5 DEF Ruler!Resize
<1>9. CASE Ruler!resizeFrame
  <2> DEFINE q == [st EXCEPT !.resized = FALSE]
             laid == Ruler!applyWaveZoom(q)
             r == Ruler!buildRuler(laid)
             b == Ruler!buildBarRuler(r)
  <2>1. /\ q \in Ruler!TimelineRecords /\ ~q.resized
        /\ q.duration = st.duration /\ q.mounted = st.mounted /\ q.waiting = st.waiting /\ q.width = st.width
        /\ q.zoom = st.zoom /\ q.ruled = st.ruled /\ q.barEvery = st.barEvery /\ q.step = st.step
        /\ q.squeezed = st.squeezed
    BY <1>1 DEF Ruler!TimelineRecords
  <2>2. st' = IF ~q.mounted \/ q.duration = 0 THEN q
              ELSE IF Ruler!tickStep(q.duration, q.width, q.zoom) = q.step THEN laid
              ELSE b
    BY <1>9 DEF Ruler!resizeFrame
  <2> HIDE DEF q
  <2>3. CASE ~q.mounted \/ q.duration = 0
    <3>1. st' = q  BY <2>2, <2>3
    <3>2. ~q.mounted  BY <1>1, <2>1, <2>3 DEF Settled
    <3>3. Settled(st')  BY <1>1, <2>1, <3>1, <3>2 DEF Settled
    <3> QED  BY <1>1, <1>3, <1>9, <2>1, <3>1, <3>3 DEF Ruler!resizeFrame
  <2>4. CASE q.mounted /\ q.duration # 0
    <3>1. q.duration > 0  BY <1>1, <2>1, <2>4 DEF Settled
    <3>2. /\ laid \in Ruler!TimelineRecords
          /\ laid = [q EXCEPT !.laidOut = Ruler!ContentWidth(q.width, q.zoom), !.frame = TRUE]
      BY <2>1, <2>4, <3>1, LaidOut
    <3>3. /\ ~laid.resized /\ laid.duration = st.duration /\ laid.mounted = st.mounted
          /\ laid.waiting = st.waiting /\ laid.width = st.width /\ laid.zoom = st.zoom
          /\ laid.ruled = st.ruled /\ laid.barEvery = st.barEvery /\ laid.step = st.step
          /\ laid.squeezed = st.squeezed /\ laid.laidOut = Ruler!ContentWidth(st.width, st.zoom)
      BY <2>1, <3>2 DEF Ruler!TimelineRecords
    <3> HIDE DEF laid
    <3>4. CASE Ruler!tickStep(q.duration, q.width, q.zoom) = q.step
      <4>1. st' = laid  BY <2>2, <2>4, <3>4
      <4>2. Settled(laid)  BY <1>1, <2>1, <3>3, <3>4 DEF Settled
      <4> QED  BY <1>1, <1>3, <1>9, <3>2, <4>1, <4>2 DEF Ruler!resizeFrame
    <3>5. CASE Ruler!tickStep(q.duration, q.width, q.zoom) # q.step
      <4>1. /\ r \in Ruler!TimelineRecords
            /\ r = [laid EXCEPT !.ruled = laid.duration,
                                !.step = Ruler!tickStep(laid.duration, laid.width, laid.zoom)]
        BY <2>1, <3>1, <3>2, <3>3, Ruled
      <4>2. /\ ~r.resized /\ r.duration = st.duration /\ r.mounted = st.mounted
            /\ r.waiting = st.waiting /\ r.width = st.width /\ r.zoom = st.zoom
            /\ r.ruled = st.duration /\ r.step = Ruler!tickStep(st.duration, st.width, st.zoom)
            /\ r.laidOut = Ruler!ContentWidth(st.width, st.zoom)
        <5>1. /\ r.resized = laid.resized /\ r.duration = laid.duration /\ r.mounted = laid.mounted
              /\ r.waiting = laid.waiting /\ r.width = laid.width /\ r.zoom = laid.zoom
              /\ r.ruled = laid.duration /\ r.laidOut = laid.laidOut
              /\ r.step = Ruler!tickStep(laid.duration, laid.width, laid.zoom)
          BY <3>2, <4>1 DEF Ruler!TimelineRecords
        <5> QED  BY <3>3, <5>1
      <4> HIDE DEF r
      <4>3. /\ b \in Ruler!TimelineRecords
            /\ b = [r EXCEPT !.squeezed = FALSE, !.barEvery = b.barEvery]
            /\ b.barEvery \notin {0, 64} =>
                 b.barEvery * Ruler!ContentWidth(r.width, r.zoom) >= Ruler!MinBarLabel * Ruler!Bars(r.duration)
        BY <4>1, BarLabels
      <4> HIDE DEF b
      <4>4. /\ ~b.resized /\ b.duration = st.duration /\ b.mounted = st.mounted
            /\ b.waiting = st.waiting /\ b.width = st.width /\ b.zoom = st.zoom
            /\ b.ruled = st.duration /\ b.step = Ruler!tickStep(st.duration, st.width, st.zoom)
            /\ b.laidOut = Ruler!ContentWidth(st.width, st.zoom)
        BY <4>1, <4>2, <4>3 DEF Ruler!TimelineRecords
      <4>5. st' = b  BY <2>2, <2>4, <3>5
      <4>6. Settled(b)  BY <1>1, <4>2, <4>3, <4>4 DEF Settled
      <4> QED  BY <1>1, <1>3, <1>9, <4>3, <4>5, <4>6 DEF Ruler!resizeFrame
    <3> QED  BY <3>4, <3>5
  <2> QED  BY <2>3, <2>4
<1>10. CASE Ruler!beatsChanged
  <2> DEFINE t == [st EXCEPT !.beats = TRUE]
             b == Ruler!buildBarRuler(t)
  <2>1. /\ t \in Ruler!TimelineRecords
        /\ t.duration = st.duration /\ t.mounted = st.mounted /\ t.waiting = st.waiting /\ t.width = st.width
        /\ t.zoom = st.zoom /\ t.ruled = st.ruled /\ t.step = st.step /\ t.laidOut = st.laidOut
        /\ t.resized = st.resized
    BY <1>1 DEF Ruler!TimelineRecords
  <2>2. st' = b  BY <1>10 DEF Ruler!beatsChanged
  <2> HIDE DEF t
  <2>3. /\ b \in Ruler!TimelineRecords
        /\ b = [t EXCEPT !.squeezed = FALSE, !.barEvery = b.barEvery]
        /\ b.barEvery \notin {0, 64} =>
             b.barEvery * Ruler!ContentWidth(t.width, t.zoom) >= Ruler!MinBarLabel * Ruler!Bars(t.duration)
    BY <2>1, BarLabels
  <2> HIDE DEF b
  <2>4. /\ b.duration = st.duration /\ b.mounted = st.mounted /\ b.waiting = st.waiting /\ b.width = st.width
        /\ b.zoom = st.zoom /\ b.ruled = st.ruled /\ b.step = st.step /\ b.laidOut = st.laidOut
        /\ b.resized = st.resized
    BY <2>1, <2>3 DEF Ruler!TimelineRecords
  <2>5. Settled(b)  BY <1>1, <2>1, <2>3, <2>4 DEF Settled
  <2> QED  BY <1>2, <1>3, <1>10, <2>2, <2>3, <2>5 DEF Ruler!beatsChanged
<1>11. CASE Ruler!zoomFrame
  <2>1. st' = [st EXCEPT !.frame = FALSE] /\ acts' = acts  BY <1>11 DEF Ruler!zoomFrame
  <2>2. /\ st' \in Ruler!TimelineRecords
        /\ st'.duration = st.duration /\ st'.mounted = st.mounted /\ st'.waiting = st.waiting
        /\ st'.width = st.width /\ st'.zoom = st.zoom /\ st'.ruled = st.ruled /\ st'.step = st.step
        /\ st'.laidOut = st.laidOut /\ st'.resized = st.resized /\ st'.barEvery = st.barEvery
        /\ st'.squeezed = st.squeezed
    BY <1>1, <2>1 DEF Ruler!TimelineRecords
  <2>3. Settled(st')  BY <1>1, <2>2 DEF Settled
  <2> QED  BY <1>1, <1>3, <2>1, <2>2, <2>3
<1>12. CASE UNCHANGED <<st, acts>>  BY <1>1, <1>3, <1>12 DEF Settled
<1> QED  BY <1>4, <1>5, <1>6, <1>7, <1>8, <1>9, <1>10, <1>11, <1>12 DEF Ruler!TimelineNext

-----------------------------------------------------------------------------
(* The invariant of the pictures as a condition on their record.            *)
Drawn(v) ==
  /\ v.mt \in {0, v.token}
  /\ \A m \in Pictures!Mounts : m \in v.canplay \/ v.peaks[m] # "no" \/ v.engine[m] # "no" => m <= v.token
  /\ v.mt # 0 /\ v.peaks[v.mt] = "some" /\ ~v.stray =>
       /\ v.source = v.mt /\ v.overview = v.mt
       /\ (\A m \in 1..v.mt : v.peaks[m] # "none") => v.footer = v.mt
  /\ \A m \in v.footers : v.peaks[m] = "none"
  /\ v.mt # 0 =>
       /\ v.meters \in {0, v.mt}
       /\ v.engine[v.mt] \in {"chunked", "up"} => v.meters = v.mt
       /\ v.engine[v.mt] = "up" \/ (v.engine[v.mt] = "chunked" /\ v.peaks[v.mt] = "some") => v.energy = v.mt

LEMMA DrawnIsEnough ==
  ASSUME st \in Pictures!VisualsRecords, acts \in 0..PictureActs, Drawn(st)
  PROVE  Pictures!VisualsIInv
<1>1. /\ Pictures!VisualsTypeOK /\ st.mt \in {0, st.token} /\ Pictures!OfMounted /\ Pictures!DrawnAgain
      /\ Pictures!FootersWithoutPeaks /\ Pictures!MetersStarted
  BY DEF Drawn, Pictures!VisualsTypeOK, Pictures!OfMounted, Pictures!DrawnAgain, Pictures!FootersWithoutPeaks,
         Pictures!MetersStarted
<1>2. Pictures!PeaksStayOnScreen  BY DEF Drawn, Pictures!PeaksStayOnScreen
<1>3. Pictures!MetersOfTheTrack  BY DEF Drawn, Pictures!MetersOfTheTrack
<1> QED  BY <1>1, <1>2, <1>3 DEF Pictures!VisualsIInv

LEMMA PicturesAreDrawn ==
  ASSUME Pictures!VisualsIInv
  PROVE  st \in Pictures!VisualsRecords /\ acts \in 0..PictureActs /\ Drawn(st)
<1>1. st \in Pictures!VisualsRecords /\ acts \in 0..PictureActs
  BY DEF Pictures!VisualsIInv, Pictures!VisualsTypeOK
<1>2. ASSUME st.mt # 0, st.peaks[st.mt] = "some", ~st.stray
      PROVE  /\ st.source = st.mt /\ st.overview = st.mt
             /\ (\A m \in 1..st.mt : st.peaks[m] # "none") => st.footer = st.mt
  BY <1>2 DEF Pictures!VisualsIInv, Pictures!DrawnAgain, Pictures!PeaksStayOnScreen
<1>3. ASSUME st.mt # 0
      PROVE  /\ st.meters \in {0, st.mt}
             /\ st.engine[st.mt] \in {"chunked", "up"} => st.meters = st.mt
             /\ st.engine[st.mt] = "up" \/ (st.engine[st.mt] = "chunked" /\ st.peaks[st.mt] = "some")
                  => st.energy = st.mt
  BY <1>3 DEF Pictures!VisualsIInv, Pictures!MetersStarted, Pictures!MetersOfTheTrack
<1> QED  BY <1>1, <1>2, <1>3 DEF Drawn, Pictures!VisualsIInv, Pictures!OfMounted, Pictures!FootersWithoutPeaks

(* What Drawn looks at besides the drawings themselves.                     *)
Alike(q, v) ==
  /\ q.token = v.token /\ q.mt = v.mt /\ q.peaks = v.peaks /\ q.engine = v.engine
  /\ q.footers = v.footers /\ q.stray = v.stray /\ q.canplay = v.canplay

LEMMA Painted ==
  ASSUME NEW v \in Pictures!VisualsRecords, NEW m \in Pictures!Mounts
  PROVE  LET q == Pictures!renderAllOverviewWaveforms(v, m) IN
           /\ q \in Pictures!VisualsRecords /\ Alike(q, v)
           /\ q.overview = m /\ q.source = m
           /\ q.footer = v.footer /\ q.meters = v.meters /\ q.energy = v.energy /\ q.path = v.path
<1> DEFINE a == [v EXCEPT !.overview = m]
           q == [a EXCEPT !.source = m]
<1>1. m \in Pictures!Shown  BY Bounds DEF Pictures!Shown, Pictures!Mounts
<1>2. /\ a \in Pictures!VisualsRecords /\ Alike(a, v) /\ a.overview = m
      /\ a.footer = v.footer /\ a.meters = v.meters /\ a.energy = v.energy /\ a.path = v.path
  BY <1>1 DEF Pictures!VisualsRecords, Alike
<1>3. Pictures!renderAllOverviewWaveforms(v, m) = q  BY DEF Pictures!renderAllOverviewWaveforms
<1> HIDE DEF a
<1>4. /\ q \in Pictures!VisualsRecords /\ Alike(q, a) /\ q.overview = a.overview /\ q.source = m
      /\ q.footer = a.footer /\ q.meters = a.meters /\ q.energy = a.energy /\ q.path = a.path
  BY <1>1, <1>2 DEF Pictures!VisualsRecords, Alike
<1> QED  BY <1>2, <1>3, <1>4 DEF Alike

LEMMA Metered ==
  ASSUME NEW v \in Pictures!VisualsRecords, NEW m \in Pictures!Shown
  PROVE  LET q == Pictures!startVuLoop(v, m) IN
           /\ q \in Pictures!VisualsRecords /\ Alike(q, v) /\ q.meters = m
           /\ q.overview = v.overview /\ q.source = v.source /\ q.footer = v.footer /\ q.energy = v.energy
           /\ q.path = v.path
BY DEF Pictures!startVuLoop, Pictures!VisualsRecords, Alike

LEMMA FromDecoded ==
  ASSUME NEW v \in Pictures!VisualsRecords, NEW m \in Pictures!Mounts
  PROVE  LET q == Pictures!fromDecoded(v, m) IN
           /\ q \in Pictures!VisualsRecords /\ Alike(q, v)
           /\ q.energy = m /\ q.meters = m /\ q.footer = v.footer
           /\ v.peaks[m] = "some" => q.overview = v.overview /\ q.source = v.source
<1> DEFINE lanes == IF v.peaks[m] = "some" THEN v ELSE Pictures!renderAllOverviewWaveforms(v, m)
           e == [lanes EXCEPT !.energy = m]
<1>1. /\ lanes \in Pictures!VisualsRecords /\ Alike(lanes, v) /\ lanes.footer = v.footer
      /\ v.peaks[m] = "some" => lanes.overview = v.overview /\ lanes.source = v.source
  BY Painted DEF Alike
<1>2. Pictures!fromDecoded(v, m) = Pictures!startVuLoop(e, m)  BY DEF Pictures!fromDecoded
<1> HIDE DEF lanes
<1>3. m \in Pictures!Shown  BY Bounds DEF Pictures!Shown, Pictures!Mounts
<1>4. /\ e \in Pictures!VisualsRecords /\ Alike(e, lanes) /\ e.energy = m /\ e.footer = lanes.footer
      /\ e.overview = lanes.overview /\ e.source = lanes.source
  BY <1>1, <1>3 DEF Pictures!VisualsRecords, Alike
<1> HIDE DEF e
<1> QED  BY <1>1, <1>2, <1>3, <1>4, Metered DEF Alike

LEMMA EnginePeaks ==
  ASSUME NEW v \in Pictures!VisualsRecords, NEW m \in Pictures!Mounts
  PROVE  LET q == Pictures!enginePeaks(v, m) IN
           /\ q \in Pictures!VisualsRecords
           /\ q.token = v.token /\ q.mt = v.mt /\ q.peaks = v.peaks /\ q.footers = v.footers /\ q.stray = v.stray
           /\ q.canplay = v.canplay
           /\ q.overview = v.overview /\ q.source = v.source /\ q.footer = v.footer /\ q.meters = v.meters
           /\ \/ Alike(q, v) /\ q.energy = v.energy
                 /\ (Pictures!switched(v, m) \/ v.engine[m] # "chunked" \/ v.peaks[m] # "some")
              \/ Alike(q, v) /\ q.energy = m /\ ~Pictures!switched(v, m)
              \/ /\ q.engine = [v.engine EXCEPT ![m] = "starting"] /\ q.energy = v.energy
                 /\ ~Pictures!switched(v, m) /\ v.engine[m] = "chunked"
<1>1. m \in Pictures!Shown  BY Bounds DEF Pictures!Shown, Pictures!Mounts
<1>2. CASE \/ Pictures!switched(v, m) \/ v.engine[m] # "chunked" \/ v.peaks[m] = "asked"
           \/ v.peaks[m] # "some" /\ v.path[m] = "chunkedLarge"
  <2>1. Pictures!enginePeaks(v, m) = v  BY <1>2 DEF Pictures!enginePeaks
  <2> QED  BY <1>2, <2>1 DEF Alike
<1>3. CASE ~Pictures!switched(v, m) /\ v.engine[m] = "chunked" /\ v.peaks[m] = "some"
  <2>1. Pictures!enginePeaks(v, m) = [v EXCEPT !.energy = m]  BY <1>3 DEF Pictures!enginePeaks
  <2> QED  BY <1>1, <1>3, <2>1 DEF Alike, Pictures!VisualsRecords
<1>4. CASE /\ ~Pictures!switched(v, m) /\ v.engine[m] = "chunked" /\ v.peaks[m] \notin {"asked", "some"}
           /\ v.path[m] # "chunkedLarge"
  <2>1. Pictures!enginePeaks(v, m) = [v EXCEPT !.engine[m] = "starting", !.path[m] = "fulldecode"]
    BY <1>4 DEF Pictures!enginePeaks
  <2> DEFINE a == [v EXCEPT !.engine[m] = "starting"]
             q == [a EXCEPT !.path[m] = "fulldecode"]
  <2>2. /\ a \in Pictures!VisualsRecords /\ a.engine = [v.engine EXCEPT ![m] = "starting"]
        /\ a.token = v.token /\ a.mt = v.mt /\ a.peaks = v.peaks /\ a.footers = v.footers /\ a.stray = v.stray
        /\ a.overview = v.overview /\ a.source = v.source /\ a.footer = v.footer /\ a.meters = v.meters
        /\ a.energy = v.energy /\ a.canplay = v.canplay
    BY DEF Pictures!VisualsRecords
  <2>3. Pictures!enginePeaks(v, m) = q  BY <2>1
  <2> HIDE DEF a
  <2>4. /\ q \in Pictures!VisualsRecords /\ q.engine = a.engine
        /\ q.token = a.token /\ q.mt = a.mt /\ q.peaks = a.peaks /\ q.footers = a.footers /\ q.stray = a.stray
        /\ q.overview = a.overview /\ q.source = a.source /\ q.footer = a.footer /\ q.meters = a.meters
        /\ q.energy = a.energy /\ q.canplay = a.canplay
    BY <2>2 DEF Pictures!VisualsRecords, Pictures!Paths
  <2> HIDE DEF q
  <2> QED  BY <1>4, <2>2, <2>3, <2>4
<1> QED  BY <1>2, <1>3, <1>4

(* An engine that has just come up, or just got its peaks, has yet to draw  *)
(* the energy; enginePeaks does.                                            *)
NearlyDrawn(v) ==
  /\ v.mt \in {0, v.token}
  /\ \A m \in Pictures!Mounts : m \in v.canplay \/ v.peaks[m] # "no" \/ v.engine[m] # "no" => m <= v.token
  /\ v.mt # 0 /\ v.peaks[v.mt] = "some" /\ ~v.stray =>
       /\ v.source = v.mt /\ v.overview = v.mt
       /\ (\A m \in 1..v.mt : v.peaks[m] # "none") => v.footer = v.mt
  /\ \A m \in v.footers : v.peaks[m] = "none"
  /\ v.mt # 0 =>
       /\ v.meters \in {0, v.mt}
       /\ v.engine[v.mt] \in {"chunked", "up"} => v.meters = v.mt
       /\ v.engine[v.mt] = "up" => v.energy = v.mt

LEMMA EnergyDrawn ==
  ASSUME NEW v \in Pictures!VisualsRecords, NearlyDrawn(v), v.token \in Pictures!Mounts
  PROVE  Drawn(Pictures!enginePeaks(v, v.token)) /\ Pictures!enginePeaks(v, v.token) \in Pictures!VisualsRecords
<1> DEFINE m == v.token
           q == Pictures!enginePeaks(v, m)
<1>1. /\ q \in Pictures!VisualsRecords
      /\ q.token = v.token /\ q.mt = v.mt /\ q.peaks = v.peaks /\ q.footers = v.footers /\ q.stray = v.stray
      /\ q.canplay = v.canplay
      /\ q.overview = v.overview /\ q.source = v.source /\ q.footer = v.footer /\ q.meters = v.meters
  BY EnginePeaks
<1>2. \/ Alike(q, v) /\ q.energy = v.energy
         /\ (Pictures!switched(v, m) \/ v.engine[m] # "chunked" \/ v.peaks[m] # "some")
      \/ Alike(q, v) /\ q.energy = m /\ ~Pictures!switched(v, m)
      \/ /\ q.engine = [v.engine EXCEPT ![m] = "starting"] /\ q.energy = v.energy
         /\ ~Pictures!switched(v, m) /\ v.engine[m] = "chunked"
  BY EnginePeaks
<1> SUFFICES Drawn(q)  BY <1>1
<1> HIDE DEF q
<1>3. v.engine \in [Pictures!Mounts -> {"no", "starting", "chunked", "up"}]  BY DEF Pictures!VisualsRecords
<1>4. CASE /\ Alike(q, v) /\ q.energy = v.energy
           /\ (Pictures!switched(v, m) \/ v.engine[m] # "chunked" \/ v.peaks[m] # "some")
  <2>1. v.mt # 0 => v.mt = m  BY DEF NearlyDrawn
  <2>2. v.mt # 0 => ~Pictures!switched(v, m)  BY <2>1 DEF Pictures!switched
  <2> QED  BY <1>1, <1>4, <2>1, <2>2 DEF NearlyDrawn, Drawn, Alike
<1>5. CASE Alike(q, v) /\ q.energy = m /\ ~Pictures!switched(v, m)
  <2>1. v.mt = m  BY <1>5 DEF Pictures!switched
  <2> QED  BY <1>1, <1>5, <2>1 DEF NearlyDrawn, Drawn, Alike
<1>6. CASE /\ q.engine = [v.engine EXCEPT ![m] = "starting"] /\ q.energy = v.energy
           /\ ~Pictures!switched(v, m) /\ v.engine[m] = "chunked"
  <2>1. v.mt = m  BY <1>6 DEF Pictures!switched
  <2>2. q.engine[m] = "starting" /\ \A k \in Pictures!Mounts : k # m => q.engine[k] = v.engine[k]
    BY <1>3, <1>6
  <2> QED  BY <1>1, <1>6, <2>1, <2>2 DEF NearlyDrawn, Drawn
<1> QED  BY <1>1, <1>2, <1>4, <1>5, <1>6

LEMMA VisualsStep ==
  ASSUME Pictures!VisualsIInv, [Pictures!VisualsNext]_<<st, acts>>
  PROVE  Pictures!VisualsIInv'
<1>1. st \in Pictures!VisualsRecords /\ acts \in 0..PictureActs /\ Drawn(st)  BY PicturesAreDrawn
<1>2. Pictures!Act => acts' \in 0..PictureActs  BY <1>1, Bounds DEF Pictures!Act
<1>3. ASSUME st' \in Pictures!VisualsRecords, acts' \in 0..PictureActs, Drawn(st')
      PROVE  Pictures!VisualsIInv'
  <2>1. (st \in Pictures!VisualsRecords /\ acts \in 0..PictureActs /\ Drawn(st) => Pictures!VisualsIInv)'
    BY DrawnIsEnough, PTL
  <2> QED  BY <1>3, <2>1 DEF Drawn
<1>4. /\ st.token \in Nat /\ st.mt \in {0, st.token}
      /\ st.peaks \in [Pictures!Mounts -> {"no", "asked", "late", "some", "none"}]
      /\ st.engine \in [Pictures!Mounts -> {"no", "starting", "chunked", "up"}]
      /\ st.footers \subseteq Pictures!Mounts /\ st.canplay \subseteq Pictures!Mounts
      /\ st.decoding \subseteq Pictures!Mounts
  BY <1>1, Bounds DEF Pictures!VisualsRecords, Pictures!Shown, Drawn
<1>5. \A m \in Pictures!Mounts : m \in Nat /\ m > 0 /\ m \in Pictures!Shown
  BY Bounds DEF Pictures!Mounts, Pictures!Shown
<1>6. CASE Pictures!wireUpAudio
  <2> DEFINE m == st.token + 1
  <2>1. m \in Pictures!Mounts  BY <1>4, <1>6, Bounds DEF Pictures!wireUpAudio, Pictures!Mounts
  <2>2. PICK path \in Pictures!Paths :
          st' = [Pictures!stopStemVuLoop(st) EXCEPT
                   !.token = m, !.mt = m, !.path[m] = path, !.overview = 0, !.footer = 0,
                   !.peaks[m] = "asked", !.canplay = @ \cup {m}]
    BY <1>6 DEF Pictures!wireUpAudio
  <2>3. \A k \in Pictures!Mounts : k <= st.token => k # m /\ k <= m  BY <1>4, <1>5
  <2>4. ~(m <= st.token)  BY <1>4
  <2> HIDE DEF m
  <2> DEFINE path2 == [st.path EXCEPT ![m] = path]
             peaks2 == [st.peaks EXCEPT ![m] = "asked"]
  <2>5. st' = [token |-> m, mt |-> m, overview |-> 0, source |-> st.source, footer |-> 0,
               energy |-> st.energy, meters |-> 0, path |-> path2, peaks |-> peaks2,
               canplay |-> st.canplay \cup {m}, decoding |-> st.decoding, footers |-> st.footers,
               engine |-> st.engine, frame |-> st.frame, stray |-> st.stray]
    BY <1>1, <2>2 DEF Pictures!stopStemVuLoop, Pictures!VisualsRecords
  <2>6. /\ path2 \in [Pictures!Mounts -> Pictures!Paths]
        /\ peaks2 \in [Pictures!Mounts -> {"no", "asked", "late", "some", "none"}]
        /\ peaks2[m] = "asked" /\ \A k \in Pictures!Mounts : k # m => peaks2[k] = st.peaks[k]
    BY <1>1, <2>1 DEF Pictures!VisualsRecords
  <2> HIDE DEF path2, peaks2
  <2>7. st' \in Pictures!VisualsRecords
    <3>1. 0 \in Pictures!Shown /\ m \in Pictures!Shown  BY <1>5, <2>1, Bounds DEF Pictures!Shown
    <3> QED  BY <1>1, <2>1, <2>5, <2>6, <3>1 DEF Pictures!VisualsRecords
  <2>8. /\ st'.token = m /\ st'.mt = m /\ st'.peaks = peaks2 /\ st'.engine = st.engine /\ st'.meters = 0
        /\ st'.footers = st.footers /\ st'.canplay = st.canplay \cup {m}
    BY <2>5
  <2>9. \A k \in Pictures!Mounts : k \in st'.canplay \/ st'.peaks[k] # "no" \/ st'.engine[k] # "no" => k <= st'.token
    BY <1>1, <1>5, <2>1, <2>3, <2>6, <2>8 DEF Drawn
  <2>10. \A k \in st'.footers : st'.peaks[k] = "none"
    BY <1>1, <1>4, <2>3, <2>6, <2>8 DEF Drawn
  <2>11. st.engine[m] = "no"  BY <1>1, <2>1, <2>4 DEF Drawn
  <2>12. Drawn(st')  BY <2>6, <2>8, <2>9, <2>10, <2>11 DEF Drawn
  <2> QED  BY <1>2, <1>3, <1>6, <2>7, <2>12 DEF Pictures!wireUpAudio
<1>7. CASE Pictures!destroyPlayer
  <2>1. PICK footers \in SUBSET st.footers :
          st' = [Pictures!stopStemVuLoop(st) EXCEPT
                   !.mt = 0, !.overview = 0, !.footer = 0, !.energy = 0,
                   !.engine = [m \in Pictures!Mounts |-> IF @[m] = "starting" THEN @[m] ELSE "no"],
                   !.footers = footers]
    BY <1>7 DEF Pictures!destroyPlayer
  <2> DEFINE engine2 == [m \in Pictures!Mounts |-> IF st.engine[m] = "starting" THEN st.engine[m] ELSE "no"]
  <2>2. st' = [token |-> st.token, mt |-> 0, overview |-> 0, source |-> st.source, footer |-> 0,
               energy |-> 0, meters |-> 0, path |-> st.path, peaks |-> st.peaks,
               canplay |-> st.canplay, decoding |-> st.decoding, footers |-> footers,
               engine |-> engine2, frame |-> st.frame, stray |-> st.stray]
    BY <1>1, <2>1 DEF Pictures!stopStemVuLoop, Pictures!VisualsRecords
  <2>3. /\ engine2 \in [Pictures!Mounts -> {"no", "starting", "chunked", "up"}]
        /\ \A k \in Pictures!Mounts : engine2[k] # "no" => st.engine[k] # "no"
    OBVIOUS
  <2> HIDE DEF engine2
  <2>4. st' \in Pictures!VisualsRecords
    <3>1. 0 \in Pictures!Shown  BY Bounds DEF Pictures!Shown
    <3>2. footers \in SUBSET Pictures!Mounts  BY <1>4, <2>1
    <3>3. /\ st.token \in Pictures!Shown /\ st.source \in Pictures!Shown
          /\ st.path \in [Pictures!Mounts -> Pictures!Paths]
          /\ st.canplay \in SUBSET Pictures!Mounts /\ st.decoding \in SUBSET Pictures!Mounts
          /\ st.frame \in BOOLEAN /\ st.stray \in BOOLEAN
      BY <1>1 DEF Pictures!VisualsRecords
    <3> QED  BY <1>4, <2>2, <2>3, <3>1, <3>2, <3>3 DEF Pictures!VisualsRecords
  <2>5. /\ st'.token = st.token /\ st'.mt = 0 /\ st'.peaks = st.peaks /\ st'.engine = engine2
        /\ st'.footers = footers /\ st'.canplay = st.canplay
    BY <2>2
  <2>6. Drawn(st')  BY <1>1, <2>1, <2>3, <2>5 DEF Drawn
  <2> QED  BY <1>2, <1>3, <1>7, <2>4, <2>6 DEF Pictures!destroyPlayer
<1>8. CASE Pictures!peaksAnswered
  <2>1. PICK m \in Pictures!Mounts, some \in BOOLEAN :
          /\ st.peaks[m] = "asked" /\ acts' = acts
          /\ st' = Pictures!enginePeaks(Pictures!peaksFor(st, m, some), m)
    BY <1>8 DEF Pictures!peaksAnswered
  <2>2. m <= st.token /\ m \notin st.footers  BY <1>1, <1>4, <2>1 DEF Drawn
  <2>3. st.token \in Pictures!Mounts
    BY <1>1, <1>5, <2>2, Bounds DEF Pictures!VisualsRecords, Pictures!Shown, Pictures!Mounts
  <2> DEFINE q == Pictures!peaksFor(st, m, some)
  <2>4. CASE m # st.token
    <3>1. q = [st EXCEPT !.peaks[m] = "late"]  BY <2>4 DEF Pictures!peaksFor
    <3>2. /\ q \in Pictures!VisualsRecords /\ q.peaks[m] = "late"
          /\ \A k \in Pictures!Mounts : k # m => q.peaks[k] = st.peaks[k]
          /\ q.token = st.token /\ q.mt = st.mt /\ q.engine = st.engine /\ q.footers = st.footers
          /\ q.stray = st.stray /\ q.canplay = st.canplay
          /\ q.overview = st.overview /\ q.source = st.source /\ q.footer = st.footer /\ q.meters = st.meters
          /\ q.energy = st.energy
      BY <1>1, <3>1 DEF Pictures!VisualsRecords
    <3>3. Pictures!enginePeaks(q, m) = q  BY <2>4, <3>2 DEF Pictures!enginePeaks, Pictures!switched
    <3> HIDE DEF q
    <3>4. \A k \in Pictures!Mounts : q.peaks[k] # "no" => st.peaks[k] # "no"  BY <2>1, <3>2
    <3>5. \A k \in q.footers : q.peaks[k] = "none"  BY <1>1, <1>4, <2>2, <3>2 DEF Drawn
    <3>6. ASSUME q.mt # 0, q.peaks[q.mt] = "some", ~q.stray
          PROVE  /\ q.source = q.mt /\ q.overview = q.mt
                 /\ (\A k \in 1..q.mt : q.peaks[k] # "none") => q.footer = q.mt
      <4>1. q.mt = st.token /\ q.mt \in Pictures!Mounts /\ q.mt # m  BY <1>4, <2>3, <2>4, <3>2, <3>6
      <4>2. st.peaks[st.mt] = "some"  BY <3>2, <3>6, <4>1
      <4>3. \A k \in 1..q.mt : q.peaks[k] # "none" => st.peaks[k] # "none"
        <5>1. \A k \in 1..q.mt : k \in Pictures!Mounts  BY <4>1, Bounds DEF Pictures!Mounts
        <5> QED  BY <2>1, <3>2, <5>1
      <4> QED  BY <1>1, <3>2, <3>6, <4>2, <4>3 DEF Drawn
    <3>7. q.mt # 0 => q.mt # m /\ q.mt \in Pictures!Mounts  BY <1>4, <2>3, <2>4, <3>2
    <3>8. Drawn(q)
      <4>1. q.mt # 0 =>
              /\ q.meters \in {0, q.mt}
              /\ q.engine[q.mt] \in {"chunked", "up"} => q.meters = q.mt
              /\ q.engine[q.mt] = "up" \/ (q.engine[q.mt] = "chunked" /\ q.peaks[q.mt] = "some")
                   => q.energy = q.mt
        BY <1>1, <3>2, <3>7 DEF Drawn
      <4>2. /\ q.mt \in {0, q.token}
            /\ \A k \in Pictures!Mounts :
                 k \in q.canplay \/ q.peaks[k] # "no" \/ q.engine[k] # "no" => k <= q.token
        BY <1>1, <3>2, <3>4 DEF Drawn
      <4> QED  BY <3>5, <3>6, <4>1, <4>2 DEF Drawn
    <3>9. st' = q  BY <2>1, <3>3 DEF q
    <3> QED  BY <1>1, <1>3, <2>1, <3>2, <3>8, <3>9
  <2>5. CASE m = st.token
    <3>1. q \in Pictures!VisualsRecords /\ NearlyDrawn(q) /\ q.token = st.token
      <4>1. CASE some
        <5> DEFINE a == [st EXCEPT !.peaks[m] = "some", !.footer = m]
        <5>1. q = Pictures!renderAllOverviewWaveforms(a, m)
          BY <2>5, <4>1 DEF Pictures!peaksFor, Pictures!peaksDrawn
        <5>2. /\ a \in Pictures!VisualsRecords /\ a.peaks[m] = "some" /\ a.footer = m
              /\ \A k \in Pictures!Mounts : k # m => a.peaks[k] = st.peaks[k]
              /\ a.token = st.token /\ a.mt = st.mt /\ a.engine = st.engine /\ a.footers = st.footers
              /\ a.stray = st.stray /\ a.canplay = st.canplay /\ a.meters = st.meters /\ a.energy = st.energy
          <6> DEFINE b == [st EXCEPT !.peaks[m] = "some"]
          <6>1. /\ b \in Pictures!VisualsRecords /\ b.peaks[m] = "some"
                /\ \A k \in Pictures!Mounts : k # m => b.peaks[k] = st.peaks[k]
                /\ b.token = st.token /\ b.mt = st.mt /\ b.engine = st.engine /\ b.footers = st.footers
                /\ b.stray = st.stray /\ b.canplay = st.canplay /\ b.meters = st.meters
                /\ b.energy = st.energy
            BY <1>1 DEF Pictures!VisualsRecords
          <6>2. a = [b EXCEPT !.footer = m]  OBVIOUS
          <6> HIDE DEF b
          <6>3. m \in Pictures!Shown  BY <1>5
          <6>4. /\ a \in Pictures!VisualsRecords /\ a.peaks = b.peaks /\ a.footer = m
                /\ a.token = b.token /\ a.mt = b.mt /\ a.engine = b.engine /\ a.footers = b.footers
                /\ a.stray = b.stray /\ a.canplay = b.canplay /\ a.meters = b.meters
                /\ a.energy = b.energy
            BY <6>1, <6>2, <6>3 DEF Pictures!VisualsRecords
          <6> HIDE DEF a
          <6> QED  BY <6>1, <6>4
        <5> HIDE DEF a, q
        <5>3. /\ q \in Pictures!VisualsRecords /\ Alike(q, a) /\ q.overview = m /\ q.source = m
              /\ q.footer = a.footer /\ q.meters = a.meters /\ q.energy = a.energy
          BY <5>1, <5>2, Painted
        <5>4. \A k \in Pictures!Mounts : q.peaks[k] # "no" => k = m \/ st.peaks[k] # "no"
          BY <5>2, <5>3 DEF Alike
        <5>5. \A k \in q.footers : q.peaks[k] = "none"  BY <1>1, <1>4, <2>2, <5>2, <5>3 DEF Drawn, Alike
        <5>6. /\ q.mt \in {0, q.token}
              /\ \A k \in Pictures!Mounts :
                   k \in q.canplay \/ q.peaks[k] # "no" \/ q.engine[k] # "no" => k <= q.token
          BY <1>1, <2>2, <5>2, <5>3, <5>4 DEF Drawn, Alike
        <5>7. q.mt # 0 => q.mt = m  BY <1>4, <2>5, <5>2, <5>3 DEF Alike
        <5>8. q.mt # 0 =>
                /\ q.meters \in {0, q.mt}
                /\ q.engine[q.mt] \in {"chunked", "up"} => q.meters = q.mt
                /\ q.engine[q.mt] = "up" => q.energy = q.mt
          BY <1>1, <5>2, <5>3 DEF Drawn, Alike
        <5> QED  BY <5>2, <5>3, <5>5, <5>6, <5>7, <5>8 DEF NearlyDrawn, Alike
      <4>2. CASE ~some
        <5>1. q = [st EXCEPT !.peaks[m] = "none", !.footers = @ \cup {m}]
          BY <2>5, <4>2 DEF Pictures!peaksFor, Pictures!peaksDrawn
        <5> DEFINE b == [st EXCEPT !.peaks[m] = "none"]
        <5>2. /\ b \in Pictures!VisualsRecords /\ b.peaks[m] = "none"
              /\ \A k \in Pictures!Mounts : k # m => b.peaks[k] = st.peaks[k]
              /\ b.token = st.token /\ b.mt = st.mt /\ b.engine = st.engine /\ b.footers = st.footers
              /\ b.stray = st.stray /\ b.canplay = st.canplay /\ b.meters = st.meters /\ b.energy = st.energy
          BY <1>1 DEF Pictures!VisualsRecords
        <5>3. q = [b EXCEPT !.footers = @ \cup {m}]  BY <5>1
        <5> HIDE DEF b, q
        <5>4. /\ q \in Pictures!VisualsRecords /\ q.footers = b.footers \cup {m} /\ q.peaks = b.peaks
              /\ q.token = b.token /\ q.mt = b.mt /\ q.engine = b.engine
              /\ q.stray = b.stray /\ q.canplay = b.canplay /\ q.meters = b.meters /\ q.energy = b.energy
          BY <5>2, <5>3 DEF Pictures!VisualsRecords
        <5>5. \A k \in Pictures!Mounts : q.peaks[k] # "no" => k = m \/ st.peaks[k] # "no"  BY <5>2, <5>4
        <5>6. \A k \in q.footers : q.peaks[k] = "none"  BY <1>1, <1>4, <5>2, <5>4 DEF Drawn
        <5>7. /\ q.mt \in {0, q.token}
              /\ \A k \in Pictures!Mounts :
                   k \in q.canplay \/ q.peaks[k] # "no" \/ q.engine[k] # "no" => k <= q.token
          BY <1>1, <2>2, <5>2, <5>4, <5>5 DEF Drawn
        <5>8. q.mt # 0 => q.mt = m  BY <1>4, <2>5, <5>2, <5>4
        <5>9. q.mt # 0 =>
                /\ q.meters \in {0, q.mt}
                /\ q.engine[q.mt] \in {"chunked", "up"} => q.meters = q.mt
                /\ q.engine[q.mt] = "up" => q.energy = q.mt
          BY <1>1, <5>2, <5>4 DEF Drawn
        <5> QED  BY <5>2, <5>4, <5>6, <5>7, <5>8, <5>9 DEF NearlyDrawn
      <4> QED  BY <4>1, <4>2
    <3> HIDE DEF q
    <3>2. Drawn(Pictures!enginePeaks(q, m)) /\ Pictures!enginePeaks(q, m) \in Pictures!VisualsRecords
      BY <2>3, <2>5, <3>1, EnergyDrawn
    <3>3. st' = Pictures!enginePeaks(q, m)  BY <2>1 DEF q
    <3> QED  BY <1>1, <1>3, <2>1, <3>2, <3>3
  <2> QED  BY <2>4, <2>5
<1>9. CASE Pictures!canplay
  <2>1. PICK m \in st.canplay :
          LET q == Pictures!applyWaveZoom([st EXCEPT !.canplay = @ \ {m}, !.stray = @ \/ m # st.mt])
              drawn == IF q.peaks[m] = "some" THEN Pictures!renderAllOverviewWaveforms(q, m) ELSE q
          IN /\ st' = (IF st.path[m] = "streaming" THEN [drawn EXCEPT !.decoding = @ \cup {m}]
                       ELSE [drawn EXCEPT !.engine = [k \in Pictures!Mounts |->
                               IF k = m THEN "starting" ELSE IF @[k] = "starting" THEN @[k] ELSE "no"]])
             /\ acts' = acts
    BY <1>9 DEF Pictures!canplay
  <2> DEFINE a == [st EXCEPT !.canplay = @ \ {m}, !.stray = @ \/ m # st.mt]
             q == Pictures!applyWaveZoom(a)
             drawn == IF q.peaks[m] = "some" THEN Pictures!renderAllOverviewWaveforms(q, m) ELSE q
             engine2 == [k \in Pictures!Mounts |->
                          IF k = m THEN "starting" ELSE IF drawn.engine[k] = "starting" THEN drawn.engine[k] ELSE "no"]
  <2>2. m \in Pictures!Mounts /\ m <= st.token  BY <1>1, <1>4 DEF Drawn
  <2>3. /\ a \in Pictures!VisualsRecords /\ a.canplay = st.canplay \ {m}
        /\ (a.stray <=> (st.stray \/ m # st.mt))
        /\ a.token = st.token /\ a.mt = st.mt /\ a.peaks = st.peaks /\ a.engine = st.engine
        /\ a.footers = st.footers /\ a.overview = st.overview /\ a.source = st.source /\ a.footer = st.footer
        /\ a.meters = st.meters /\ a.energy = st.energy
    <3>1. (st.stray \/ m # st.mt) \in BOOLEAN  OBVIOUS
    <3> DEFINE b == [st EXCEPT !.canplay = @ \ {m}]
    <3>2. /\ b \in Pictures!VisualsRecords /\ b.canplay = st.canplay \ {m} /\ b.stray = st.stray
          /\ b.token = st.token /\ b.mt = st.mt /\ b.peaks = st.peaks /\ b.engine = st.engine
          /\ b.footers = st.footers /\ b.overview = st.overview /\ b.source = st.source /\ b.footer = st.footer
          /\ b.meters = st.meters /\ b.energy = st.energy
      BY <1>1 DEF Pictures!VisualsRecords
    <3>3. a = [b EXCEPT !.stray = (st.stray \/ m # st.mt)]  BY <1>1 DEF Pictures!VisualsRecords
    <3> HIDE DEF a, b
    <3>4. a \in Pictures!VisualsRecords  BY <3>1, <3>2, <3>3 DEF Pictures!VisualsRecords
    <3>5. /\ a.canplay = b.canplay /\ a.token = b.token /\ a.mt = b.mt /\ a.peaks = b.peaks /\ a.engine = b.engine
          /\ a.footers = b.footers /\ a.overview = b.overview /\ a.source = b.source /\ a.footer = b.footer
          /\ a.meters = b.meters /\ a.energy = b.energy /\ a.stray = (st.stray \/ m # st.mt)
      BY <3>2, <3>3 DEF Pictures!VisualsRecords
    <3> QED  BY <3>2, <3>4, <3>5
  <2> HIDE DEF a
  <2>4. q \in Pictures!VisualsRecords /\ Alike(q, a) /\ q.overview = a.overview /\ q.source = a.source
        /\ q.footer = a.footer /\ q.meters = a.meters /\ q.energy = a.energy
    <3>1. CASE a.mt = 0  BY <2>3, <3>1 DEF Pictures!applyWaveZoom, Alike
    <3>2. CASE a.mt # 0
      BY <2>3, <3>2 DEF Pictures!applyWaveZoom, Alike, Pictures!VisualsRecords
    <3> QED  BY <3>1, <3>2
  <2> HIDE DEF q
  <2>5. /\ drawn \in Pictures!VisualsRecords /\ Alike(drawn, q)
        /\ drawn.footer = q.footer /\ drawn.meters = q.meters /\ drawn.energy = q.energy
        /\ \/ q.peaks[m] = "some" /\ drawn.overview = m /\ drawn.source = m
           \/ q.peaks[m] # "some" /\ drawn.overview = q.overview /\ drawn.source = q.source
    <3>1. CASE q.peaks[m] = "some"  BY <2>2, <2>4, <3>1, Painted
    <3>2. CASE q.peaks[m] # "some"  BY <2>4, <3>2 DEF Alike
    <3> QED  BY <3>1, <3>2
  <2> HIDE DEF drawn
  <2>6. /\ drawn.token = st.token /\ drawn.mt = st.mt /\ drawn.peaks = st.peaks /\ drawn.engine = st.engine
        /\ drawn.footers = st.footers /\ drawn.canplay = st.canplay \ {m}
        /\ (drawn.stray <=> (st.stray \/ m # st.mt))
        /\ drawn.footer = st.footer /\ drawn.meters = st.meters /\ drawn.energy = st.energy
        /\ \/ st.peaks[m] = "some" /\ drawn.overview = m /\ drawn.source = m
           \/ st.peaks[m] # "some" /\ drawn.overview = st.overview /\ drawn.source = st.source
    BY <2>3, <2>4, <2>5 DEF Alike
  <2>7. ASSUME NEW v, v.token = drawn.token, v.mt = drawn.mt, v.peaks = drawn.peaks, v.footers = drawn.footers,
               v.canplay = drawn.canplay, v.stray = drawn.stray, v.footer = drawn.footer, v.meters = drawn.meters,
               v.energy = drawn.energy, v.overview = drawn.overview, v.source = drawn.source,
               \A k \in Pictures!Mounts :
                 v.engine[k] \in {st.engine[k], "no"} \/ (k = m /\ v.engine[k] = "starting")
        PROVE  Drawn(v)
    <3>1. /\ v.mt \in {0, v.token}
          /\ \A k \in Pictures!Mounts :
               k \in v.canplay \/ v.peaks[k] # "no" \/ v.engine[k] # "no" => k <= v.token
      BY <1>1, <2>2, <2>6, <2>7 DEF Drawn
    <3>2. v.mt # 0 /\ v.peaks[v.mt] = "some" /\ ~v.stray =>
            /\ v.source = v.mt /\ v.overview = v.mt
            /\ (\A k \in 1..v.mt : v.peaks[k] # "none") => v.footer = v.mt
      BY <1>1, <2>6, <2>7 DEF Drawn
    <3>3. \A k \in v.footers : v.peaks[k] = "none"  BY <1>1, <2>6, <2>7 DEF Drawn
    <3>4. v.mt # 0 => v.mt \in Pictures!Mounts
      BY <1>1, <2>6, <2>7, Bounds DEF Pictures!VisualsRecords, Pictures!Shown, Pictures!Mounts
    <3>5. v.mt # 0 =>
            /\ v.meters \in {0, v.mt}
            /\ v.engine[v.mt] \in {"chunked", "up"} => v.meters = v.mt
            /\ v.engine[v.mt] = "up" \/ (v.engine[v.mt] = "chunked" /\ v.peaks[v.mt] = "some") => v.energy = v.mt
      BY <1>1, <2>6, <2>7, <3>4 DEF Drawn
    <3> QED  BY <3>1, <3>2, <3>3, <3>5 DEF Drawn
  <2>8. CASE st.path[m] = "streaming"
    <3>1. st' = [drawn EXCEPT !.decoding = @ \cup {m}]  BY <2>1, <2>8 DEF a, q, drawn
    <3>2. /\ st' \in Pictures!VisualsRecords /\ Alike(st', drawn)
          /\ st'.footer = drawn.footer /\ st'.meters = drawn.meters /\ st'.energy = drawn.energy
          /\ st'.overview = drawn.overview /\ st'.source = drawn.source
      BY <2>2, <2>5, <3>1 DEF Pictures!VisualsRecords, Alike
    <3>3. Drawn(st')  BY <2>6, <2>7, <3>2 DEF Alike
    <3> QED  BY <1>1, <1>3, <2>1, <3>2, <3>3
  <2>9. CASE st.path[m] # "streaming"
    <3>1. st' = [drawn EXCEPT !.engine = engine2]  BY <2>1, <2>9 DEF a, q, drawn
    <3>2. /\ engine2 \in [Pictures!Mounts -> {"no", "starting", "chunked", "up"}]
          /\ \A k \in Pictures!Mounts :
               engine2[k] \in {st.engine[k], "no"} \/ (k = m /\ engine2[k] = "starting")
      BY <2>6
    <3> HIDE DEF engine2
    <3>3. /\ st' \in Pictures!VisualsRecords /\ st'.engine = engine2
          /\ st'.token = drawn.token /\ st'.mt = drawn.mt /\ st'.peaks = drawn.peaks
          /\ st'.footers = drawn.footers /\ st'.canplay = drawn.canplay /\ st'.stray = drawn.stray
          /\ st'.footer = drawn.footer /\ st'.meters = drawn.meters /\ st'.energy = drawn.energy
          /\ st'.overview = drawn.overview /\ st'.source = drawn.source
      BY <2>5, <3>1, <3>2 DEF Pictures!VisualsRecords
    <3>4. Drawn(st')  BY <2>7, <3>2, <3>3
    <3> QED  BY <1>1, <1>3, <2>1, <3>3, <3>4
  <2> QED  BY <2>8, <2>9
<1>10. CASE Pictures!streamDecoded
  <2>1. PICK m \in st.decoding : st' = Pictures!decodedFor(st, m) /\ acts' = acts
    BY <1>10 DEF Pictures!streamDecoded
  <2> DEFINE a == [st EXCEPT !.decoding = @ \ {m}]
  <2>2. m \in Pictures!Mounts  BY <1>4
  <2>3. /\ a \in Pictures!VisualsRecords /\ Alike(a, st)
        /\ a.footer = st.footer /\ a.meters = st.meters /\ a.energy = st.energy
        /\ a.overview = st.overview /\ a.source = st.source
    BY <1>1 DEF Pictures!VisualsRecords, Alike
  <2>4. st' = IF m # st.token THEN a ELSE Pictures!fromDecoded(a, m)
    BY <2>1 DEF Pictures!decodedFor, Pictures!decodedDrawn
  <2> HIDE DEF a
  <2>5. CASE m # st.token
    <3>1. st' = a  BY <2>4, <2>5
    <3>2. Drawn(a)  BY <1>1, <2>3 DEF Drawn, Alike
    <3> QED  BY <1>1, <1>3, <2>1, <2>3, <3>1, <3>2
  <2>6. CASE m = st.token
    <3> DEFINE q == Pictures!fromDecoded(a, m)
    <3>1. st' = q  BY <2>4, <2>6
    <3>2. /\ q \in Pictures!VisualsRecords /\ Alike(q, a)
          /\ q.energy = m /\ q.meters = m /\ q.footer = a.footer
          /\ a.peaks[m] = "some" => q.overview = a.overview /\ q.source = a.source
      BY <2>2, <2>3, FromDecoded
    <3> HIDE DEF q
    <3>3. q.mt # 0 => q.mt = m  BY <1>4, <2>3, <2>6, <3>2 DEF Alike
    <3>4. Drawn(q)  BY <1>1, <2>3, <2>6, <3>2, <3>3 DEF Drawn, Alike
    <3> QED  BY <1>1, <1>3, <2>1, <3>1, <3>2, <3>4
  <2> QED  BY <2>5, <2>6
<1>11. CASE Pictures!engineReady
  <2>1. PICK m \in Pictures!Mounts :
          /\ st.engine[m] = "starting" /\ acts' = acts
          /\ \/ Pictures!switched(st, m) /\ st' = [st EXCEPT !.engine[m] = "no"]
             \/ ~Pictures!switched(st, m) /\ st.path[m] = "fulldecode" /\
                  st' = Pictures!fromDecoded([st EXCEPT !.engine[m] = "up"], m)
             \/ ~Pictures!switched(st, m) /\ st.path[m] # "fulldecode" /\
                  st' = Pictures!enginePeaks(Pictures!startVuLoop([st EXCEPT !.engine[m] = "chunked"], m), m)
    BY <1>11 DEF Pictures!engineReady
  <2>2. m <= st.token /\ m # 0  BY <1>1, <1>5, <2>1 DEF Drawn
  <2>3. ASSUME NEW e \in {"no", "up", "chunked"}
        PROVE  LET a == [st EXCEPT !.engine[m] = e] IN
               /\ a \in Pictures!VisualsRecords /\ a.engine[m] = e
               /\ \A k \in Pictures!Mounts : k # m => a.engine[k] = st.engine[k]
               /\ a.token = st.token /\ a.mt = st.mt /\ a.peaks = st.peaks /\ a.footers = st.footers
               /\ a.stray = st.stray /\ a.canplay = st.canplay
               /\ a.footer = st.footer /\ a.meters = st.meters /\ a.energy = st.energy
               /\ a.overview = st.overview /\ a.source = st.source
    BY <1>1 DEF Pictures!VisualsRecords
  <2>4. st.mt # 0 => st.mt \in Pictures!Mounts
    BY <1>1, Bounds DEF Pictures!VisualsRecords, Pictures!Shown, Pictures!Mounts
  <2>5. CASE Pictures!switched(st, m) /\ st' = [st EXCEPT !.engine[m] = "no"]
    <3> DEFINE a == [st EXCEPT !.engine[m] = "no"]
    <3>1. /\ a \in Pictures!VisualsRecords /\ a.engine[m] = "no"
          /\ \A k \in Pictures!Mounts : k # m => a.engine[k] = st.engine[k]
          /\ a.token = st.token /\ a.mt = st.mt /\ a.peaks = st.peaks /\ a.footers = st.footers
          /\ a.stray = st.stray /\ a.canplay = st.canplay
          /\ a.footer = st.footer /\ a.meters = st.meters /\ a.energy = st.energy
          /\ a.overview = st.overview /\ a.source = st.source
      BY <2>3
    <3> HIDE DEF a
    <3>2. a.mt # 0 =>
            /\ a.meters \in {0, a.mt}
            /\ a.engine[a.mt] \in {"chunked", "up"} => a.meters = a.mt
            /\ a.engine[a.mt] = "up" \/ (a.engine[a.mt] = "chunked" /\ a.peaks[a.mt] = "some") => a.energy = a.mt
      BY <1>1, <2>4, <3>1 DEF Drawn
    <3>3. \A k \in Pictures!Mounts : k \in a.canplay \/ a.peaks[k] # "no" \/ a.engine[k] # "no" => k <= a.token
      BY <1>1, <3>1 DEF Drawn
    <3>4. Drawn(a)  BY <1>1, <3>1, <3>2, <3>3 DEF Drawn
    <3>5. st' = a  BY <2>5 DEF a
    <3> QED  BY <1>1, <1>3, <2>1, <3>1, <3>4, <3>5
  <2>6. CASE ~Pictures!switched(st, m) /\ st' = Pictures!fromDecoded([st EXCEPT !.engine[m] = "up"], m)
    <3> DEFINE a == [st EXCEPT !.engine[m] = "up"]
               q == Pictures!fromDecoded(a, m)
    <3>1. /\ a \in Pictures!VisualsRecords /\ a.engine[m] = "up"
          /\ \A k \in Pictures!Mounts : k # m => a.engine[k] = st.engine[k]
          /\ a.token = st.token /\ a.mt = st.mt /\ a.peaks = st.peaks /\ a.footers = st.footers
          /\ a.stray = st.stray /\ a.canplay = st.canplay
          /\ a.footer = st.footer /\ a.overview = st.overview /\ a.source = st.source
      BY <2>3
    <3>2. st' = q  BY <2>6
    <3> HIDE DEF a
    <3>3. /\ q \in Pictures!VisualsRecords /\ Alike(q, a)
          /\ q.energy = m /\ q.meters = m /\ q.footer = a.footer
          /\ a.peaks[m] = "some" => q.overview = a.overview /\ q.source = a.source
      BY <3>1, FromDecoded
    <3> HIDE DEF q
    <3>4. st.mt = m /\ st.token = m  BY <2>6 DEF Pictures!switched
    <3>5. \A k \in Pictures!Mounts : k \in q.canplay \/ q.peaks[k] # "no" \/ q.engine[k] # "no" => k <= q.token
      BY <1>1, <2>2, <3>1, <3>3 DEF Drawn, Alike
    <3>6. Drawn(q)  BY <1>1, <3>1, <3>3, <3>4, <3>5 DEF Drawn, Alike
    <3> QED  BY <1>1, <1>3, <2>1, <3>2, <3>3, <3>6
  <2>7. CASE /\ ~Pictures!switched(st, m)
             /\ st' = Pictures!enginePeaks(Pictures!startVuLoop([st EXCEPT !.engine[m] = "chunked"], m), m)
    <3> DEFINE a == [st EXCEPT !.engine[m] = "chunked"]
               q == Pictures!startVuLoop(a, m)
    <3>1. /\ a \in Pictures!VisualsRecords /\ a.engine[m] = "chunked"
          /\ \A k \in Pictures!Mounts : k # m => a.engine[k] = st.engine[k]
          /\ a.token = st.token /\ a.mt = st.mt /\ a.peaks = st.peaks /\ a.footers = st.footers
          /\ a.stray = st.stray /\ a.canplay = st.canplay
          /\ a.footer = st.footer /\ a.overview = st.overview /\ a.source = st.source
      BY <2>3
    <3>2. st' = Pictures!enginePeaks(q, m)  BY <2>7
    <3> HIDE DEF a
    <3>3. /\ q \in Pictures!VisualsRecords /\ Alike(q, a) /\ q.meters = m
          /\ q.overview = a.overview /\ q.source = a.source /\ q.footer = a.footer
      BY <1>5, <3>1, Metered
    <3> HIDE DEF q
    <3>4. st.mt = m /\ st.token = m  BY <2>7 DEF Pictures!switched
    <3>5. \A k \in Pictures!Mounts : k \in q.canplay \/ q.peaks[k] # "no" \/ q.engine[k] # "no" => k <= q.token
      BY <1>1, <2>2, <3>1, <3>3 DEF Drawn, Alike
    <3>6. NearlyDrawn(q) /\ q.token = m  BY <1>1, <3>1, <3>3, <3>4, <3>5 DEF Drawn, NearlyDrawn, Alike
    <3>7. Drawn(st') /\ st' \in Pictures!VisualsRecords  BY <3>2, <3>3, <3>6, EnergyDrawn
    <3> QED  BY <1>1, <1>3, <2>1, <3>7
  <2> QED  BY <2>1, <2>5, <2>6, <2>7
<1>12. CASE Pictures!initFooterWaveform
  <2>1. PICK m \in st.footers : st' = [st EXCEPT !.footers = @ \ {m}, !.footer = m] /\ acts' = acts
    BY <1>12 DEF Pictures!initFooterWaveform
  <2>2. m \in Pictures!Mounts /\ m \in Pictures!Shown /\ st.peaks[m] = "none" /\ m <= st.token
    BY <1>1, <1>4, <1>5 DEF Drawn
  <2> DEFINE a == [st EXCEPT !.footers = @ \ {m}]
  <2>3. /\ a \in Pictures!VisualsRecords /\ a.footers = st.footers \ {m}
        /\ a.token = st.token /\ a.mt = st.mt /\ a.peaks = st.peaks /\ a.engine = st.engine
        /\ a.stray = st.stray /\ a.canplay = st.canplay /\ a.meters = st.meters /\ a.energy = st.energy
        /\ a.overview = st.overview /\ a.source = st.source
    BY <1>1 DEF Pictures!VisualsRecords
  <2>4. st' = [a EXCEPT !.footer = m]  BY <2>1
  <2> HIDE DEF a
  <2>5. /\ st' \in Pictures!VisualsRecords /\ st'.footers = a.footers
        /\ st'.token = a.token /\ st'.mt = a.mt /\ st'.peaks = a.peaks /\ st'.engine = a.engine
        /\ st'.stray = a.stray /\ st'.canplay = a.canplay /\ st'.meters = a.meters /\ st'.energy = a.energy
        /\ st'.overview = a.overview /\ st'.source = a.source
    BY <2>2, <2>3, <2>4 DEF Pictures!VisualsRecords
  <2>6. st.mt # 0 => ~\A k \in 1..st.mt : st.peaks[k] # "none"
    <3>1. st.mt # 0 => m \in 1..st.mt  BY <1>4, <1>5, <2>2
    <3> QED  BY <2>2, <3>1
  <2>7. Drawn(st')  BY <1>1, <2>3, <2>5, <2>6 DEF Drawn
  <2> QED  BY <1>1, <1>3, <2>1, <2>5, <2>7
<1>13. CASE Pictures!setWaveZoomLevel
  <2>1. st' = [st EXCEPT !.frame = TRUE]
    BY <1>13 DEF Pictures!setWaveZoomLevel, Pictures!applyWaveZoom
  <2>2. /\ st' \in Pictures!VisualsRecords /\ Alike(st', st)
        /\ st'.footer = st.footer /\ st'.meters = st.meters /\ st'.energy = st.energy
        /\ st'.overview = st.overview /\ st'.source = st.source
    BY <1>1, <2>1 DEF Pictures!VisualsRecords, Alike
  <2>3. Drawn(st')  BY <1>1, <2>2 DEF Drawn, Alike
  <2> QED  BY <1>2, <1>3, <1>13, <2>2, <2>3 DEF Pictures!setWaveZoomLevel
<1>14. CASE Pictures!zoomFrame
  <2> DEFINE a == [st EXCEPT !.frame = FALSE]
  <2>1. st' = IF a.mt = 0 \/ a.source = 0 THEN a ELSE [a EXCEPT !.overview = a.source]
    BY <1>14 DEF Pictures!zoomFrame, Pictures!rerenderOverviewWaveforms
  <2>2. /\ a \in Pictures!VisualsRecords /\ Alike(a, st)
        /\ a.footer = st.footer /\ a.meters = st.meters /\ a.energy = st.energy
        /\ a.overview = st.overview /\ a.source = st.source
    BY <1>1 DEF Pictures!VisualsRecords, Alike
  <2> HIDE DEF a
  <2>3. CASE a.mt = 0 \/ a.source = 0
    <3>1. Drawn(a)  BY <1>1, <2>2 DEF Drawn, Alike
    <3> QED  BY <1>1, <1>3, <1>14, <2>1, <2>2, <2>3, <3>1 DEF Pictures!zoomFrame
  <2>4. CASE a.mt # 0 /\ a.source # 0
    <3>1. st' = [a EXCEPT !.overview = a.source]  BY <2>1, <2>4
    <3>2. /\ st' \in Pictures!VisualsRecords /\ Alike(st', a)
          /\ st'.footer = a.footer /\ st'.meters = a.meters /\ st'.energy = a.energy
          /\ st'.overview = a.source /\ st'.source = a.source
      BY <2>2, <3>1 DEF Pictures!VisualsRecords, Alike
    <3>3. Drawn(st')  BY <1>1, <2>2, <3>2 DEF Drawn, Alike
    <3> QED  BY <1>1, <1>3, <1>14, <3>2, <3>3 DEF Pictures!zoomFrame
  <2> QED  BY <2>3, <2>4
<1>15. CASE Pictures!meterFrame
  <2>1. st' = [st EXCEPT !.meters = 0] /\ acts' = acts /\ st.meters # 0 /\ Pictures!switched(st, st.meters)
    BY <1>15 DEF Pictures!meterFrame, Pictures!stopStemVuLoop
  <2>2. st.mt = 0  BY <1>1, <2>1 DEF Drawn, Pictures!switched
  <2>3. 0 \in Pictures!Shown  BY Bounds DEF Pictures!Shown
  <2>4. st' \in Pictures!VisualsRecords /\ Alike(st', st)  BY <1>1, <2>1, <2>3 DEF Pictures!VisualsRecords, Alike
  <2>5. Drawn(st')  BY <1>1, <2>2, <2>4 DEF Drawn, Alike
  <2> QED  BY <1>1, <1>3, <2>1, <2>4, <2>5
<1>16. CASE UNCHANGED <<st, acts>>  BY <1>1, <1>3, <1>16 DEF Drawn
<1> QED
  BY <1>6, <1>7, <1>8, <1>9, <1>10, <1>11, <1>12, <1>13, <1>14, <1>15, <1>16 DEF Pictures!VisualsNext

-----------------------------------------------------------------------------
(* The invariant of the player as a condition on its record: Sorted is what *)
(* holds of it with or without an engine, Bare what it comes to when the    *)
(* current engine was dropped, Tuned all but the click, Wired the whole.    *)
Sorted(p) ==
  /\ p \in Player!PlayerRecords /\ p.multitrack \in {0, p.token}
  /\ \A id \in p.onBeats : p.beats[id.m] = "asked"
  /\ \A id \in p.onPeaks : p.peaks[id.m] = "asked" /\ id.kind = "chunked"
  /\ \A id \in p.alive \cup p.starting \cup p.onPeaks : id.m <= p.token /\ id.m \notin p.canplay
  /\ \A m \in p.canplay : m <= p.token
  /\ \A i, j \in p.starting : i.m = j.m => i = j
  /\ p.onPeaks \cap p.starting = {}

Bare(p) ==
  /\ Sorted(p) /\ p.metronome = Player!None /\ p.editor = 0
  /\ \A id \in p.alive : id \in p.starting /\ Player!switched(p, id)

Tuned(p) ==
  /\ Sorted(p)
  /\ p.engine \in p.alive \cup {Player!None}
  /\ p.engine # Player!None /\ p.engine \notin p.starting => \A id \in p.starting : Player!switched(p, id)
  /\ \A id \in p.alive \ {p.engine} : id \in p.starting /\ Player!switched(p, id)
  /\ p.metronome # Player!None => p.metronome = p.engine
  /\ p.editor = p.metronome.m

Clicks(p) ==
  p.engine # Player!None /\ p.engine \notin p.starting /\ ~Player!switched(p, p.engine) /\ ~p.undone =>
    /\ p.beats[p.engine.m] = "some" => p.metronome = p.engine
    /\ p.beats[p.engine.m] = "asked" => p.engine \in p.onBeats

Wired(p) == Tuned(p) /\ Clicks(p)

LEMMA WiredIsEnough ==
  ASSUME Wired(st), acts \in 0..MaxMounts + 1 + st.token
  PROVE  Player!PlayerIInv
<1>1. Player!PlayerTypeOK  BY DEF Wired, Tuned, Sorted, Player!PlayerTypeOK
<1>2. /\ Player!EnginesOfMounted /\ Player!CanplaysOfMounted /\ Player!OneComesUp /\ Player!UpOrWaiting
  BY DEF Wired, Tuned, Sorted, Player!EnginesOfMounted, Player!CanplaysOfMounted, Player!OneComesUp, Player!UpOrWaiting
<1>3. Player!EngineAlive /\ Player!PlaysAlone /\ Player!OthersAreLate /\ Player!OneEngineAlive
  BY DEF Wired, Tuned, Player!EngineAlive, Player!PlaysAlone, Player!OthersAreLate, Player!OneEngineAlive
<1>4. Player!ClickHasItsEngine  BY DEF Wired, Tuned, Player!ClickHasItsEngine
<1>5. Player!ClickAwaited /\ Player!ClickIsThere  BY DEF Wired, Clicks, Player!ClickAwaited, Player!ClickIsThere
<1> QED  BY <1>1, <1>2, <1>3, <1>4, <1>5 DEF Player!PlayerIInv

LEMMA PlayerIsWired ==
  ASSUME Player!PlayerIInv
  PROVE  Wired(st) /\ acts \in 0..MaxMounts + 1 + st.token
<1>1. Sorted(st) /\ acts \in 0..MaxMounts + 1 + st.token
  BY DEF Sorted, Player!PlayerIInv, Player!PlayerTypeOK, Player!EnginesOfMounted, Player!CanplaysOfMounted,
         Player!OneComesUp, Player!UpOrWaiting
<1>2. /\ st.engine \in st.alive \cup {Player!None}
      /\ st.engine # Player!None /\ st.engine \notin st.starting =>
           \A id \in st.starting : Player!switched(st, id)
      /\ \A id \in st.alive \ {st.engine} : id \in st.starting /\ Player!switched(st, id)
  BY DEF Player!PlayerIInv, Player!EngineAlive, Player!PlaysAlone, Player!OthersAreLate, Player!OneEngineAlive
<1>3. (st.metronome # Player!None => st.metronome = st.engine) /\ st.editor = st.metronome.m
  BY DEF Player!PlayerIInv, Player!ClickHasItsEngine
<1>4. st.engine # Player!None /\ st.engine \notin st.starting /\ ~Player!switched(st, st.engine) /\ ~st.undone =>
        /\ st.beats[st.engine.m] = "some" => st.metronome = st.engine
        /\ st.beats[st.engine.m] = "asked" => st.engine \in st.onBeats
  BY DEF Player!PlayerIInv, Player!ClickAwaited, Player!ClickIsThere
<1> QED  BY <1>1, <1>2, <1>3, <1>4 DEF Wired, Tuned, Clicks

(* The fields an operator on engines leaves alone.                          *)
SameTrack(q, p) ==
  /\ q.token = p.token /\ q.multitrack = p.multitrack /\ q.mode = p.mode /\ q.canplay = p.canplay
  /\ q.beats = p.beats /\ q.peaks = p.peaks

LEMMA Names ==
  /\ Player!None.m = 0 /\ Player!None.kind = "none" /\ Player!None \notin Player!EngineIds
  /\ \A id \in Player!EngineIds : id.m \in Player!Mounts /\ id.m \in Nat /\ id.m > 0 /\ id.m <= MaxMounts
BY Bounds DEF Player!None, Player!EngineIds, Player!Mounts

LEMMA TornDown ==
  ASSUME NEW p \in Player!PlayerRecords
  PROVE  LET q == Player!teardownMetronome(p) IN
           /\ q \in Player!PlayerRecords /\ SameTrack(q, p)
           /\ q.engine = p.engine /\ q.starting = p.starting /\ q.alive = p.alive /\ q.undone = p.undone
           /\ q.onBeats = p.onBeats /\ q.onPeaks = p.onPeaks
           /\ q.metronome = Player!None /\ q.editor = 0
<1> DEFINE a == [p EXCEPT !.metronome = Player!None]
           q == [a EXCEPT !.editor = 0]
<1>1. /\ a \in Player!PlayerRecords /\ SameTrack(a, p)
      /\ a.engine = p.engine /\ a.starting = p.starting /\ a.alive = p.alive /\ a.undone = p.undone
      /\ a.onBeats = p.onBeats /\ a.onPeaks = p.onPeaks /\ a.metronome = Player!None
  BY DEF Player!PlayerRecords, SameTrack
<1>2. Player!teardownMetronome(p) = q  BY DEF Player!teardownMetronome
<1> HIDE DEF a
<1>3. 0 \in 0..MaxMounts  BY Bounds
<1>4. /\ q \in Player!PlayerRecords /\ SameTrack(q, a)
      /\ q.engine = a.engine /\ q.starting = a.starting /\ q.alive = a.alive /\ q.undone = a.undone
      /\ q.onBeats = a.onBeats /\ q.onPeaks = a.onPeaks /\ q.metronome = a.metronome /\ q.editor = 0
  BY <1>1, <1>3 DEF Player!PlayerRecords, SameTrack
<1> HIDE DEF q
<1> QED  BY <1>1, <1>2, <1>4 DEF SameTrack

LEMMA Dropped ==
  ASSUME NEW p \in Player!PlayerRecords, NEW id
  PROVE  LET q == Player!dropEngine(p, id) IN
           /\ q \in Player!PlayerRecords /\ SameTrack(q, p)
           /\ q.engine = (IF p.engine = id THEN Player!None ELSE p.engine)
           /\ q.alive = p.alive \ {id}
           /\ q.starting = p.starting /\ q.undone = p.undone /\ q.onBeats = p.onBeats /\ q.onPeaks = p.onPeaks
           /\ q.metronome = p.metronome /\ q.editor = p.editor
<1> DEFINE e == IF p.engine = id THEN Player!None ELSE p.engine
           a == [p EXCEPT !.alive = @ \ {id}]
           q == [a EXCEPT !.engine = e]
<1>1. /\ a \in Player!PlayerRecords /\ SameTrack(a, p) /\ a.alive = p.alive \ {id}
      /\ a.engine = p.engine /\ a.starting = p.starting /\ a.undone = p.undone
      /\ a.onBeats = p.onBeats /\ a.onPeaks = p.onPeaks /\ a.metronome = p.metronome /\ a.editor = p.editor
  BY DEF Player!PlayerRecords, SameTrack
<1>2. e \in Player!EngineIds \cup {Player!None}  BY DEF Player!PlayerRecords
<1>3. Player!dropEngine(p, id) = q  BY DEF Player!dropEngine, Player!PlayerRecords
<1> HIDE DEF a, e
<1>4. /\ q \in Player!PlayerRecords /\ SameTrack(q, a) /\ q.alive = a.alive /\ q.engine = e
      /\ q.starting = a.starting /\ q.undone = a.undone
      /\ q.onBeats = a.onBeats /\ q.onPeaks = a.onPeaks /\ q.metronome = a.metronome /\ q.editor = a.editor
  BY <1>1, <1>2 DEF Player!PlayerRecords, SameTrack
<1> HIDE DEF q
<1> QED  BY <1>1, <1>3, <1>4 DEF SameTrack, e

LEMMA Started ==
  ASSUME NEW p \in Player!PlayerRecords, NEW id \in Player!EngineIds
  PROVE  LET q == Player!startEngine(p, id) IN
           /\ q \in Player!PlayerRecords /\ SameTrack(q, p)
           /\ q.engine = id /\ q.alive = p.alive \cup {id} /\ q.starting = p.starting \cup {id}
           /\ q.onBeats = p.onBeats /\ q.onPeaks = p.onPeaks
           /\ q.metronome = p.metronome /\ q.editor = p.editor
<1> DEFINE a == [p EXCEPT !.engine = id]
           b == [a EXCEPT !.alive = @ \cup {id}]
           c == [b EXCEPT !.starting = @ \cup {id}]
           q == [c EXCEPT !.undone = FALSE]
<1>1. /\ a \in Player!PlayerRecords /\ SameTrack(a, p) /\ a.engine = id
      /\ a.alive = p.alive /\ a.starting = p.starting
      /\ a.onBeats = p.onBeats /\ a.onPeaks = p.onPeaks /\ a.metronome = p.metronome /\ a.editor = p.editor
  BY DEF Player!PlayerRecords, SameTrack
<1>2. Player!startEngine(p, id) = q  BY DEF Player!startEngine
<1> HIDE DEF a
<1>3. /\ b \in Player!PlayerRecords /\ SameTrack(b, a) /\ b.engine = a.engine
      /\ b.alive = a.alive \cup {id} /\ b.starting = a.starting
      /\ b.onBeats = a.onBeats /\ b.onPeaks = a.onPeaks /\ b.metronome = a.metronome /\ b.editor = a.editor
  BY <1>1 DEF Player!PlayerRecords, SameTrack
<1> HIDE DEF b
<1>4. /\ c \in Player!PlayerRecords /\ SameTrack(c, b) /\ c.engine = b.engine
      /\ c.alive = b.alive /\ c.starting = b.starting \cup {id}
      /\ c.onBeats = b.onBeats /\ c.onPeaks = b.onPeaks /\ c.metronome = b.metronome /\ c.editor = b.editor
  BY <1>3 DEF Player!PlayerRecords, SameTrack
<1> HIDE DEF c
<1>5. /\ q \in Player!PlayerRecords /\ SameTrack(q, c) /\ q.engine = c.engine
      /\ q.alive = c.alive /\ q.starting = c.starting
      /\ q.onBeats = c.onBeats /\ q.onPeaks = c.onPeaks /\ q.metronome = c.metronome /\ q.editor = c.editor
  BY <1>4 DEF Player!PlayerRecords, SameTrack
<1> HIDE DEF q
<1> QED  BY <1>1, <1>2, <1>3, <1>4, <1>5 DEF SameTrack

LEMMA StillSorted ==
  ASSUME NEW p, NEW q \in Player!PlayerRecords, Sorted(p), SameTrack(q, p),
         q.onBeats \subseteq p.onBeats, q.onPeaks \subseteq p.onPeaks,
         q.alive \subseteq p.alive, q.starting \subseteq p.starting
  PROVE  Sorted(q)
<1>1. q.multitrack \in {0, q.token}  BY DEF Sorted, SameTrack
<1>2. \A id \in q.onBeats : q.beats[id.m] = "asked"  BY DEF Sorted, SameTrack
<1>3. \A id \in q.onPeaks : q.peaks[id.m] = "asked" /\ id.kind = "chunked"  BY DEF Sorted, SameTrack
<1>4. \A id \in q.alive \cup q.starting \cup q.onPeaks : id.m <= q.token /\ id.m \notin q.canplay
  BY DEF Sorted, SameTrack
<1>5. (\A m \in q.canplay : m <= q.token) /\ (\A i, j \in q.starting : i.m = j.m => i = j)
  BY DEF Sorted, SameTrack
<1>6. q.onPeaks \cap q.starting = {}  BY DEF Sorted
<1> QED  BY <1>1, <1>2, <1>3, <1>4, <1>5, <1>6 DEF Sorted

LEMMA StartedIsWired ==
  ASSUME NEW p, Bare(p), NEW id \in Player!EngineIds, id.m <= p.token, id.m \notin p.canplay,
         \A j \in p.starting : j.m # id.m, id \notin p.onPeaks
  PROVE  Wired(Player!startEngine(p, id)) /\ Player!startEngine(p, id).token = p.token
<1> DEFINE q == Player!startEngine(p, id)
<1>1. Sorted(p) /\ p \in Player!PlayerRecords  BY DEF Bare, Sorted
<1>2. /\ q \in Player!PlayerRecords /\ SameTrack(q, p)
      /\ q.engine = id /\ q.alive = p.alive \cup {id} /\ q.starting = p.starting \cup {id}
      /\ q.onBeats = p.onBeats /\ q.onPeaks = p.onPeaks
      /\ q.metronome = p.metronome /\ q.editor = p.editor
  BY <1>1, Started
<1> SUFFICES Wired(q)  BY <1>2 DEF SameTrack
<1> HIDE DEF q
<1>3. Sorted(q)
  <2>1. q.multitrack \in {0, q.token} /\ (\A j \in q.onBeats : q.beats[j.m] = "asked")
    BY <1>1, <1>2 DEF Sorted, SameTrack
  <2>2. \A j \in q.onPeaks : q.peaks[j.m] = "asked" /\ j.kind = "chunked"  BY <1>1, <1>2 DEF Sorted, SameTrack
  <2>3. \A j \in q.alive \cup q.starting \cup q.onPeaks : j.m <= q.token /\ j.m \notin q.canplay
    BY <1>1, <1>2 DEF Sorted, SameTrack
  <2>4. \A m \in q.canplay : m <= q.token  BY <1>1, <1>2 DEF Sorted, SameTrack
  <2>5. \A i, j \in q.starting : i.m = j.m => i = j  BY <1>1, <1>2 DEF Sorted
  <2>6. q.onPeaks \cap q.starting = {}  BY <1>1, <1>2 DEF Sorted
  <2> QED  BY <1>2, <2>1, <2>2, <2>3, <2>4, <2>5, <2>6 DEF Sorted
<1>4. \A j \in q.alive \ {q.engine} : j \in q.starting /\ Player!switched(q, j)
  BY <1>2 DEF Bare, SameTrack, Player!switched
<1>5. q.metronome = Player!None /\ q.editor = q.metronome.m  BY <1>2, Names DEF Bare
<1> QED  BY <1>2, <1>3, <1>4, <1>5 DEF Wired, Tuned, Clicks

LEMMA DecodedWhole ==
  ASSUME NEW p, Sorted(p), NEW id \in Player!EngineIds, id.m <= p.token, id.m \notin p.canplay,
         \A j \in p.starting : j.m # id.m,
         \A j \in p.alive \ {id} : j \in p.starting /\ Player!switched(p, j)
  PROVE  Wired(Player!fullDecode(p, id)) /\ Player!fullDecode(p, id).token = p.token
<1> DEFINE t == Player!teardownMetronome(p)
           d == Player!dropEngine(t, id)
           whole == [id EXCEPT !.kind = "fulldecode"]
<1>1. p \in Player!PlayerRecords  BY DEF Sorted
<1>2. /\ t \in Player!PlayerRecords /\ SameTrack(t, p) /\ t.starting = p.starting /\ t.alive = p.alive
      /\ t.onBeats = p.onBeats /\ t.onPeaks = p.onPeaks /\ t.metronome = Player!None /\ t.editor = 0
  BY <1>1, TornDown
<1> HIDE DEF t
<1>3. /\ d \in Player!PlayerRecords /\ SameTrack(d, t) /\ d.starting = t.starting /\ d.alive = t.alive \ {id}
      /\ d.onBeats = t.onBeats /\ d.onPeaks = t.onPeaks /\ d.metronome = t.metronome /\ d.editor = t.editor
  BY <1>2, Dropped
<1>4. Player!fullDecode(p, id) = Player!startEngine(d, whole)  BY DEF Player!fullDecode, t
<1>5. whole \in Player!EngineIds /\ whole.m = id.m /\ whole.kind = "fulldecode"
  BY DEF Player!EngineIds
<1> HIDE DEF d, whole
<1>6. SameTrack(d, p)  BY <1>2, <1>3 DEF SameTrack
<1>7. Sorted(d)  BY <1>2, <1>3, <1>6, StillSorted
<1>8. Bare(d)  BY <1>2, <1>3, <1>6, <1>7 DEF Bare, SameTrack, Player!switched
<1>9. whole.m <= d.token /\ whole.m \notin d.canplay /\ \A j \in d.starting : j.m # whole.m
  BY <1>2, <1>3, <1>5, <1>6 DEF SameTrack
<1>10. whole \notin d.onPeaks  BY <1>5, <1>7 DEF Sorted
<1>11. d.token = p.token  BY <1>6 DEF SameTrack
<1> QED  BY <1>4, <1>5, <1>8, <1>9, <1>10, <1>11, StartedIsWired

LEMMA BeatsForIsWired ==
  ASSUME NEW p, Tuned(p), NEW id \in Player!EngineIds, p.beats[id.m] # "asked", p.engine # id => Clicks(p)
  PROVE  LET q == Player!beatsFor(p, id) IN
           /\ Wired(q) /\ SameTrack(q, p) /\ q.starting = p.starting /\ q.onPeaks = p.onPeaks
<1> DEFINE q == Player!beatsFor(p, id)
           t == Player!teardownMetronome(p)
<1>1. Sorted(p) /\ p \in Player!PlayerRecords  BY DEF Tuned, Sorted
<1>2. CASE Player!switched(p, id) \/ p.engine # id
  <2>1. q = p  BY <1>2 DEF Player!beatsFor
  <2>2. Clicks(p)  BY <1>2 DEF Clicks
  <2> QED  BY <2>1, <2>2 DEF Wired, SameTrack
<1>3. CASE ~Player!switched(p, id) /\ p.engine = id
  <2>1. q = IF p.beats[id.m] = "some" THEN [t EXCEPT !.metronome = id, !.editor = id.m] ELSE t
    BY <1>3 DEF Player!beatsFor, Player!clickOn
  <2>2. /\ t \in Player!PlayerRecords /\ SameTrack(t, p)
        /\ t.engine = p.engine /\ t.starting = p.starting /\ t.alive = p.alive /\ t.undone = p.undone
        /\ t.onBeats = p.onBeats /\ t.onPeaks = p.onPeaks /\ t.metronome = Player!None /\ t.editor = 0
    BY <1>1, TornDown
  <2> HIDE DEF t
  <2>3. /\ q \in Player!PlayerRecords /\ SameTrack(q, p)
        /\ q.engine = p.engine /\ q.starting = p.starting /\ q.alive = p.alive /\ q.undone = p.undone
        /\ q.onBeats = p.onBeats /\ q.onPeaks = p.onPeaks
        /\ \/ q.metronome = id /\ q.editor = id.m /\ p.beats[id.m] = "some"
           \/ q.metronome = Player!None /\ q.editor = 0 /\ p.beats[id.m] # "some"
    <3>1. CASE p.beats[id.m] = "some"
      <4> DEFINE a == [t EXCEPT !.metronome = id]
                 b == [a EXCEPT !.editor = id.m]
      <4>1. q = b  BY <2>1, <3>1
      <4>2. /\ a \in Player!PlayerRecords /\ SameTrack(a, t)
            /\ a.engine = t.engine /\ a.starting = t.starting /\ a.alive = t.alive /\ a.undone = t.undone
            /\ a.onBeats = t.onBeats /\ a.onPeaks = t.onPeaks /\ a.metronome = id
        BY <2>2 DEF Player!PlayerRecords, SameTrack
      <4> HIDE DEF a, q
      <4>3. id.m \in 0..MaxMounts  BY Names, Bounds
      <4>4. /\ b \in Player!PlayerRecords /\ SameTrack(b, a)
            /\ b.engine = a.engine /\ b.starting = a.starting /\ b.alive = a.alive /\ b.undone = a.undone
            /\ b.onBeats = a.onBeats /\ b.onPeaks = a.onPeaks /\ b.metronome = a.metronome /\ b.editor = id.m
        BY <4>2, <4>3 DEF Player!PlayerRecords, SameTrack
      <4> HIDE DEF b
      <4>5. SameTrack(q, p)  BY <2>2, <4>1, <4>2, <4>4 DEF SameTrack
      <4>6. /\ q \in Player!PlayerRecords /\ q.metronome = id /\ q.editor = id.m
            /\ q.engine = p.engine /\ q.starting = p.starting /\ q.alive = p.alive /\ q.undone = p.undone
            /\ q.onBeats = p.onBeats /\ q.onPeaks = p.onPeaks
        BY <2>2, <4>1, <4>2, <4>4
      <4> QED  BY <3>1, <4>5, <4>6
    <3>2. CASE p.beats[id.m] # "some"
      <4>1. q = t  BY <2>1, <3>2
      <4> QED  BY <2>2, <3>2, <4>1
    <3> QED  BY <3>1, <3>2
  <2> SUFFICES Wired(q)  BY <2>3
  <2> HIDE DEF q
  <2>4. Sorted(q)  BY <1>1, <2>3, StillSorted
  <2>5. /\ q.engine \in q.alive \cup {Player!None}
        /\ q.engine # Player!None /\ q.engine \notin q.starting => \A j \in q.starting : Player!switched(q, j)
        /\ \A j \in q.alive \ {q.engine} : j \in q.starting /\ Player!switched(q, j)
    BY <2>3 DEF Tuned, SameTrack, Player!switched
  <2>6. (q.metronome # Player!None => q.metronome = q.engine) /\ q.editor = q.metronome.m  BY <1>3, <2>3, Names
  <2>7. q.beats[q.engine.m] = p.beats[id.m]  BY <1>3, <2>3 DEF SameTrack
  <2>8. Clicks(q)  BY <1>3, <2>3, <2>7 DEF Clicks
  <2> QED  BY <2>4, <2>5, <2>6, <2>8 DEF Wired, Tuned
<1> QED  BY <1>2, <1>3

LEMMA PeaksForIsWired ==
  ASSUME NEW p, Wired(p), NEW id \in Player!EngineIds, id \notin p.starting
  PROVE  Wired(Player!peaksFor(p, id)) /\ Player!peaksFor(p, id).token = p.token
<1>1. CASE Player!switched(p, id) \/ p.engine # id \/ p.peaks[id.m] = "some" \/ ~Player!canFallBack(p, id)
  BY <1>1 DEF Player!peaksFor
<1>2. CASE ~(Player!switched(p, id) \/ p.engine # id \/ p.peaks[id.m] = "some" \/ ~Player!canFallBack(p, id))
  <2>1. Player!peaksFor(p, id) = Player!fullDecode(p, id)  BY <1>2 DEF Player!peaksFor
  <2>2. Sorted(p) /\ p.engine = id /\ ~Player!switched(p, id)  BY <1>2 DEF Wired, Tuned
  <2>3. id \in p.alive  BY <2>2, Names DEF Wired, Tuned
  <2>4. id.m <= p.token /\ id.m \notin p.canplay  BY <2>2, <2>3 DEF Sorted
  <2>5. \A j \in p.starting : Player!switched(p, j)  BY <2>2, Names DEF Wired, Tuned
  <2>6. \A j \in p.starting : j.m # id.m  BY <2>2, <2>5 DEF Player!switched
  <2>7. \A j \in p.alive \ {id} : j \in p.starting /\ Player!switched(p, j)  BY <2>2 DEF Wired, Tuned
  <2> QED  BY <2>1, <2>2, <2>4, <2>6, <2>7, DecodedWhole
<1> QED  BY <1>1, <1>2

(* An answer of an engine that is coming up: it is no longer awaited, and   *)
(* when its track is still the open one nothing else of that track is       *)
(* coming up and what plays beside it is of another track.                  *)
LEMMA Answered ==
  ASSUME NEW p, Wired(p), NEW id \in p.starting
  PROVE  LET q == [p EXCEPT !.starting = @ \ {id}] IN
           /\ Sorted(q) /\ SameTrack(q, p) /\ id \in Player!EngineIds
           /\ q.engine = p.engine /\ q.alive = p.alive /\ q.starting = p.starting \ {id}
           /\ q.undone = p.undone /\ q.onBeats = p.onBeats /\ q.onPeaks = p.onPeaks
           /\ q.metronome = p.metronome /\ q.editor = p.editor
           /\ id.m <= q.token /\ id.m \notin q.canplay /\ id \notin q.onPeaks
           /\ \A j \in q.starting : j.m # id.m
<1> DEFINE q == [p EXCEPT !.starting = @ \ {id}]
<1>1. Sorted(p) /\ p \in Player!PlayerRecords  BY DEF Wired, Tuned, Sorted
<1>2. /\ q \in Player!PlayerRecords /\ SameTrack(q, p)
      /\ q.engine = p.engine /\ q.alive = p.alive /\ q.starting = p.starting \ {id}
      /\ q.undone = p.undone /\ q.onBeats = p.onBeats /\ q.onPeaks = p.onPeaks
      /\ q.metronome = p.metronome /\ q.editor = p.editor
  BY <1>1 DEF Player!PlayerRecords, SameTrack
<1> HIDE DEF q
<1>3. Sorted(q)  BY <1>1, <1>2, StillSorted
<1>4. id \in Player!EngineIds  BY <1>1 DEF Player!PlayerRecords
<1>5. id.m <= q.token /\ id.m \notin q.canplay /\ id \notin q.onPeaks  BY <1>1, <1>2 DEF Sorted, SameTrack
<1>6. \A j \in q.starting : j.m # id.m  BY <1>1, <1>2 DEF Sorted
<1> QED  BY <1>2, <1>3, <1>4, <1>5, <1>6 DEF q

LEMMA LateIsWired ==
  ASSUME NEW p, Wired(p), NEW id \in p.starting
  PROVE  LET r == Player!late([p EXCEPT !.starting = @ \ {id}], id) IN Wired(r) /\ r.token = p.token
<1> DEFINE q == [p EXCEPT !.starting = @ \ {id}]
           t == Player!teardownMetronome(q)
           d == Player!dropEngine(t, id)
           u == d.undone \/ q.engine # id
           r == [d EXCEPT !.undone = u]
<1>1. /\ Sorted(q) /\ SameTrack(q, p) /\ id \in Player!EngineIds
      /\ q.engine = p.engine /\ q.alive = p.alive /\ q.starting = p.starting \ {id}
      /\ q.undone = p.undone /\ q.onBeats = p.onBeats /\ q.onPeaks = p.onPeaks
  BY Answered
<1> HIDE DEF q
<1>2. q \in Player!PlayerRecords  BY <1>1 DEF Sorted
<1>3. /\ t \in Player!PlayerRecords /\ SameTrack(t, q)
      /\ t.engine = q.engine /\ t.starting = q.starting /\ t.alive = q.alive /\ t.undone = q.undone
      /\ t.onBeats = q.onBeats /\ t.onPeaks = q.onPeaks /\ t.metronome = Player!None /\ t.editor = 0
  BY <1>2, TornDown
<1>4. Player!late(q, id) = [Player!dropEngine(t, id) EXCEPT !.undone = @ \/ q.engine # id]
  BY DEF Player!late
<1> HIDE DEF t
<1>5. /\ d \in Player!PlayerRecords /\ SameTrack(d, t)
      /\ d.engine = (IF t.engine = id THEN Player!None ELSE t.engine) /\ d.alive = t.alive \ {id}
      /\ d.starting = t.starting /\ d.onBeats = t.onBeats /\ d.onPeaks = t.onPeaks
      /\ d.metronome = t.metronome /\ d.editor = t.editor
  BY <1>3, Dropped
<1>6. Player!late(q, id) = r  BY <1>4, <1>5 DEF Player!PlayerRecords
<1>7. u \in BOOLEAN  OBVIOUS
<1>8. q.engine # id => u  OBVIOUS
<1> HIDE DEF d, u
<1>9. /\ r \in Player!PlayerRecords /\ SameTrack(r, d) /\ r.undone = u
      /\ r.engine = d.engine /\ r.alive = d.alive /\ r.starting = d.starting
      /\ r.onBeats = d.onBeats /\ r.onPeaks = d.onPeaks /\ r.metronome = d.metronome /\ r.editor = d.editor
  BY <1>5, <1>7 DEF Player!PlayerRecords, SameTrack
<1> SUFFICES Wired(r) /\ r.token = p.token  BY <1>6 DEF q
<1> HIDE DEF r
<1>10. SameTrack(r, q) /\ SameTrack(r, p)  BY <1>1, <1>3, <1>5, <1>9 DEF SameTrack
<1>11. Sorted(r)  BY <1>1, <1>3, <1>5, <1>9, <1>10, StillSorted
<1>12. r.metronome = Player!None /\ r.editor = r.metronome.m  BY <1>3, <1>5, <1>9, Names
<1>13. r.alive = p.alive \ {id} /\ r.starting = p.starting \ {id}
       /\ \/ p.engine = id /\ r.engine = Player!None
          \/ p.engine # id /\ r.engine = p.engine /\ r.undone
  BY <1>1, <1>3, <1>5, <1>8, <1>9
<1>14. /\ p.engine \in p.alive \cup {Player!None}
       /\ p.engine # Player!None /\ p.engine \notin p.starting => \A j \in p.starting : Player!switched(r, j)
       /\ \A j \in p.alive \ {p.engine} : j \in p.starting /\ Player!switched(r, j)
  BY <1>10 DEF Wired, Tuned, SameTrack, Player!switched
<1>15. r.engine \in r.alive \cup {Player!None}  BY <1>13, <1>14
<1>16. r.engine # Player!None /\ r.engine \notin r.starting => \A j \in r.starting : Player!switched(r, j)
  BY <1>13, <1>14
<1>17. ASSUME NEW j \in r.alive \ {r.engine}
       PROVE  j \in r.starting /\ Player!switched(r, j)
  BY <1>13, <1>14
<1>18. Clicks(r)  BY <1>13 DEF Clicks
<1>19. r.token = p.token  BY <1>10 DEF SameTrack
<1> QED  BY <1>19, <1>11, <1>12, <1>15, <1>16, <1>17, <1>18 DEF Wired, Tuned

LEMMA EngineDownIsWired ==
  ASSUME NEW p, Wired(p), NEW id \in p.starting, ~Player!switched(p, id)
  PROVE  LET r == Player!engineDown([p EXCEPT !.starting = @ \ {id}], id) IN Wired(r) /\ r.token = p.token
<1> DEFINE q == [p EXCEPT !.starting = @ \ {id}]
<1>1. /\ Sorted(q) /\ SameTrack(q, p) /\ id \in Player!EngineIds
      /\ q.engine = p.engine /\ q.alive = p.alive /\ q.starting = p.starting \ {id}
      /\ q.onBeats = p.onBeats /\ q.onPeaks = p.onPeaks
      /\ id.m <= q.token /\ id.m \notin q.canplay /\ \A j \in q.starting : j.m # id.m
  BY Answered
<1> SUFFICES Wired(Player!engineDown(q, id)) /\ Player!engineDown(q, id).token = q.token  BY <1>1 DEF SameTrack
<1> HIDE DEF q
<1>2. \A j \in q.starting : Player!switched(q, j)
  BY <1>1 DEF SameTrack, Player!switched
<1>3. q.engine = id \/ q.engine = Player!None \/ q.engine \in q.starting  BY <1>1 DEF Wired, Tuned
<1>4. \A j \in q.alive \ {id} : j \in q.starting
  <2>1. \A j \in q.alive \ {q.engine} : j \in p.starting  BY <1>1 DEF Wired, Tuned
  <2>2. Player!None \notin q.alive  BY <1>1, Names DEF Sorted, Player!PlayerRecords
  <2> QED  BY <1>1, <1>3, <2>1, <2>2
<1>5. CASE Player!canFallBack(q, id)
  BY <1>1, <1>2, <1>4, <1>5, DecodedWhole DEF Player!engineDown
<1>6. CASE ~Player!canFallBack(q, id)
  <2> DEFINE t == Player!teardownMetronome(q)
             r == Player!dropEngine(t, id)
  <2>1. q \in Player!PlayerRecords  BY <1>1 DEF Sorted
  <2>2. /\ t \in Player!PlayerRecords /\ SameTrack(t, q)
        /\ t.engine = q.engine /\ t.starting = q.starting /\ t.alive = q.alive
        /\ t.onBeats = q.onBeats /\ t.onPeaks = q.onPeaks /\ t.metronome = Player!None /\ t.editor = 0
    BY <2>1, TornDown
  <2>3. Player!engineDown(q, id) = r  BY <1>6 DEF Player!engineDown
  <2> HIDE DEF t
  <2>4. /\ r \in Player!PlayerRecords /\ SameTrack(r, t)
        /\ r.engine = (IF t.engine = id THEN Player!None ELSE t.engine) /\ r.alive = t.alive \ {id}
        /\ r.starting = t.starting /\ r.onBeats = t.onBeats /\ r.onPeaks = t.onPeaks
        /\ r.metronome = t.metronome /\ r.editor = t.editor
    BY <2>2, Dropped
  <2> SUFFICES Wired(r) /\ r.token = q.token  BY <2>3
  <2> HIDE DEF r
  <2>5. SameTrack(r, q)  BY <2>2, <2>4 DEF SameTrack
  <2>6. Sorted(r)  BY <1>1, <2>2, <2>4, <2>5, StillSorted
  <2>7. r.metronome = Player!None /\ r.editor = r.metronome.m  BY <2>2, <2>4, Names
  <2>8. r.engine = Player!None \/ (r.engine \in r.starting /\ r.engine \in r.alive)
    <3>1. CASE q.engine = id  BY <2>2, <2>4, <3>1
    <3>2. CASE q.engine # id
      <4>1. r.engine = q.engine  BY <2>2, <2>4, <3>2
      <4>2. q.engine \in q.alive \cup {Player!None}  BY <1>1 DEF Wired, Tuned
      <4> QED  BY <1>3, <2>2, <2>4, <3>2, <4>1, <4>2
    <3> QED  BY <3>1, <3>2
  <2>9. \A j \in r.alive : j \in r.starting /\ Player!switched(r, j)
    BY <1>2, <1>4, <2>2, <2>4, <2>5 DEF SameTrack, Player!switched
  <2>10. r.token = q.token  BY <2>5 DEF SameTrack
  <2> QED  BY <2>6, <2>7, <2>8, <2>9, <2>10 DEF Wired, Tuned, Clicks
<1> QED  BY <1>5, <1>6

(* What an engine that came up then waits for.                              *)
LEMMA WaitsForBeats ==
  ASSUME NEW p \in Player!PlayerRecords, NEW id \in Player!EngineIds
  PROVE  LET b == [p EXCEPT !.onBeats = @ \cup {id}]
         IN /\ b \in Player!PlayerRecords /\ SameTrack(b, p) /\ b.onBeats = p.onBeats \cup {id}
            /\ b.onPeaks = p.onPeaks /\ b.engine = p.engine /\ b.alive = p.alive /\ b.starting = p.starting
            /\ b.metronome = p.metronome /\ b.editor = p.editor
BY DEF Player!PlayerRecords, SameTrack

LEMMA WaitsForPeaks ==
  ASSUME NEW p \in Player!PlayerRecords, NEW id \in Player!EngineIds
  PROVE  LET k == [p EXCEPT !.onPeaks = @ \cup {id}]
         IN /\ k \in Player!PlayerRecords /\ SameTrack(k, p) /\ k.onPeaks = p.onPeaks \cup {id}
            /\ k.onBeats = p.onBeats /\ k.engine = p.engine /\ k.alive = p.alive /\ k.starting = p.starting
            /\ k.metronome = p.metronome /\ k.editor = p.editor /\ k.undone = p.undone
BY DEF Player!PlayerRecords, SameTrack

LEMMA EngineUpIsWired ==
  ASSUME NEW p, Wired(p), NEW id \in p.starting, ~Player!switched(p, id)
  PROVE  LET e == Player!engineUp([p EXCEPT !.starting = @ \ {id}], id) IN Wired(e) /\ e.token = p.token
<1> DEFINE q == [p EXCEPT !.starting = @ \ {id}]
           b == [q EXCEPT !.onBeats = @ \cup {id}]
           r == IF q.beats[id.m] = "asked" THEN b ELSE Player!beatsFor(q, id)
           k == [r EXCEPT !.onPeaks = @ \cup {id}]
<1>1. /\ Sorted(q) /\ SameTrack(q, p) /\ id \in Player!EngineIds
      /\ q.engine = p.engine /\ q.alive = p.alive /\ q.starting = p.starting \ {id}
      /\ q.onBeats = p.onBeats /\ q.onPeaks = p.onPeaks
      /\ q.metronome = p.metronome /\ q.editor = p.editor
      /\ id.m <= q.token /\ id.m \notin q.canplay /\ id \notin q.onPeaks
      /\ \A j \in q.starting : j.m # id.m
  BY Answered
<1>2. Player!engineUp(q, id) =
        IF id.kind = "fulldecode" THEN r
        ELSE IF q.peaks[id.m] = "asked" THEN k ELSE Player!peaksFor(r, id)
  BY DEF Player!engineUp
<1> SUFFICES Wired(Player!engineUp(q, id)) /\ Player!engineUp(q, id).token = q.token  BY <1>1 DEF SameTrack
<1> HIDE DEF q
<1>3. \A j \in q.starting : Player!switched(q, j)
  BY <1>1 DEF SameTrack, Player!switched
<1>4. q.engine = id \/ q.engine = Player!None \/ q.engine \in q.starting  BY <1>1 DEF Wired, Tuned
<1>5. Tuned(q)
  <2>1. q.engine \in q.alive \cup {Player!None}  BY <1>1 DEF Wired, Tuned
  <2>2. \A j \in q.alive \ {q.engine} : j \in p.starting /\ Player!switched(p, j)
    BY <1>1 DEF Wired, Tuned
  <2>3. \A j \in q.alive \ {q.engine} : j \in q.starting /\ Player!switched(q, j)
    BY <1>1, <2>2 DEF SameTrack, Player!switched
  <2>4. (q.metronome # Player!None => q.metronome = q.engine) /\ q.editor = q.metronome.m
    BY <1>1 DEF Wired, Tuned
  <2> QED  BY <1>1, <1>3, <2>1, <2>3, <2>4 DEF Tuned
<1>6. q \in Player!PlayerRecords  BY <1>1 DEF Sorted
<1>7. q.engine # id => Clicks(q)  BY <1>4 DEF Clicks
<1>8. Wired(r) /\ SameTrack(r, q) /\ r.starting = q.starting /\ r.onPeaks = q.onPeaks
  <2>1. CASE q.beats[id.m] = "asked"
    <3>1. /\ b \in Player!PlayerRecords /\ SameTrack(b, q) /\ b.onBeats = q.onBeats \cup {id}
          /\ b.onPeaks = q.onPeaks /\ b.engine = q.engine /\ b.alive = q.alive /\ b.starting = q.starting
          /\ b.metronome = q.metronome /\ b.editor = q.editor
      BY <1>1, <1>6, WaitsForBeats
    <3>2. r = b  BY <2>1
    <3> SUFFICES Wired(b)  BY <3>1, <3>2
    <3> HIDE DEF b
    <3>3. Sorted(b)
      <4>1. \A j \in b.onBeats : b.beats[j.m] = "asked"  BY <1>1, <2>1, <3>1 DEF Sorted, SameTrack
      <4> QED  BY <1>1, <3>1, <4>1 DEF Sorted, SameTrack
    <3>4. /\ b.engine \in b.alive \cup {Player!None}
          /\ b.engine # Player!None /\ b.engine \notin b.starting => \A j \in b.starting : Player!switched(b, j)
          /\ \A j \in b.alive \ {b.engine} : j \in b.starting /\ Player!switched(b, j)
          /\ (b.metronome # Player!None => b.metronome = b.engine) /\ b.editor = b.metronome.m
      BY <1>5, <3>1 DEF Tuned, SameTrack, Player!switched
    <3>5. Clicks(b)
      <4>1. b.engine = id \/ b.engine = Player!None \/ b.engine \in b.starting  BY <1>4, <3>1
      <4>2. b.beats[id.m] = "asked" /\ id \in b.onBeats  BY <2>1, <3>1 DEF SameTrack
      <4> QED  BY <4>1, <4>2 DEF Clicks
    <3> QED  BY <3>3, <3>4, <3>5 DEF Wired, Tuned
  <2>2. CASE q.beats[id.m] # "asked"
    BY <1>1, <1>5, <1>7, <2>2, BeatsForIsWired
  <2> QED  BY <2>1, <2>2
<1>20. r.token = q.token  BY <1>8 DEF SameTrack
<1> HIDE DEF b, r
<1>9. CASE id.kind = "fulldecode"  BY <1>2, <1>8, <1>9, <1>20
<1>10. CASE id.kind # "fulldecode" /\ q.peaks[id.m] = "asked"
  <2>1. r \in Player!PlayerRecords /\ Sorted(r)  BY <1>8 DEF Wired, Tuned, Sorted
  <2>2. /\ k \in Player!PlayerRecords /\ SameTrack(k, r) /\ k.onPeaks = r.onPeaks \cup {id}
        /\ k.onBeats = r.onBeats /\ k.engine = r.engine /\ k.alive = r.alive /\ k.starting = r.starting
        /\ k.metronome = r.metronome /\ k.editor = r.editor /\ k.undone = r.undone
    BY <1>1, <2>1, WaitsForPeaks
  <2>10. k.token = r.token  BY <2>2 DEF SameTrack
  <2> SUFFICES Wired(k)  BY <1>2, <1>10, <1>20, <2>10
  <2> HIDE DEF k
  <2>3. id.kind = "chunked"  BY <1>1, <1>10 DEF Player!EngineIds
  <2>4. Sorted(k)
    <3>1. k.multitrack \in {0, k.token} /\ (\A j \in k.onBeats : k.beats[j.m] = "asked")
      BY <2>1, <2>2 DEF Sorted, SameTrack
    <3>2. \A j \in k.onPeaks : k.peaks[j.m] = "asked" /\ j.kind = "chunked"
      BY <1>8, <1>10, <2>1, <2>2, <2>3 DEF Sorted, SameTrack
    <3>3. \A j \in k.alive \cup k.starting \cup k.onPeaks : j.m <= k.token /\ j.m \notin k.canplay
      BY <1>1, <1>8, <2>1, <2>2 DEF Sorted, SameTrack
    <3>4. (\A m \in k.canplay : m <= k.token) /\ (\A i, j \in k.starting : i.m = j.m => i = j)
      BY <2>1, <2>2 DEF Sorted, SameTrack
    <3>5. k.onPeaks \cap k.starting = {}  BY <1>1, <1>8, <2>1, <2>2 DEF Sorted
    <3> QED  BY <2>2, <3>1, <3>2, <3>3, <3>4, <3>5 DEF Sorted
  <2>5. /\ k.engine \in k.alive \cup {Player!None}
        /\ k.engine # Player!None /\ k.engine \notin k.starting => \A j \in k.starting : Player!switched(k, j)
        /\ \A j \in k.alive \ {k.engine} : j \in k.starting /\ Player!switched(k, j)
        /\ (k.metronome # Player!None => k.metronome = k.engine) /\ k.editor = k.metronome.m
    BY <1>8, <2>2 DEF Wired, Tuned, SameTrack, Player!switched
  <2>6. Clicks(k)  BY <1>8, <2>2 DEF Wired, Clicks, SameTrack, Player!switched
  <2> QED  BY <2>4, <2>5, <2>6 DEF Wired, Tuned
<1>11. CASE id.kind # "fulldecode" /\ q.peaks[id.m] # "asked"
  BY <1>1, <1>2, <1>8, <1>11, <1>20, PeaksForIsWired
<1> QED  BY <1>9, <1>10, <1>11

LEMMA MountedIsWired ==
  ASSUME NEW p, Wired(p), NEW m \in p.canplay
  PROVE  Wired(Player!mounted(p, m)) /\ Player!mounted(p, m).token = p.token
<1> DEFINE a == [p EXCEPT !.canplay = @ \ {m}]
           q == Player!teardownMetronome(a)
           d == Player!dropEngine(q, p.engine)
           id == Player!firstEngine(p, m)
<1>1. Sorted(p) /\ p \in Player!PlayerRecords  BY DEF Wired, Tuned, Sorted
<1>2. m \in Player!Mounts /\ m <= p.token  BY <1>1 DEF Sorted, Player!PlayerRecords
<1>3. /\ a \in Player!PlayerRecords /\ a.token = p.token /\ a.multitrack = p.multitrack
      /\ a.canplay = p.canplay \ {m} /\ a.beats = p.beats /\ a.peaks = p.peaks
      /\ a.engine = p.engine /\ a.starting = p.starting /\ a.alive = p.alive
      /\ a.onBeats = p.onBeats /\ a.onPeaks = p.onPeaks
  BY <1>1 DEF Player!PlayerRecords
<1>4. Player!mounted(p, m) = IF Player!useEngine(p, m) THEN Player!startEngine(d, id)
                             ELSE [q EXCEPT !.undone = TRUE]
  BY DEF Player!mounted
<1> HIDE DEF a
<1>5. /\ q \in Player!PlayerRecords /\ SameTrack(q, a)
      /\ q.engine = a.engine /\ q.starting = a.starting /\ q.alive = a.alive
      /\ q.onBeats = a.onBeats /\ q.onPeaks = a.onPeaks
      /\ q.metronome = Player!None /\ q.editor = 0
  BY <1>3, TornDown
<1> HIDE DEF q
<1>6. q.token = p.token /\ q.canplay = p.canplay \ {m}  BY <1>3, <1>5 DEF SameTrack
<1>7. Sorted(q)
  <2>1. q.multitrack \in {0, q.token} /\ (\A j \in q.onBeats : q.beats[j.m] = "asked")
    BY <1>1, <1>3, <1>5 DEF Sorted, SameTrack
  <2>2. \A j \in q.onPeaks : q.peaks[j.m] = "asked" /\ j.kind = "chunked"
    BY <1>1, <1>3, <1>5 DEF Sorted, SameTrack
  <2>3. \A j \in q.alive \cup q.starting \cup q.onPeaks : j.m <= q.token /\ j.m \notin q.canplay
    BY <1>1, <1>3, <1>5, <1>6 DEF Sorted
  <2>4. (\A n \in q.canplay : n <= q.token) /\ (\A i, j \in q.starting : i.m = j.m => i = j)
    BY <1>1, <1>3, <1>5, <1>6 DEF Sorted
  <2>5. q.onPeaks \cap q.starting = {}  BY <1>1, <1>3, <1>5 DEF Sorted
  <2> QED  BY <1>5, <2>1, <2>2, <2>3, <2>4, <2>5 DEF Sorted
<1>8. \A j \in q.alive \ {q.engine} : j \in q.starting /\ Player!switched(q, j)
  BY <1>3, <1>5 DEF Wired, Tuned, SameTrack, Player!switched
<1>9. CASE Player!useEngine(p, m)
  <2>1. /\ d \in Player!PlayerRecords /\ SameTrack(d, q) /\ d.alive = q.alive \ {p.engine}
        /\ d.starting = q.starting /\ d.onBeats = q.onBeats /\ d.onPeaks = q.onPeaks
        /\ d.metronome = q.metronome /\ d.editor = q.editor
    BY <1>5, Dropped
  <2>2. id \in Player!EngineIds /\ id.m = m  BY <1>2 DEF Player!firstEngine, Player!EngineIds
  <2> HIDE DEF d, id
  <2>3. Sorted(d)  BY <1>7, <2>1, StillSorted
  <2>4. Bare(d)  BY <1>3, <1>5, <1>8, <2>1, <2>3 DEF Bare, SameTrack, Player!switched
  <2>5. d.token = p.token /\ d.canplay = p.canplay \ {m}  BY <1>6, <2>1 DEF SameTrack
  <2>6. \A j \in d.starting \cup d.onPeaks : j.m # id.m  BY <1>1, <1>3, <1>5, <2>1, <2>2 DEF Sorted
  <2>7. Wired(Player!startEngine(d, id))  BY <1>2, <2>2, <2>4, <2>5, <2>6, StartedIsWired
  <2>8. Player!startEngine(d, id).token = d.token  BY <2>1, <2>2, Started DEF SameTrack
  <2> QED  BY <1>4, <1>9, <2>5, <2>7, <2>8
<1>10. CASE ~Player!useEngine(p, m)
  <2> DEFINE r == [q EXCEPT !.undone = TRUE]
  <2>1. /\ r \in Player!PlayerRecords /\ SameTrack(r, q) /\ r.undone = TRUE
        /\ r.engine = q.engine /\ r.alive = q.alive /\ r.starting = q.starting
        /\ r.onBeats = q.onBeats /\ r.onPeaks = q.onPeaks /\ r.metronome = q.metronome /\ r.editor = q.editor
    BY <1>5 DEF Player!PlayerRecords, SameTrack
  <2>2. Player!mounted(p, m) = r  BY <1>4, <1>10
  <2> HIDE DEF r
  <2>3. Sorted(r)  BY <1>7, <2>1, StillSorted
  <2>4. r.engine \in r.alive \cup {Player!None}  BY <1>3, <1>5, <2>1 DEF Wired, Tuned
  <2>5. r.engine # Player!None /\ r.engine \notin r.starting => \A j \in r.starting : Player!switched(r, j)
    BY <1>3, <1>5, <2>1 DEF Wired, Tuned, SameTrack, Player!switched
  <2>6. \A j \in r.alive \ {r.engine} : j \in r.starting /\ Player!switched(r, j)
    BY <1>8, <2>1 DEF SameTrack, Player!switched
  <2>7. r.metronome = Player!None /\ r.editor = r.metronome.m  BY <1>5, <2>1, Names
  <2>8. r.token = p.token  BY <1>6, <2>1 DEF SameTrack
  <2> QED  BY <2>1, <2>2, <2>3, <2>4, <2>5, <2>6, <2>7, <2>8 DEF Wired, Tuned, Clicks
<1> QED  BY <1>9, <1>10

LEMMA EmptiedIsWired ==
  ASSUME NEW p, Wired(p)
  PROVE  Wired(Player!emptied(p)) /\ Player!emptied(p).token = p.token
<1> DEFINE t == Player!teardownMetronome(p)
           d == Player!dropEngine(t, p.engine)
           r == [d EXCEPT !.multitrack = 0]
<1>1. Sorted(p) /\ p \in Player!PlayerRecords  BY DEF Wired, Tuned, Sorted
<1>2. /\ t \in Player!PlayerRecords /\ SameTrack(t, p)
      /\ t.engine = p.engine /\ t.starting = p.starting /\ t.alive = p.alive
      /\ t.onBeats = p.onBeats /\ t.onPeaks = p.onPeaks /\ t.metronome = Player!None /\ t.editor = 0
  BY <1>1, TornDown
<1>3. Player!emptied(p) = r  BY DEF Player!emptied
<1> HIDE DEF t
<1>4. /\ d \in Player!PlayerRecords /\ SameTrack(d, t)
      /\ d.engine = Player!None /\ d.alive = t.alive \ {p.engine}
      /\ d.starting = t.starting /\ d.onBeats = t.onBeats /\ d.onPeaks = t.onPeaks
      /\ d.metronome = t.metronome /\ d.editor = t.editor
  BY <1>2, Dropped
<1> HIDE DEF d
<1>5. SameTrack(d, p)  BY <1>2, <1>4 DEF SameTrack
<1>6. 0 \in 0..MaxMounts  BY Bounds
<1>7. /\ r \in Player!PlayerRecords /\ r.multitrack = 0 /\ r.token = p.token /\ r.canplay = p.canplay
      /\ r.beats = p.beats /\ r.peaks = p.peaks
      /\ r.engine = Player!None /\ r.alive = p.alive \ {p.engine} /\ r.starting = p.starting
      /\ r.onBeats = p.onBeats /\ r.onPeaks = p.onPeaks /\ r.metronome = Player!None /\ r.editor = 0
  BY <1>2, <1>4, <1>5, <1>6 DEF Player!PlayerRecords, SameTrack
<1> SUFFICES Wired(r) /\ r.token = p.token  BY <1>3
<1> HIDE DEF r
<1>8. Sorted(r)
  <2>1. \A id \in r.alive \cup r.starting \cup r.onPeaks : id.m <= r.token /\ id.m \notin r.canplay
    BY <1>1, <1>7 DEF Sorted
  <2> QED  BY <1>1, <1>7, <2>1 DEF Sorted
<1>9. \A id \in r.alive : id \in r.starting /\ id \in Player!EngineIds
  BY <1>1, <1>7 DEF Wired, Tuned, Player!PlayerRecords
<1>10. \A id \in r.alive : Player!switched(r, id)  BY <1>7, <1>9, Names DEF Player!switched
<1> QED  BY <1>7, <1>8, <1>9, <1>10, Names DEF Wired, Tuned, Clicks

(* Another track is opened: what the one before has on the way is late.     *)
Opened(p) ==
  LET m == p.token + 1
  IN [p EXCEPT !.token = m, !.multitrack = m, !.canplay = @ \cup {m}, !.beats[m] = "asked", !.peaks[m] = "asked"]

LEMMA OpenedIsWired ==
  ASSUME NEW p, NEW q, Wired(p), p.token < MaxMounts, q = Opened(p)
  PROVE  Wired(q) /\ q.token = p.token + 1
<1> DEFINE m == p.token + 1
           bs == [p.beats EXCEPT ![m] = "asked"]
           ks == [p.peaks EXCEPT ![m] = "asked"]
<1>1. Sorted(p) /\ p \in Player!PlayerRecords  BY DEF Wired, Tuned, Sorted
<1>2. p.token \in Nat /\ m \in Player!Mounts /\ m \in 0..MaxMounts /\ p.token < m /\ m > 0
  BY <1>1, Bounds DEF Player!PlayerRecords, Player!Mounts
<1>3. q = [p EXCEPT !.token = m, !.multitrack = m, !.canplay = @ \cup {m},
                    !.beats[m] = "asked", !.peaks[m] = "asked"]
  BY DEF Opened
<1>4. m = p.token + 1  OBVIOUS
<1> HIDE DEF m
<1>5. q = [token |-> m, multitrack |-> m, mode |-> p.mode, canplay |-> p.canplay \cup {m},
           beats |-> bs, peaks |-> ks,
           engine |-> p.engine, starting |-> p.starting, alive |-> p.alive,
           onBeats |-> p.onBeats, onPeaks |-> p.onPeaks,
           metronome |-> p.metronome, editor |-> p.editor, undone |-> p.undone]
  BY <1>1, <1>3 DEF Player!PlayerRecords
<1>6. bs \in [Player!Mounts -> {"asked", "some", "none"}]
  BY <1>1 DEF Player!PlayerRecords
<1>7. ks \in [Player!Mounts -> {"asked", "some", "none"}]
  BY <1>1 DEF Player!PlayerRecords
<1> HIDE DEF bs, ks
<1>8. q \in Player!PlayerRecords  BY <1>1, <1>2, <1>5, <1>6, <1>7 DEF Player!PlayerRecords
<1>9. /\ q.token = m /\ q.multitrack = m /\ q.canplay = p.canplay \cup {m}
      /\ q.engine = p.engine /\ q.alive = p.alive /\ q.starting = p.starting
      /\ q.onBeats = p.onBeats /\ q.onPeaks = p.onPeaks /\ q.metronome = p.metronome /\ q.editor = p.editor
      /\ q.beats = bs /\ q.peaks = ks
  <2>1. q.token = m /\ q.multitrack = m /\ q.canplay = p.canplay \cup {m} /\ q.beats = bs /\ q.peaks = ks
    BY ONLY <1>5
  <2>2. q.engine = p.engine /\ q.alive = p.alive /\ q.starting = p.starting  BY ONLY <1>5
  <2>3. q.onBeats = p.onBeats /\ q.onPeaks = p.onPeaks /\ q.metronome = p.metronome /\ q.editor = p.editor
    BY ONLY <1>5
  <2> QED  BY <2>1, <2>2, <2>3
<1>10. \A j \in p.onBeats : j.m \in Player!Mounts /\ q.beats[j.m] = "asked"
  <2>1. \A j \in p.onBeats : j.m \in Player!Mounts  BY <1>1, Names DEF Player!PlayerRecords
  <2>2. \A j \in p.onBeats : p.beats[j.m] = "asked"  BY <1>1 DEF Sorted
  <2> QED  BY <1>1, <1>9, <2>1, <2>2 DEF bs, Player!PlayerRecords
<1>11. \A j \in p.onPeaks : j.m \in Player!Mounts /\ q.peaks[j.m] = "asked" /\ j.kind = "chunked"
  <2>1. \A j \in p.onPeaks : j.m \in Player!Mounts  BY <1>1, Names DEF Player!PlayerRecords
  <2>2. \A j \in p.onPeaks : p.peaks[j.m] = "asked" /\ j.kind = "chunked"  BY <1>1 DEF Sorted
  <2> QED  BY <1>1, <1>9, <2>1, <2>2 DEF ks, Player!PlayerRecords
<1>12. \A j \in p.alive \cup p.starting \cup p.onPeaks :
          /\ j.m \in Nat /\ j.m <= p.token /\ j.m # m /\ j.m <= m /\ j.m \notin q.canplay
  <2>1. \A j \in p.alive \cup p.starting \cup p.onPeaks : j.m <= p.token /\ j.m \notin p.canplay
    BY <1>1 DEF Sorted
  <2>2. \A j \in p.alive \cup p.starting \cup p.onPeaks : j.m \in Nat  BY <1>1, Names DEF Player!PlayerRecords
  <2> QED  BY <1>2, <1>4, <1>9, <2>1, <2>2
<1>13. \A n \in q.canplay : n <= q.token
  <2>1. \A n \in p.canplay : n \in Nat /\ n <= p.token
    BY <1>1, Bounds DEF Sorted, Player!PlayerRecords, Player!Mounts
  <2> QED  BY <1>2, <1>4, <1>9, <2>1
<1>14. Sorted(q)
  <2>1. \A j \in q.alive \cup q.starting \cup q.onPeaks : j.m <= q.token /\ j.m \notin q.canplay
    BY <1>9, <1>12
  <2>2. (\A i, j \in q.starting : i.m = j.m => i = j) /\ q.onPeaks \cap q.starting = {}
    BY <1>1, <1>9 DEF Sorted
  <2> QED  BY <1>8, <1>9, <1>10, <1>11, <1>13, <2>1, <2>2 DEF Sorted
<1>15. \A j \in p.alive \cup p.starting : Player!switched(q, j)  BY <1>9, <1>12 DEF Player!switched
<1>16. /\ q.engine \in q.alive \cup {Player!None}
       /\ \A j \in q.alive \ {q.engine} : j \in q.starting
       /\ (q.metronome # Player!None => q.metronome = q.engine) /\ q.editor = q.metronome.m
  BY <1>9 DEF Wired, Tuned
<1>17. Clicks(q)  BY <1>9, <1>15, <1>16 DEF Clicks
<1> QED  BY <1>4, <1>9, <1>14, <1>15, <1>16, <1>17 DEF Wired, Tuned

LEMMA BeatsAreWired ==
  ASSUME NEW p, Wired(p), NEW m \in Player!Mounts, NEW x \in {"some", "none"}, p.beats[m] = "asked"
  PROVE  Wired(Player!beatsThere(p, m, x)) /\ Player!beatsThere(p, m, x).token = p.token
<1> DEFINE bs == [p.beats EXCEPT ![m] = x]
           on == p.onBeats \ Player!WaitingIn(p.onBeats, m)
           a == [p EXCEPT !.beats = bs]
           q == [a EXCEPT !.onBeats = on]
           r == IF p.engine \in Player!WaitingIn(p.onBeats, m) THEN Player!beatsFor(q, p.engine) ELSE q
<1>1. Sorted(p) /\ p \in Player!PlayerRecords  BY DEF Wired, Tuned, Sorted
<1>2. [p EXCEPT !.beats[m] = x, !.onBeats = @ \ Player!WaitingIn(p.onBeats, m)] = q
  BY <1>1 DEF Player!PlayerRecords
<1> SUFFICES Wired(r) /\ r.token = p.token  BY <1>2 DEF Player!beatsThere
<1>3. bs \in [Player!Mounts -> {"asked", "some", "none"}]  BY <1>1 DEF Player!PlayerRecords
<1>4. bs[m] = x /\ \A n \in Player!Mounts \ {m} : bs[n] = p.beats[n]  BY <1>1 DEF Player!PlayerRecords
<1>5. /\ on \subseteq p.onBeats
      /\ \A j \in on : j.m # m
      /\ \A j \in p.onBeats : j.m # m => j \in on
      /\ \A j : j \in Player!WaitingIn(p.onBeats, m) <=> j \in p.onBeats /\ j.m = m
  BY DEF Player!WaitingIn
<1> HIDE DEF bs, on
<1>6. /\ a \in Player!PlayerRecords /\ a.beats = bs
      /\ a.token = p.token /\ a.multitrack = p.multitrack /\ a.canplay = p.canplay /\ a.peaks = p.peaks
      /\ a.engine = p.engine /\ a.alive = p.alive /\ a.starting = p.starting /\ a.undone = p.undone
      /\ a.onPeaks = p.onPeaks /\ a.metronome = p.metronome /\ a.editor = p.editor
  BY <1>1, <1>3 DEF Player!PlayerRecords
<1>7. on \in SUBSET Player!EngineIds  BY <1>1, <1>5 DEF Player!PlayerRecords
<1> HIDE DEF a
<1>8. /\ q \in Player!PlayerRecords /\ q.beats = a.beats /\ q.onBeats = on
      /\ q.token = a.token /\ q.multitrack = a.multitrack /\ q.canplay = a.canplay /\ q.peaks = a.peaks
      /\ q.engine = a.engine /\ q.alive = a.alive /\ q.starting = a.starting /\ q.undone = a.undone
      /\ q.onPeaks = a.onPeaks /\ q.metronome = a.metronome /\ q.editor = a.editor
  BY <1>6, <1>7 DEF Player!PlayerRecords
<1> HIDE DEF q
<1>9. /\ q.beats = bs /\ q.token = p.token /\ q.multitrack = p.multitrack /\ q.canplay = p.canplay
      /\ q.peaks = p.peaks /\ q.engine = p.engine /\ q.alive = p.alive /\ q.starting = p.starting
      /\ q.undone = p.undone /\ q.onPeaks = p.onPeaks /\ q.metronome = p.metronome /\ q.editor = p.editor
  BY <1>6, <1>8
<1>10. \A j \in p.onBeats : j.m \in Player!Mounts  BY <1>1, Names DEF Player!PlayerRecords
<1>11. Sorted(q)
  <2>1. \A j \in q.onBeats : q.beats[j.m] = "asked"  BY <1>1, <1>4, <1>5, <1>8, <1>9, <1>10 DEF Sorted
  <2>2. /\ q.multitrack \in {0, q.token}
        /\ \A j \in q.onPeaks : q.peaks[j.m] = "asked" /\ j.kind = "chunked"
        /\ \A n \in q.canplay : n <= q.token
    BY <1>1, <1>9 DEF Sorted
  <2>3. \A j \in q.alive \cup q.starting \cup q.onPeaks : j.m <= q.token /\ j.m \notin q.canplay
    BY <1>1, <1>9 DEF Sorted
  <2>4. (\A i, j \in q.starting : i.m = j.m => i = j) /\ q.onPeaks \cap q.starting = {}
    BY <1>1, <1>9 DEF Sorted
  <2> QED  BY <1>8, <2>1, <2>2, <2>3, <2>4 DEF Sorted
<1>12. Tuned(q)
  <2>1. /\ q.engine \in q.alive \cup {Player!None}
        /\ q.engine # Player!None /\ q.engine \notin q.starting => \A j \in q.starting : Player!switched(q, j)
        /\ \A j \in q.alive \ {q.engine} : j \in q.starting /\ Player!switched(q, j)
        /\ (q.metronome # Player!None => q.metronome = q.engine) /\ q.editor = q.metronome.m
    BY <1>9 DEF Wired, Tuned, Player!switched
  <2> QED  BY <1>11, <2>1 DEF Tuned
<1>13. CASE p.engine \in Player!WaitingIn(p.onBeats, m)
  <2>1. p.engine \in Player!EngineIds /\ p.engine.m = m  BY <1>1, <1>5, <1>13 DEF Player!PlayerRecords
  <2>2. q.beats[p.engine.m] # "asked"  BY <1>4, <1>9, <2>1
  <2>3. Wired(Player!beatsFor(q, p.engine)) /\ SameTrack(Player!beatsFor(q, p.engine), q)
    BY <1>9, <1>12, <2>1, <2>2, BeatsForIsWired
  <2> QED  BY <1>9, <1>13, <2>3 DEF SameTrack
<1>14. CASE p.engine \notin Player!WaitingIn(p.onBeats, m)
  <2> SUFFICES ASSUME q.engine # Player!None, q.engine \notin q.starting, ~Player!switched(q, q.engine), ~q.undone
               PROVE  /\ q.beats[q.engine.m] = "some" => q.metronome = q.engine
                      /\ q.beats[q.engine.m] = "asked" => q.engine \in q.onBeats
    BY <1>9, <1>12, <1>14 DEF Wired, Clicks
  <2>1. /\ p.beats[p.engine.m] = "some" => p.metronome = p.engine
        /\ p.beats[p.engine.m] = "asked" => p.engine \in p.onBeats
    BY <1>9 DEF Wired, Clicks, Player!switched
  <2>2. p.engine.m # m  BY <1>5, <1>14, <2>1
  <2>3. p.engine.m \in Player!Mounts  BY <1>1, <1>9, Names DEF Player!PlayerRecords
  <2>4. q.beats[q.engine.m] = p.beats[p.engine.m]  BY <1>4, <1>9, <2>2, <2>3
  <2> QED  BY <1>5, <1>8, <1>9, <2>1, <2>2, <2>4
<1> QED  BY <1>13, <1>14

LEMMA PeaksAreWired ==
  ASSUME NEW p, Wired(p), NEW m \in Player!Mounts, NEW x \in {"some", "none"}, p.peaks[m] = "asked"
  PROVE  Wired(Player!peaksThere(p, m, x)) /\ Player!peaksThere(p, m, x).token = p.token
<1> DEFINE ks == [p.peaks EXCEPT ![m] = x]
           on == p.onPeaks \ Player!WaitingIn(p.onPeaks, m)
           a == [p EXCEPT !.peaks = ks]
           q == [a EXCEPT !.onPeaks = on]
           r == IF p.engine \in Player!WaitingIn(p.onPeaks, m) THEN Player!peaksFor(q, p.engine) ELSE q
<1>1. Sorted(p) /\ p \in Player!PlayerRecords  BY DEF Wired, Tuned, Sorted
<1>2. [p EXCEPT !.peaks[m] = x, !.onPeaks = @ \ Player!WaitingIn(p.onPeaks, m)] = q
  BY <1>1 DEF Player!PlayerRecords
<1> SUFFICES Wired(r) /\ r.token = p.token  BY <1>2 DEF Player!peaksThere
<1>3. ks \in [Player!Mounts -> {"asked", "some", "none"}]  BY <1>1 DEF Player!PlayerRecords
<1>4. \A n \in Player!Mounts \ {m} : ks[n] = p.peaks[n]  BY <1>1 DEF Player!PlayerRecords
<1>5. /\ on \subseteq p.onPeaks
      /\ \A j \in on : j.m # m
      /\ \A j : j \in Player!WaitingIn(p.onPeaks, m) <=> j \in p.onPeaks /\ j.m = m
  BY DEF Player!WaitingIn
<1> HIDE DEF ks, on
<1>6. /\ a \in Player!PlayerRecords /\ a.peaks = ks
      /\ a.token = p.token /\ a.multitrack = p.multitrack /\ a.canplay = p.canplay /\ a.beats = p.beats
      /\ a.engine = p.engine /\ a.alive = p.alive /\ a.starting = p.starting /\ a.undone = p.undone
      /\ a.onBeats = p.onBeats /\ a.metronome = p.metronome /\ a.editor = p.editor
  BY <1>1, <1>3 DEF Player!PlayerRecords
<1>7. on \in SUBSET Player!EngineIds  BY <1>1, <1>5 DEF Player!PlayerRecords
<1> HIDE DEF a
<1>8. /\ q \in Player!PlayerRecords /\ q.peaks = a.peaks /\ q.onPeaks = on
      /\ q.token = a.token /\ q.multitrack = a.multitrack /\ q.canplay = a.canplay /\ q.beats = a.beats
      /\ q.engine = a.engine /\ q.alive = a.alive /\ q.starting = a.starting /\ q.undone = a.undone
      /\ q.onBeats = a.onBeats /\ q.metronome = a.metronome /\ q.editor = a.editor
  BY <1>6, <1>7 DEF Player!PlayerRecords
<1> HIDE DEF q
<1>9. /\ q.peaks = ks /\ q.token = p.token /\ q.multitrack = p.multitrack /\ q.canplay = p.canplay
      /\ q.beats = p.beats /\ q.engine = p.engine /\ q.alive = p.alive /\ q.starting = p.starting
      /\ q.undone = p.undone /\ q.onBeats = p.onBeats /\ q.metronome = p.metronome /\ q.editor = p.editor
  BY <1>6, <1>8
<1>10. Sorted(q)
  <2>1. \A j \in p.onPeaks : j.m \in Player!Mounts  BY <1>1, Names DEF Player!PlayerRecords
  <2>2. \A j \in q.onPeaks : q.peaks[j.m] = "asked" /\ j.kind = "chunked"
    BY <1>1, <1>4, <1>5, <1>8, <1>9, <2>1 DEF Sorted
  <2>3. /\ q.multitrack \in {0, q.token} /\ (\A j \in q.onBeats : q.beats[j.m] = "asked")
        /\ \A n \in q.canplay : n <= q.token
    BY <1>1, <1>9 DEF Sorted
  <2>4. \A j \in q.alive \cup q.starting \cup q.onPeaks : j.m <= q.token /\ j.m \notin q.canplay
    BY <1>1, <1>5, <1>8, <1>9 DEF Sorted
  <2>5. (\A i, j \in q.starting : i.m = j.m => i = j) /\ q.onPeaks \cap q.starting = {}
    BY <1>1, <1>5, <1>8, <1>9 DEF Sorted
  <2> QED  BY <1>8, <2>2, <2>3, <2>4, <2>5 DEF Sorted
<1>11. Wired(q)
  <2>1. /\ q.engine \in q.alive \cup {Player!None}
        /\ q.engine # Player!None /\ q.engine \notin q.starting => \A j \in q.starting : Player!switched(q, j)
        /\ \A j \in q.alive \ {q.engine} : j \in q.starting /\ Player!switched(q, j)
        /\ (q.metronome # Player!None => q.metronome = q.engine) /\ q.editor = q.metronome.m
    BY <1>9 DEF Wired, Tuned, Player!switched
  <2>2. Clicks(q)  BY <1>9 DEF Wired, Clicks, Player!switched
  <2> QED  BY <1>10, <2>1, <2>2 DEF Wired, Tuned
<1>12. CASE p.engine \in Player!WaitingIn(p.onPeaks, m)
  <2>1. p.engine \in Player!EngineIds /\ p.engine \notin q.starting
    BY <1>1, <1>5, <1>9, <1>12 DEF Sorted, Player!PlayerRecords
  <2> QED  BY <1>9, <1>11, <1>12, <2>1, PeaksForIsWired
<1>13. CASE p.engine \notin Player!WaitingIn(p.onPeaks, m)  BY <1>9, <1>11, <1>13
<1> QED  BY <1>12, <1>13

(* One step of the player, operation by operation.                          *)
LEMMA PlayerStep ==
  ASSUME Player!PlayerIInv, [Player!PlayerNext]_<<st, acts>>
  PROVE  Player!PlayerIInv'
<1>1. Wired(st) /\ acts \in 0..MaxMounts + 1 + st.token  BY PlayerIsWired
<1>2. st \in Player!PlayerRecords /\ st.token \in Nat
  BY <1>1, Bounds DEF Wired, Tuned, Sorted, Player!PlayerRecords
<1>3. (Wired(st) /\ acts \in 0..MaxMounts + 1 + st.token => Player!PlayerIInv)'
  BY WiredIsEnough, PTL
<1> SUFFICES Wired(st') /\ acts' \in 0..MaxMounts + 1 + st'.token
  BY <1>3
<1>4. CASE Player!wireUpAudio
  <2>2. /\ acts' = acts + 1 /\ st.token < MaxMounts
        /\ st' = Opened(st)
    BY <1>4 DEF Player!wireUpAudio, Opened
  <2>1. Wired(st') /\ st'.token = st.token + 1  BY <1>1, <2>2, OpenedIsWired
  <2> QED  BY <1>1, <1>2, <2>1, <2>2, Bounds
<1>5. CASE Player!destroyPlayer
  <2>1. Wired(st') /\ st'.token = st.token  BY <1>1, <1>5, EmptiedIsWired DEF Player!destroyPlayer
  <2>2. acts' = acts + 1 /\ acts <= MaxMounts  BY <1>5 DEF Player!destroyPlayer
  <2> QED  BY <1>1, <1>2, <2>1, <2>2, Bounds
<1>6. CASE Player!canplay
  <2>1. PICK m \in st.canplay : st' = Player!mounted(st, m) /\ acts' = acts  BY <1>6 DEF Player!canplay
  <2> QED  BY <1>1, <2>1, MountedIsWired
<1>7. CASE Player!engineSettled
  <2>1. PICK id \in st.starting :
          /\ \/ \E ok \in BOOLEAN : st' = Player!engineReady(st, id, ok)
             \/ st' = Player!engineThrew(st, id)
          /\ acts' = acts
    BY <1>7 DEF Player!engineSettled
  <2> DEFINE q == [st EXCEPT !.starting = @ \ {id}]
  <2>2. CASE st' = Player!late(q, id)
    BY <1>1, <2>2, <2>1, LateIsWired
  <2>3. CASE ~Player!switched(st, id) /\ st' = Player!engineUp(q, id)
    BY <1>1, <2>3, <2>1, EngineUpIsWired
  <2>4. CASE ~Player!switched(st, id) /\ st' = Player!engineDown(q, id)
    BY <1>1, <2>4, <2>1, EngineDownIsWired
  <2> QED  BY <2>1, <2>2, <2>3, <2>4 DEF Player!engineReady, Player!engineThrew
<1>8. CASE Player!beatsAnswered
  <2>1. PICK m \in Player!Mounts, x \in {"some", "none"} :
          /\ st.beats[m] = "asked" /\ acts' = acts
          /\ st' = Player!beatsThere(st, m, x)
    BY <1>8 DEF Player!beatsAnswered
  <2> QED  BY <1>1, <2>1, BeatsAreWired
<1>9. CASE Player!peaksAnswered
  <2>1. PICK m \in Player!Mounts, x \in {"some", "none"} :
          /\ st.peaks[m] = "asked" /\ acts' = acts
          /\ st' = Player!peaksThere(st, m, x)
    BY <1>9 DEF Player!peaksAnswered
  <2> QED  BY <1>1, <2>1, PeaksAreWired
<1>10. CASE UNCHANGED <<st, acts>>  BY <1>1, <1>10
<1> QED  BY <1>4, <1>5, <1>6, <1>7, <1>8, <1>9, <1>10 DEF Player!PlayerNext

-----------------------------------------------------------------------------
(* An empty studio: nothing was asked for, so nothing can be of a track     *)
(* that is not there.                                                       *)
LEMMA PlayerStarts ==
  ASSUME Player!PlayerInit
  PROVE  Player!PlayerIInv
<1>1. PICK mode \in [Player!Mounts -> Modes] :
        st = [token |-> 0, multitrack |-> 0, mode |-> mode, canplay |-> {},
              beats |-> [m \in Player!Mounts |-> "none"], peaks |-> [m \in Player!Mounts |-> "none"],
              engine |-> Player!None, starting |-> {}, alive |-> {}, onBeats |-> {}, onPeaks |-> {},
              metronome |-> Player!None, editor |-> 0, undone |-> FALSE]
  BY DEF Player!PlayerInit
<1>2. /\ st.token = 0 /\ st.multitrack = 0 /\ st.canplay = {} /\ st.engine = Player!None
      /\ st.starting = {} /\ st.alive = {} /\ st.onBeats = {} /\ st.onPeaks = {}
      /\ st.metronome = Player!None /\ st.editor = 0
  BY ONLY <1>1
<1>3. 0 \in 0..MaxMounts  BY Bounds
<1>4. st \in Player!PlayerRecords  BY <1>1, <1>3 DEF Player!PlayerRecords
<1>5. Sorted(st)  BY <1>2, <1>4 DEF Sorted
<1>6. Wired(st)  BY <1>2, <1>5, Names DEF Wired, Tuned, Clicks
<1>7. acts \in 0..MaxMounts + 1 + st.token  BY <1>2, Bounds DEF Player!PlayerInit
<1> QED  BY <1>6, <1>7, WiredIsEnough

LEMMA PicturesStart ==
  ASSUME Pictures!VisualsInit
  PROVE  Pictures!VisualsIInv
<1> DEFINE path == [m \in Pictures!Mounts |-> "chunked"]
           no == [m \in Pictures!Mounts |-> "no"]
<1>1. st = [token |-> 0, mt |-> 0, overview |-> 0, source |-> 0, footer |-> 0, energy |-> 0,
            meters |-> 0, path |-> path, peaks |-> no,
            canplay |-> {}, decoding |-> {}, footers |-> {}, engine |-> no,
            frame |-> FALSE, stray |-> FALSE]
  BY DEF Pictures!VisualsInit
<1>2. path \in [Pictures!Mounts -> Pictures!Paths]  BY DEF Pictures!Paths
<1>3. /\ no \in [Pictures!Mounts -> {"no", "asked", "late", "some", "none"}]
      /\ no \in [Pictures!Mounts -> {"no", "starting", "chunked", "up"}]
      /\ \A m \in Pictures!Mounts : no[m] = "no"
  OBVIOUS
<1>4. 0 \in Pictures!Shown  BY Bounds DEF Pictures!Shown
<1> HIDE DEF path, no
<1>5. st.token = 0 /\ st.mt = 0 /\ st.canplay = {} /\ st.footers = {} /\ st.peaks = no /\ st.engine = no
  BY ONLY <1>1
<1>6. st \in Pictures!VisualsRecords  BY <1>1, <1>2, <1>3, <1>4 DEF Pictures!VisualsRecords
<1>7. Drawn(st)  BY <1>3, <1>5 DEF Drawn
<1>8. acts \in 0..PictureActs  BY Bounds DEF Pictures!VisualsInit
<1> QED  BY <1>6, <1>7, <1>8, DrawnIsEnough

LEMMA RulerStarts ==
  ASSUME Ruler!TimelineInit
  PROVE  Ruler!TimelineIInv
<1>1. PICK w \in Widths :
        st = [duration |-> 0, mounted |-> FALSE, width |-> w, zoom |-> 1, laidOut |-> 0,
              step |-> 0, ruled |-> 0, barEvery |-> 0, beats |-> FALSE,
              squeezed |-> FALSE, resized |-> FALSE, frame |-> FALSE, waiting |-> FALSE]
  BY DEF Ruler!TimelineInit
<1>2. 1 \in Ruler!Zooms  BY Bounds DEF Ruler!Zooms
<1>3. st \in Ruler!TimelineRecords  BY <1>1, <1>2 DEF Ruler!TimelineRecords
<1>4. st.duration = 0 /\ st.mounted = FALSE /\ st.waiting = FALSE  BY ONLY <1>1
<1>5. Settled(st)  BY <1>4 DEF Settled
<1>6. acts \in 0..RulerActs  BY Bounds DEF Ruler!TimelineInit
<1> QED  BY <1>3, <1>5, <1>6, SettledIsEnough

LEMMA OverlayStarts ==
  ASSUME Overlay!OverlayInit
  PROVE  Overlay!OverlayTypeOK
<1>1. st = [shown |-> FALSE, stalled |-> FALSE, importing |-> FALSE, token |-> 0,
            canplay |-> {}, giveUp |-> {}, stall |-> {}, hides |-> 0]
  BY DEF Overlay!OverlayInit
<1>2. 0 \in 0..MaxMounts  BY Bounds
<1>3. st \in Overlay!OverlayRecords  BY <1>1, <1>2 DEF Overlay!OverlayRecords
<1>4. st.token = 0  BY ONLY <1>1
<1> QED  BY <1>3, <1>4, Bounds DEF Overlay!OverlayInit, Overlay!OverlayTypeOK

(* The invariant of each part of the studio, in the behaviours of that part.*)
StudioIInv ==
  /\ part = "player" => Player!PlayerIInv
  /\ part = "pictures" => Pictures!VisualsIInv
  /\ part = "ruler" => Ruler!TimelineIInv
  /\ part = "overlay" => Overlay!OverlayTypeOK

(* What is on the screen is always of the track that is open, for any       *)
(* number of tracks, of acts of the user, and for any durations, widths and *)
(* zooms: one engine alive (engineReady of player.js), the click and the    *)
(* editor on it, waveforms, meters and ruler of that track.                 *)
THEOREM OneTrack == Spec => []StudioIsOfOneTrack
<1>1. Init => StudioIInv
  <2> SUFFICES ASSUME Init PROVE StudioIInv  OBVIOUS
  <2>1. part = "player" => Player!PlayerIInv  BY PlayerStarts DEF Init
  <2>2. part = "pictures" => Pictures!VisualsIInv  BY PicturesStart DEF Init
  <2>3. part = "ruler" => Ruler!TimelineIInv  BY RulerStarts DEF Init
  <2>4. part = "overlay" => Overlay!OverlayTypeOK  BY OverlayStarts DEF Init
  <2> QED  BY <2>1, <2>2, <2>3, <2>4 DEF StudioIInv
<1>2. StudioIInv /\ [Next]_vars => StudioIInv'
  <2> SUFFICES ASSUME StudioIInv, [Next]_vars PROVE StudioIInv'  OBVIOUS
  <2>1. part' = part  BY DEF Next, Still, vars
  <2>2. part = "player" => Player!PlayerIInv'
    <3> SUFFICES ASSUME part = "player" PROVE Player!PlayerIInv'  OBVIOUS
    <3>1. [Player!PlayerNext]_<<st, acts>>  BY DEF Next, vars
    <3> QED  BY <3>1, PlayerStep DEF StudioIInv
  <2>3. part = "pictures" => Pictures!VisualsIInv'
    <3> SUFFICES ASSUME part = "pictures" PROVE Pictures!VisualsIInv'  OBVIOUS
    <3>1. [Pictures!VisualsNext]_<<st, acts>>  BY DEF Next, vars
    <3> QED  BY <3>1, VisualsStep DEF StudioIInv
  <2>4. part = "ruler" => Ruler!TimelineIInv'
    <3> SUFFICES ASSUME part = "ruler" PROVE Ruler!TimelineIInv'  OBVIOUS
    <3>1. [Ruler!TimelineNext]_<<st, acts>>  BY DEF Next, vars
    <3> QED  BY <3>1, TimelineStep DEF StudioIInv
  <2>5. part = "overlay" => Overlay!OverlayTypeOK'
    <3> SUFFICES ASSUME part = "overlay" PROVE Overlay!OverlayTypeOK'  OBVIOUS
    <3>1. [Overlay!OverlayNext]_<<st, acts>>  BY DEF Next, vars
    <3> QED  BY <3>1, OverlayStep DEF StudioIInv
  <2> QED  BY <2>1, <2>2, <2>3, <2>4, <2>5 DEF StudioIInv
<1>3. StudioIInv => StudioIsOfOneTrack
  <2> SUFFICES ASSUME StudioIInv PROVE StudioIsOfOneTrack  OBVIOUS
  <2>1. part = "player" =>
          Player!PlayerTypeOK /\ Player!OneEngineAlive /\ Player!ClickHasItsEngine /\ Player!ClickIsThere
    BY DEF StudioIInv, Player!PlayerIInv
  <2>2. part = "pictures" => Pictures!VisualsTypeOK /\ Pictures!PeaksStayOnScreen /\ Pictures!MetersOfTheTrack
    BY DEF StudioIInv, Pictures!VisualsIInv
  <2>3. part = "ruler" => Ruler!TimelineTypeOK /\ Ruler!RulerFitsWidth /\ Ruler!BarLabelsFit
    BY DEF StudioIInv, Ruler!TimelineIInv
  <2> QED  BY <2>1, <2>2, <2>3 DEF StudioIInv, StudioIsOfOneTrack
<1> QED  BY <1>1, <1>2, <1>3, PTL DEF Spec

-----------------------------------------------------------------------------
LEMMA Limits ==
  /\ ButtonActs \in Nat /\ KeyActs \in Nat /\ LoopActs \in Nat /\ MixActs \in Nat
BY EngineConstants DEF Buttons!TransportAssumption, Transposed!KeysAssumption, Loop!LoopAssumption,
                       Mix!MixerAssumption

-----------------------------------------------------------------------------
(* The transport: the invariant as a condition on its record and the number *)
(* of acts so far.                                                          *)
Playable(t, n) ==
  /\ t \in Buttons!TransportRecords /\ n \in 0..ButtonActs
  /\ t.waits[1] + t.waits[2] <= n
  /\ ~t.desktop => ~Buttons!Waits(t)
  /\ Buttons!Waits(t) => t.wanted \/ t.outlived
  /\ t.elPlays => t.track = "elements" /\ (t.engine # "none" => t.unseen)
  /\ t.engPlays => t.engine = "up" /\ ~t.lost
  /\ t.shown \/ t.lost => t.wanted \/ t.track = "elements"
  /\ t.mounting /\ t.shown => t.engine # "none" /\ (t.engPlays \/ t.lost)
  /\ t.track # "elements" /\ t.wanted => t.engPlays \/ t.lost
  /\ t.engine = "none" => (t.track = "engine" => t.mounting) /\ (t.lost => t.track # "elements")
  /\ t.counting => t.engPlays
  /\ t.shown => t.engPlays \/ t.elPlays \/ t.lost
  /\ t.engPlays \/ t.elPlays => t.shown \/ t.unseen
  /\ t.engPlays \/ t.elPlays => t.wanted \/ t.unseen \/ t.outlived
  /\ t.wanted => t.engPlays \/ t.elPlays \/ Buttons!Waits(t) \/ t.lost

LEMMA PlayableIsEnough == Playable(st, acts) <=> Buttons!TransportIInv
BY DEF Playable, Buttons!TransportIInv, Buttons!TransportTypeOK, Buttons!WaitsWereAsked, Buttons!DesktopWaits,
       Buttons!WaitsAreWanted, Buttons!PartsPlay, Buttons!CountEndsWithPlay, Buttons!ButtonTells,
       Buttons!PlaysWhenAsked, Buttons!Sounds

LEMMA TransportStarts ==
  ASSUME Buttons!TransportInit
  PROVE  Buttons!TransportIInv
<1>1. PICK desktop \in BOOLEAN :
        st = [desktop |-> desktop, track |-> "none", mounting |-> FALSE, engine |-> "none",
              engPlays |-> FALSE, elPlays |-> FALSE, buffered |-> FALSE,
              waits |-> [left \in 1..2 |-> 0], shown |-> FALSE, countIn |-> FALSE,
              counting |-> FALSE, loop |-> FALSE,
              wanted |-> FALSE, lost |-> FALSE, unseen |-> FALSE, outlived |-> FALSE]
  BY DEF Buttons!TransportInit
<1>2. [left \in 1..2 |-> 0] \in [1..2 -> 0..ButtonActs]  BY Limits
<1>3. st \in Buttons!TransportRecords  BY <1>1, <1>2 DEF Buttons!TransportRecords
<1>4. acts = 0  BY DEF Buttons!TransportInit
<1>5. st.waits[1] = 0 /\ st.waits[2] = 0  BY <1>1
<1> QED  BY <1>1, <1>3, <1>4, <1>5, Limits, PlayableIsEnough DEF Playable, Buttons!Waits

LEMMA OneWaitChanged ==
  ASSUME NEW w \in [1..2 -> 0..ButtonActs], NEW i \in 1..2, NEW n \in 0..ButtonActs
  PROVE  /\ [w EXCEPT ![i] = n] \in [1..2 -> 0..ButtonActs]
         /\ [w EXCEPT ![i] = n][i] = n
         /\ \A j \in 1..2 : j # i => [w EXCEPT ![i] = n][j] = w[j]
OBVIOUS

LEMMA TransportFields ==
  ASSUME NEW t \in Buttons!TransportRecords
  PROVE  /\ t.desktop \in BOOLEAN /\ t.track \in {"none", "engine", "elements"} /\ t.mounting \in BOOLEAN
         /\ t.engine \in {"none", "deaf", "up"} /\ t.engPlays \in BOOLEAN /\ t.elPlays \in BOOLEAN
         /\ t.buffered \in BOOLEAN /\ t.shown \in BOOLEAN /\ t.countIn \in BOOLEAN /\ t.counting \in BOOLEAN
         /\ t.loop \in BOOLEAN /\ t.wanted \in BOOLEAN /\ t.lost \in BOOLEAN /\ t.unseen \in BOOLEAN
         /\ t.outlived \in BOOLEAN /\ t.waits \in [1..2 -> 0..ButtonActs]
         /\ t.waits[1] \in Nat /\ t.waits[2] \in Nat
BY Limits DEF Buttons!TransportRecords

LEMMA WaitsIsBoolean == \A t : Buttons!Waits(t) \in BOOLEAN
BY DEF Buttons!Waits

(* What each of the operators changes.                                      *)
LEMMA SetTimeIs ==
  ASSUME NEW t \in Buttons!TransportRecords
  PROVE  LET u == Buttons!setTime(t)
         IN
            /\ u \in Buttons!TransportRecords /\ u.desktop = t.desktop /\ u.track = t.track
            /\ u.mounting = t.mounting /\ u.engine = t.engine /\ u.engPlays = t.engPlays
            /\ u.elPlays = t.elPlays /\ u.waits = t.waits /\ u.shown = t.shown /\ u.countIn = t.countIn
            /\ u.counting = t.counting /\ u.loop = t.loop /\ u.wanted = t.wanted /\ u.lost = t.lost
            /\ u.unseen = t.unseen /\ u.outlived = t.outlived
<1> DEFINE u == Buttons!setTime(t)
<1>1. (~t.desktop) \in BOOLEAN  OBVIOUS
<1>2. u = t \/ u = [t EXCEPT !.buffered = ~t.desktop]  BY DEF Buttons!setTime
<1> QED  BY <1>1, <1>2 DEF Buttons!TransportRecords

LEMMA PausedIs ==
  ASSUME NEW t \in Buttons!TransportRecords
  PROVE  LET u == Buttons!paused(t)
         IN
            /\ u \in Buttons!TransportRecords /\ u.desktop = t.desktop /\ u.track = t.track
            /\ u.mounting = t.mounting /\ u.engine = t.engine /\ u.engPlays = FALSE
            /\ u.elPlays = (t.elPlays /\ t.engine # "none") /\ u.buffered = t.buffered /\ u.waits = t.waits
            /\ u.shown = FALSE /\ u.countIn = t.countIn /\ u.counting = FALSE /\ u.loop = t.loop
            /\ u.wanted = FALSE /\ u.lost = FALSE /\ u.unseen = (t.elPlays /\ t.engine # "none")
            /\ u.outlived = Buttons!Waits(t)
<1> DEFINE u == Buttons!paused(t)
<1> DEFINE p == t.elPlays /\ t.engine # "none"
           q == Buttons!Waits(t)
<1>1. p \in BOOLEAN /\ q \in BOOLEAN  BY WaitsIsBoolean
<1> DEFINE a == [t EXCEPT !.engPlays = FALSE, !.elPlays = p, !.shown = FALSE, !.counting = FALSE]
           c == [a EXCEPT !.wanted = FALSE, !.lost = FALSE, !.unseen = p]
           b == [c EXCEPT !.outlived = q]
<1>2. u = b  BY DEF Buttons!paused
<1> HIDE DEF p, q
<1>3.
    /\ a \in Buttons!TransportRecords /\ a.desktop = t.desktop /\ a.track = t.track /\ a.mounting = t.mounting
    /\ a.engine = t.engine /\ a.engPlays = FALSE /\ a.elPlays = p /\ a.buffered = t.buffered
    /\ a.waits = t.waits /\ a.shown = FALSE /\ a.countIn = t.countIn /\ a.counting = FALSE /\ a.loop = t.loop
    /\ a.wanted = t.wanted /\ a.lost = t.lost /\ a.unseen = t.unseen /\ a.outlived = t.outlived
  BY <1>1 DEF Buttons!TransportRecords
<1> HIDE DEF a
<1>c.
    /\ c \in Buttons!TransportRecords /\ c.desktop = t.desktop /\ c.track = t.track /\ c.mounting = t.mounting
    /\ c.engine = t.engine /\ c.engPlays = FALSE /\ c.elPlays = p /\ c.buffered = t.buffered
    /\ c.waits = t.waits /\ c.shown = FALSE /\ c.countIn = t.countIn /\ c.counting = FALSE /\ c.loop = t.loop
    /\ c.wanted = FALSE /\ c.lost = FALSE /\ c.unseen = p /\ c.outlived = t.outlived
  BY <1>1, <1>3 DEF Buttons!TransportRecords
<1> HIDE DEF c
<1>4.
    /\ b \in Buttons!TransportRecords /\ b.desktop = t.desktop /\ b.track = t.track /\ b.mounting = t.mounting
    /\ b.engine = t.engine /\ b.engPlays = FALSE /\ b.elPlays = p /\ b.buffered = t.buffered
    /\ b.waits = t.waits /\ b.shown = FALSE /\ b.countIn = t.countIn /\ b.counting = FALSE /\ b.loop = t.loop
    /\ b.wanted = FALSE /\ b.lost = FALSE /\ b.unseen = p /\ b.outlived = q
  BY <1>1, <1>c DEF Buttons!TransportRecords
<1> HIDE DEF b
<1> QED  BY <1>2, <1>4 DEF p, q

LEMMA ElementsPlayIs ==
  ASSUME NEW t \in Buttons!TransportRecords, t.track = "elements"
  PROVE  LET u == Buttons!elementsPlay(t)
         IN
            /\ u \in Buttons!TransportRecords /\ u.desktop = t.desktop /\ u.track = t.track
            /\ u.mounting = t.mounting /\ u.engine = t.engine /\ u.engPlays = t.engPlays /\ u.elPlays = TRUE
            /\ u.buffered = t.buffered /\ u.waits = t.waits /\ u.shown = (t.shown \/ ~t.mounting)
            /\ u.countIn = t.countIn /\ u.counting = t.counting /\ u.loop = t.loop /\ u.wanted = t.wanted
            /\ u.lost = t.lost /\ u.unseen = (t.unseen \/ t.mounting \/ t.engine # "none")
            /\ u.outlived = t.outlived
<1> DEFINE u == Buttons!elementsPlay(t)
<1> DEFINE p == t.shown \/ ~t.mounting
           q == t.unseen \/ t.mounting \/ t.engine # "none"
<1>1. p \in BOOLEAN /\ q \in BOOLEAN  OBVIOUS
<1> DEFINE a == [t EXCEPT !.elPlays = TRUE, !.shown = p, !.unseen = q]
<1>2. u = a  BY DEF Buttons!elementsPlay
<1> HIDE DEF p, q
<1>3.
    /\ a \in Buttons!TransportRecords /\ a.desktop = t.desktop /\ a.track = t.track /\ a.mounting = t.mounting
    /\ a.engine = t.engine /\ a.engPlays = t.engPlays /\ a.elPlays = TRUE /\ a.buffered = t.buffered
    /\ a.waits = t.waits /\ a.shown = p /\ a.countIn = t.countIn /\ a.counting = t.counting /\ a.loop = t.loop
    /\ a.wanted = t.wanted /\ a.lost = t.lost /\ a.unseen = q /\ a.outlived = t.outlived
  BY <1>1 DEF Buttons!TransportRecords
<1> HIDE DEF a
<1> QED  BY <1>2, <1>3 DEF p, q

LEMMA StartEngineIs ==
  ASSUME NEW t \in Buttons!TransportRecords, NEW arms \in BOOLEAN
  PROVE  LET u == Buttons!startEngine(t, arms)
         IN
            /\ u \in Buttons!TransportRecords /\ u.desktop = t.desktop /\ u.track = t.track
            /\ u.mounting = t.mounting /\ u.engine = t.engine /\ u.engPlays = (t.engine = "up")
            /\ u.elPlays = t.elPlays /\ u.buffered = t.buffered /\ u.waits = t.waits /\ u.shown = TRUE
            /\ u.countIn = t.countIn /\ u.counting = (arms /\ t.engine = "up") /\ u.loop = t.loop
            /\ u.wanted = t.wanted /\ u.lost = (t.engine # "up") /\ u.unseen = t.unseen
            /\ u.outlived = t.outlived
<1> DEFINE u == Buttons!startEngine(t, arms)
<1> DEFINE p == t.engine = "up"
           q == arms /\ t.engine = "up"
           r == t.engine # "up"
<1>1. p \in BOOLEAN /\ q \in BOOLEAN /\ r \in BOOLEAN  OBVIOUS
<1> DEFINE a == [t EXCEPT !.engPlays = p, !.counting = q, !.shown = TRUE, !.lost = r]
<1>2. u = a  BY DEF Buttons!startEngine
<1> HIDE DEF p, q, r
<1>3.
    /\ a \in Buttons!TransportRecords /\ a.desktop = t.desktop /\ a.track = t.track /\ a.mounting = t.mounting
    /\ a.engine = t.engine /\ a.engPlays = p /\ a.elPlays = t.elPlays /\ a.buffered = t.buffered
    /\ a.waits = t.waits /\ a.shown = TRUE /\ a.countIn = t.countIn /\ a.counting = q /\ a.loop = t.loop
    /\ a.wanted = t.wanted /\ a.lost = r /\ a.unseen = t.unseen /\ a.outlived = t.outlived
  BY <1>1 DEF Buttons!TransportRecords
<1> HIDE DEF a
<1> QED  BY <1>2, <1>3 DEF p, q, r

LEMMA OpenedIs ==
  ASSUME NEW t \in Buttons!TransportRecords, NEW track \in {"engine", "elements"}
  PROVE  LET u == Buttons!opened(t, track)
         IN
            /\ u \in Buttons!TransportRecords /\ u.desktop = t.desktop /\ u.track = track /\ u.mounting = TRUE
            /\ u.engine = t.engine /\ u.engPlays = t.engPlays /\ u.elPlays = FALSE /\ u.buffered = (~t.desktop)
            /\ u.waits = t.waits /\ u.shown = FALSE /\ u.countIn = t.countIn /\ u.counting = t.counting
            /\ u.loop = FALSE /\ u.wanted = FALSE /\ u.lost = FALSE /\ u.unseen = t.engPlays
            /\ u.outlived = Buttons!Waits(t)
<1> DEFINE u == Buttons!opened(t, track)
<1> DEFINE p == ~t.desktop
           q == Buttons!Waits(t)
<1>1. p \in BOOLEAN /\ q \in BOOLEAN  BY WaitsIsBoolean
<1> DEFINE a == [t EXCEPT !.track = track, !.mounting = TRUE, !.elPlays = FALSE, !.buffered = p]
           b == [a EXCEPT !.shown = FALSE, !.loop = FALSE, !.wanted = FALSE, !.lost = FALSE]
           c == [b EXCEPT !.unseen = t.engPlays, !.outlived = q]
<1>2. u = c  BY DEF Buttons!opened
<1> HIDE DEF p, q
<1>3.
    /\ a \in Buttons!TransportRecords /\ a.desktop = t.desktop /\ a.track = track /\ a.mounting = TRUE
    /\ a.engine = t.engine /\ a.engPlays = t.engPlays /\ a.elPlays = FALSE /\ a.buffered = p
    /\ a.waits = t.waits /\ a.shown = t.shown /\ a.countIn = t.countIn /\ a.counting = t.counting
    /\ a.loop = t.loop /\ a.wanted = t.wanted /\ a.lost = t.lost /\ a.unseen = t.unseen
    /\ a.outlived = t.outlived
  BY <1>1 DEF Buttons!TransportRecords
<1> HIDE DEF a
<1>4.
    /\ b \in Buttons!TransportRecords /\ b.desktop = t.desktop /\ b.track = track /\ b.mounting = TRUE
    /\ b.engine = t.engine /\ b.engPlays = t.engPlays /\ b.elPlays = FALSE /\ b.buffered = p
    /\ b.waits = t.waits /\ b.shown = FALSE /\ b.countIn = t.countIn /\ b.counting = t.counting
    /\ b.loop = FALSE /\ b.wanted = FALSE /\ b.lost = FALSE /\ b.unseen = t.unseen /\ b.outlived = t.outlived
  BY <1>1, <1>3 DEF Buttons!TransportRecords
<1> HIDE DEF b
<1>5.
    /\ c \in Buttons!TransportRecords /\ c.desktop = t.desktop /\ c.track = track /\ c.mounting = TRUE
    /\ c.engine = t.engine /\ c.engPlays = t.engPlays /\ c.elPlays = FALSE /\ c.buffered = p
    /\ c.waits = t.waits /\ c.shown = FALSE /\ c.countIn = t.countIn /\ c.counting = t.counting
    /\ c.loop = FALSE /\ c.wanted = FALSE /\ c.lost = FALSE /\ c.unseen = t.engPlays /\ c.outlived = q
  BY <1>1, <1>4 DEF Buttons!TransportRecords
<1> HIDE DEF c
<1> QED  BY <1>2, <1>5 DEF p, q

LEMMA ReplacedIs ==
  ASSUME NEW t \in Buttons!TransportRecords, NEW engine \in {"deaf", "up"}
  PROVE  LET u == Buttons!replaced(t, engine)
         IN
            /\ u \in Buttons!TransportRecords /\ u.desktop = t.desktop /\ u.track = t.track
            /\ u.mounting = FALSE /\ u.engine = engine /\ u.engPlays = FALSE /\ u.elPlays = t.elPlays
            /\ u.buffered = t.buffered /\ u.waits = t.waits /\ u.shown = t.shown /\ u.countIn = t.countIn
            /\ u.counting = FALSE /\ u.loop = t.loop /\ u.wanted = t.wanted /\ u.lost = t.wanted
            /\ u.unseen = FALSE /\ u.outlived = t.outlived
<1> DEFINE u == Buttons!replaced(t, engine)
<1> DEFINE p == t.wanted
<1>1. p \in BOOLEAN  BY TransportFields
<1> DEFINE a == [t EXCEPT !.mounting = FALSE, !.engine = engine, !.engPlays = FALSE, !.counting = FALSE]
           b == [a EXCEPT !.lost = p, !.unseen = FALSE]
<1>2. u = b  BY DEF Buttons!replaced
<1> HIDE DEF p
<1>3.
    /\ a \in Buttons!TransportRecords /\ a.desktop = t.desktop /\ a.track = t.track /\ a.mounting = FALSE
    /\ a.engine = engine /\ a.engPlays = FALSE /\ a.elPlays = t.elPlays /\ a.buffered = t.buffered
    /\ a.waits = t.waits /\ a.shown = t.shown /\ a.countIn = t.countIn /\ a.counting = FALSE /\ a.loop = t.loop
    /\ a.wanted = t.wanted /\ a.lost = t.lost /\ a.unseen = t.unseen /\ a.outlived = t.outlived
  BY <1>1 DEF Buttons!TransportRecords
<1> HIDE DEF a
<1>4.
    /\ b \in Buttons!TransportRecords /\ b.desktop = t.desktop /\ b.track = t.track /\ b.mounting = FALSE
    /\ b.engine = engine /\ b.engPlays = FALSE /\ b.elPlays = t.elPlays /\ b.buffered = t.buffered
    /\ b.waits = t.waits /\ b.shown = t.shown /\ b.countIn = t.countIn /\ b.counting = FALSE /\ b.loop = t.loop
    /\ b.wanted = t.wanted /\ b.lost = p /\ b.unseen = FALSE /\ b.outlived = t.outlived
  BY <1>1, <1>3 DEF Buttons!TransportRecords
<1> HIDE DEF b
<1> QED  BY <1>2, <1>4 DEF p

(* Once its conditions on the waits are settled, the rest is about switches. *)
LEMMA PlaysOn ==
  ASSUME NEW t, NEW n, Playable(t, n), NEW u \in Buttons!TransportRecords, NEW k \in 0..ButtonActs,
         k = n \/ k = n + 1, u.desktop = t.desktop, u.waits = t.waits
  PROVE  u.waits[1] + u.waits[2] <= k /\ Buttons!Waits(u) = Buttons!Waits(t) /\ (~u.desktop => ~Buttons!Waits(u))
<1>1. n \in Nat /\ n <= k  BY Limits DEF Playable
<1>2. t.waits[1] \in Nat /\ t.waits[2] \in Nat /\ t.waits[1] + t.waits[2] <= n
  BY TransportFields DEF Playable
<1> QED  BY <1>1, <1>2 DEF Playable, Buttons!Waits

LEMMA TransportStep ==
  ASSUME Buttons!TransportIInv, [Buttons!TransportNext]_<<st, acts>>
  PROVE  Buttons!TransportIInv'
<1>1. Playable(st, acts)  BY PlayableIsEnough
<1>2. Playable(st', acts') => Buttons!TransportIInv'
  <2>1. (Playable(st, acts) => Buttons!TransportIInv)'  BY PlayableIsEnough, PTL
  <2> QED  BY <2>1
<1> SUFFICES Playable(st', acts')  BY <1>2
<1>3. Buttons!Act => acts' = acts + 1 /\ acts' \in 0..ButtonActs
  BY <1>1, Limits DEF Playable, Buttons!Act
<1>4. acts \in 0..ButtonActs /\ st \in Buttons!TransportRecords  BY <1>1 DEF Playable
<1>5. CASE Buttons!Open
  <2>1. PICK track \in {"engine", "elements"} : st' = Buttons!opened(st, track)  BY <1>5 DEF Buttons!Open
  <2>2. acts' = acts + 1 /\ acts' \in 0..ButtonActs  BY <1>3, <1>5 DEF Buttons!Open
  <2>3.
        /\ st' \in Buttons!TransportRecords /\ st'.desktop = st.desktop /\ st'.track = track
        /\ st'.mounting = TRUE /\ st'.engine = st.engine /\ st'.engPlays = st.engPlays /\ st'.elPlays = FALSE
        /\ st'.buffered = (~st.desktop) /\ st'.waits = st.waits /\ st'.shown = FALSE /\ st'.countIn = st.countIn
        /\ st'.counting = st.counting /\ st'.loop = FALSE /\ st'.wanted = FALSE /\ st'.lost = FALSE
        /\ st'.unseen = st.engPlays /\ st'.outlived = Buttons!Waits(st)
    BY <1>4, <2>1, OpenedIs
  <2>4. st'.waits[1] + st'.waits[2] <= acts' /\ Buttons!Waits(st') = Buttons!Waits(st)
       /\ (~st'.desktop => ~Buttons!Waits(st'))
    BY <1>1, <2>2, <2>3, PlaysOn
  <2> QED  BY <1>1, <1>4, <2>2, <2>3, <2>4, TransportFields DEF Playable
<1>6. CASE Buttons!canplay
  <2>1. st.mounting /\ acts' = acts  BY <1>6 DEF Buttons!canplay
  <2>2. CASE st.track = "engine" /\ \E engine \in {"deaf", "up"} : st' = Buttons!replaced(st, engine)
    <3>1. PICK engine \in {"deaf", "up"} : st' = Buttons!replaced(st, engine)  BY <2>2
    <3>2.
          /\ st' \in Buttons!TransportRecords /\ st'.desktop = st.desktop /\ st'.track = st.track
          /\ st'.mounting = FALSE /\ st'.engine = engine /\ st'.engPlays = FALSE /\ st'.elPlays = st.elPlays
          /\ st'.buffered = st.buffered /\ st'.waits = st.waits /\ st'.shown = st.shown
          /\ st'.countIn = st.countIn /\ st'.counting = FALSE /\ st'.loop = st.loop /\ st'.wanted = st.wanted
          /\ st'.lost = st.wanted /\ st'.unseen = FALSE /\ st'.outlived = st.outlived
      BY <1>4, <3>1, ReplacedIs
    <3>3. st'.waits[1] + st'.waits[2] <= acts' /\ Buttons!Waits(st') = Buttons!Waits(st)
       /\ (~st'.desktop => ~Buttons!Waits(st'))
      BY <1>1, <1>4, <2>1, <3>2, PlaysOn
    <3> QED  BY <1>1, <1>4, <2>1, <2>2, <3>2, <3>3, TransportFields DEF Playable
  <2>3. CASE st.track = "elements" /\ st' = [st EXCEPT !.mounting = FALSE, !.counting = FALSE]
    <3>1.
          /\ st' \in Buttons!TransportRecords /\ st'.desktop = st.desktop /\ st'.track = st.track
          /\ st'.mounting = FALSE /\ st'.engine = st.engine /\ st'.engPlays = st.engPlays
          /\ st'.elPlays = st.elPlays /\ st'.buffered = st.buffered /\ st'.waits = st.waits
          /\ st'.shown = st.shown /\ st'.countIn = st.countIn /\ st'.counting = FALSE /\ st'.loop = st.loop
          /\ st'.wanted = st.wanted /\ st'.lost = st.lost /\ st'.unseen = st.unseen
          /\ st'.outlived = st.outlived
      BY <1>4, <2>3 DEF Buttons!TransportRecords
    <3>2. st'.waits[1] + st'.waits[2] <= acts' /\ Buttons!Waits(st') = Buttons!Waits(st)
       /\ (~st'.desktop => ~Buttons!Waits(st'))
      BY <1>1, <1>4, <2>1, <3>1, PlaysOn
    <3> QED  BY <1>1, <1>4, <2>1, <2>3, <3>1, <3>2, TransportFields DEF Playable
  <2> QED  BY <1>6, <2>2, <2>3 DEF Buttons!canplay
<1>7. CASE Buttons!Hears
  <2>1. st' = [st EXCEPT !.engine = "up"] /\ st.engine = "deaf"  BY <1>7 DEF Buttons!Hears
  <2>2. acts' = acts  BY <1>7 DEF Buttons!Hears
  <2>3.
        /\ st' \in Buttons!TransportRecords /\ st'.desktop = st.desktop /\ st'.track = st.track
        /\ st'.mounting = st.mounting /\ st'.engine = "up" /\ st'.engPlays = st.engPlays
        /\ st'.elPlays = st.elPlays /\ st'.buffered = st.buffered /\ st'.waits = st.waits
        /\ st'.shown = st.shown /\ st'.countIn = st.countIn /\ st'.counting = st.counting /\ st'.loop = st.loop
        /\ st'.wanted = st.wanted /\ st'.lost = st.lost /\ st'.unseen = st.unseen /\ st'.outlived = st.outlived
    BY <1>4, <2>1 DEF Buttons!TransportRecords
  <2>4. st'.waits[1] + st'.waits[2] <= acts' /\ Buttons!Waits(st') = Buttons!Waits(st)
       /\ (~st'.desktop => ~Buttons!Waits(st'))
    BY <1>1, <1>4, <2>2, <2>3, PlaysOn
  <2> QED  BY <1>1, <1>4, <2>1, <2>2, <2>3, <2>4, TransportFields DEF Playable
<1>8. CASE Buttons!togglePlayPause
  <2>1. acts' = acts + 1 /\ acts' \in 0..ButtonActs  BY <1>3, <1>8 DEF Buttons!togglePlayPause
  <2>2. CASE Buttons!isPlaying(st)
    <3>1. st' = Buttons!paused(st)  BY <1>8, <2>2 DEF Buttons!togglePlayPause
    <3>2.
          /\ st' \in Buttons!TransportRecords /\ st'.desktop = st.desktop /\ st'.track = st.track
          /\ st'.mounting = st.mounting /\ st'.engine = st.engine /\ st'.engPlays = FALSE
          /\ st'.elPlays = (st.elPlays /\ st.engine # "none") /\ st'.buffered = st.buffered
          /\ st'.waits = st.waits /\ st'.shown = FALSE /\ st'.countIn = st.countIn /\ st'.counting = FALSE
          /\ st'.loop = st.loop /\ st'.wanted = FALSE /\ st'.lost = FALSE
          /\ st'.unseen = (st.elPlays /\ st.engine # "none") /\ st'.outlived = Buttons!Waits(st)
      BY <1>4, <3>1, PausedIs
    <3>3. st'.waits[1] + st'.waits[2] <= acts' /\ Buttons!Waits(st') = Buttons!Waits(st)
       /\ (~st'.desktop => ~Buttons!Waits(st'))
      BY <1>1, <2>1, <3>2, PlaysOn
    <3> QED  BY <1>1, <1>4, <2>1, <3>2, <3>3, TransportFields DEF Playable
  <2>3. CASE ~Buttons!isPlaying(st)
    <3> DEFINE s == IF st.loop THEN Buttons!setTime(st) ELSE st
               t == [s EXCEPT !.wanted = TRUE]
    <3>1. PICK arms \in {FALSE, st.countIn} : st' = Buttons!played(st, arms)
      BY <1>8, <2>3 DEF Buttons!togglePlayPause
    <3>2. arms \in BOOLEAN /\ st.track # "none"  BY <1>4, <1>8, TransportFields DEF Buttons!togglePlayPause
    <3>3. st' = IF t.engine # "none" THEN Buttons!startEngine(t, arms) ELSE Buttons!playWhenReady(t)
      <4>1. s.engine = st.engine /\ t.engine = s.engine
        <5>1. s \in Buttons!TransportRecords /\ s.engine = st.engine  BY <1>4, SetTimeIs
        <5> HIDE DEF s
        <5> QED  BY <5>1 DEF Buttons!TransportRecords
      <4> QED  BY <3>1, <4>1 DEF Buttons!played
    <3>4.
          /\ s \in Buttons!TransportRecords /\ s.desktop = st.desktop /\ s.track = st.track
          /\ s.mounting = st.mounting /\ s.engine = st.engine /\ s.engPlays = st.engPlays
          /\ s.elPlays = st.elPlays /\ s.waits = st.waits /\ s.shown = st.shown /\ s.countIn = st.countIn
          /\ s.counting = st.counting /\ s.loop = st.loop /\ s.wanted = st.wanted /\ s.lost = st.lost
          /\ s.unseen = st.unseen /\ s.outlived = st.outlived
      BY <1>4, SetTimeIs
    <3> HIDE DEF s
    <3>5.
          /\ t \in Buttons!TransportRecords /\ t.desktop = st.desktop /\ t.track = st.track
          /\ t.mounting = st.mounting /\ t.engine = st.engine /\ t.engPlays = st.engPlays
          /\ t.elPlays = st.elPlays /\ t.waits = st.waits /\ t.shown = st.shown /\ t.countIn = st.countIn
          /\ t.counting = st.counting /\ t.loop = st.loop /\ t.wanted = TRUE /\ t.lost = st.lost
          /\ t.unseen = st.unseen /\ t.outlived = st.outlived
      BY <3>4 DEF Buttons!TransportRecords
    <3> HIDE DEF t
    <3>6. ~st.engPlays /\ (st.engine = "none" => ~st.elPlays)
      BY <1>1, <1>4, <2>3, TransportFields DEF Playable, Buttons!isPlaying
    <3>7. CASE t.engine # "none"
      <4>1. st' = Buttons!startEngine(t, arms)  BY <3>3, <3>7
      <4>2.
            /\ st' \in Buttons!TransportRecords /\ st'.desktop = t.desktop /\ st'.track = t.track
            /\ st'.mounting = t.mounting /\ st'.engine = t.engine /\ st'.engPlays = (t.engine = "up")
            /\ st'.elPlays = t.elPlays /\ st'.buffered = t.buffered /\ st'.waits = t.waits /\ st'.shown = TRUE
            /\ st'.countIn = t.countIn /\ st'.counting = (arms /\ t.engine = "up") /\ st'.loop = t.loop
            /\ st'.wanted = t.wanted /\ st'.lost = (t.engine # "up") /\ st'.unseen = t.unseen
            /\ st'.outlived = t.outlived
        BY <3>2, <3>5, <4>1, StartEngineIs
      <4>3. st'.waits = st.waits /\ st'.desktop = st.desktop  BY <3>5, <4>2
      <4>4. st'.waits[1] + st'.waits[2] <= acts' /\ Buttons!Waits(st') = Buttons!Waits(st)
       /\ (~st'.desktop => ~Buttons!Waits(st'))
        BY <1>1, <2>1, <4>2, <4>3, PlaysOn
      <4> QED  BY <1>1, <1>4, <2>1, <3>2, <3>5, <3>6, <3>7, <4>2, <4>4, TransportFields DEF Playable
    <3>8. CASE t.engine = "none" /\ Buttons!ReadyToPlay(t)
      <4> DEFINE l == [t EXCEPT !.lost = t.track # "elements"]
      <4>1. st' = Buttons!elementsPlay(l)  BY <3>3, <3>8 DEF Buttons!playWhenReady
      <4>2. (t.track # "elements") \in BOOLEAN  OBVIOUS
      <4>3.
            /\ l \in Buttons!TransportRecords /\ l.desktop = st.desktop /\ l.track = st.track
            /\ l.mounting = st.mounting /\ l.engine = st.engine /\ l.engPlays = st.engPlays
            /\ l.elPlays = st.elPlays /\ l.waits = st.waits /\ l.shown = st.shown /\ l.countIn = st.countIn
            /\ l.counting = st.counting /\ l.loop = st.loop /\ l.wanted = TRUE
            /\ l.lost = (t.track # "elements") /\ l.unseen = st.unseen /\ l.outlived = st.outlived
        BY <3>5, <4>2 DEF Buttons!TransportRecords
      <4> HIDE DEF l
      <4>4. CASE st.track = "elements"
        <5>1.
              /\ st' \in Buttons!TransportRecords /\ st'.desktop = l.desktop /\ st'.track = l.track
              /\ st'.mounting = l.mounting /\ st'.engine = l.engine /\ st'.engPlays = l.engPlays
              /\ st'.elPlays = TRUE /\ st'.buffered = l.buffered /\ st'.waits = l.waits
              /\ st'.shown = (l.shown \/ ~l.mounting) /\ st'.countIn = l.countIn /\ st'.counting = l.counting
              /\ st'.loop = l.loop /\ st'.wanted = l.wanted /\ st'.lost = l.lost
              /\ st'.unseen = (l.unseen \/ l.mounting \/ l.engine # "none") /\ st'.outlived = l.outlived
          <6>1. l \in Buttons!TransportRecords /\ l.track = "elements"  BY <4>3, <4>4
          <6> QED  BY ONLY <4>1, <6>1, ElementsPlayIs
        <5>2. st'.waits = st.waits /\ st'.desktop = st.desktop  BY <4>3, <5>1
        <5>3. st'.waits[1] + st'.waits[2] <= acts' /\ Buttons!Waits(st') = Buttons!Waits(st)
       /\ (~st'.desktop => ~Buttons!Waits(st'))
          BY <1>1, <2>1, <5>1, <5>2, PlaysOn
        <5> QED
          BY <1>1, <1>4, <2>1, <3>5, <3>6, <3>8, <4>3, <4>4, <5>1, <5>3, TransportFields DEF Playable
      <4>5. CASE st.track # "elements"
        <5>1. st' = l  BY <4>1, <4>3, <4>5 DEF Buttons!elementsPlay
        <5>2. st'.waits[1] + st'.waits[2] <= acts' /\ Buttons!Waits(st') = Buttons!Waits(st)
       /\ (~st'.desktop => ~Buttons!Waits(st'))
          BY <1>1, <2>1, <4>3, <5>1, PlaysOn
        <5> QED
          BY <1>1, <1>4, <2>1, <3>2, <3>5, <3>6, <3>8, <4>3, <4>5, <5>1, <5>2, TransportFields DEF Playable
      <4> QED  BY <4>4, <4>5
    <3>9. CASE t.engine = "none" /\ ~Buttons!ReadyToPlay(t)
      <4> DEFINE w == [st.waits EXCEPT ![2] = st.waits[2] + 1]
      <4>1. st' = [t EXCEPT !.lost = FALSE, !.waits[2] = @ + 1] /\ t.desktop /\ t.track = "elements"
        BY <3>3, <3>9 DEF Buttons!playWhenReady, Buttons!ReadyToPlay
      <4>2. st' = [t EXCEPT !.lost = FALSE, !.waits = w]  BY <3>5, <4>1
      <4>3. w[1] = st.waits[1] /\ w[2] = st.waits[2] + 1 /\ w \in [1..2 -> 0..ButtonActs]
        <5>1. st.waits[1] + st.waits[2] <= acts /\ acts + 1 <= ButtonActs
          BY <1>1, <2>1, Limits DEF Playable
        <5>2. st.waits[1] \in Nat /\ st.waits[2] \in Nat /\ st.waits \in [1..2 -> 0..ButtonActs]
          BY <1>4, TransportFields
        <5>3. st.waits[2] + 1 \in 0..ButtonActs  BY <1>4, <5>1, <5>2, Limits
        <5> QED  BY <5>2, <5>3, OneWaitChanged
      <4> HIDE DEF w
      <4>4.
            /\ st' \in Buttons!TransportRecords /\ st'.desktop = t.desktop /\ st'.track = t.track
            /\ st'.mounting = t.mounting /\ st'.engine = t.engine /\ st'.engPlays = t.engPlays
            /\ st'.elPlays = t.elPlays /\ st'.buffered = t.buffered /\ st'.waits = w /\ st'.shown = t.shown
            /\ st'.countIn = t.countIn /\ st'.counting = t.counting /\ st'.loop = t.loop
            /\ st'.wanted = t.wanted /\ st'.lost = FALSE /\ st'.unseen = t.unseen /\ st'.outlived = t.outlived
        BY <3>5, <4>2, <4>3 DEF Buttons!TransportRecords
      <4>5. st.waits[1] \in Nat /\ st.waits[2] \in Nat /\ st.waits[1] + st.waits[2] <= acts
        BY <1>1, <1>4, TransportFields DEF Playable
      <4>6. st'.waits[1] + st'.waits[2] <= acts' /\ Buttons!Waits(st')
        BY <1>4, <2>1, <4>3, <4>4, <4>5 DEF Buttons!Waits
      <4> QED
        BY <1>1, <1>4, <2>1, <3>5, <3>6, <3>9, <4>1, <4>4, <4>6, TransportFields DEF Playable
    <3> QED  BY <3>7, <3>8, <3>9
  <2> QED  BY <2>2, <2>3
<1>9. CASE Buttons!stopTransport
  <2> DEFINE p == Buttons!paused(st)
  <2>1.
        /\ p \in Buttons!TransportRecords /\ p.desktop = st.desktop /\ p.track = st.track
        /\ p.mounting = st.mounting /\ p.engine = st.engine /\ p.engPlays = FALSE
        /\ p.elPlays = (st.elPlays /\ st.engine # "none") /\ p.buffered = st.buffered /\ p.waits = st.waits
        /\ p.shown = FALSE /\ p.countIn = st.countIn /\ p.counting = FALSE /\ p.loop = st.loop
        /\ p.wanted = FALSE /\ p.lost = FALSE /\ p.unseen = (st.elPlays /\ st.engine # "none")
        /\ p.outlived = Buttons!Waits(st)
    BY <1>4, PausedIs
  <2>2. st' = Buttons!setTime(p)  BY <1>9 DEF Buttons!stopTransport
  <2> HIDE DEF p
  <2>3.
        /\ st' \in Buttons!TransportRecords /\ st'.desktop = p.desktop /\ st'.track = p.track
        /\ st'.mounting = p.mounting /\ st'.engine = p.engine /\ st'.engPlays = p.engPlays
        /\ st'.elPlays = p.elPlays /\ st'.waits = p.waits /\ st'.shown = p.shown /\ st'.countIn = p.countIn
        /\ st'.counting = p.counting /\ st'.loop = p.loop /\ st'.wanted = p.wanted /\ st'.lost = p.lost
        /\ st'.unseen = p.unseen /\ st'.outlived = p.outlived
    BY <2>1, <2>2, SetTimeIs
  <2>4. acts' = acts + 1 /\ acts' \in 0..ButtonActs  BY <1>3, <1>9 DEF Buttons!stopTransport
  <2>5. st'.waits = st.waits /\ st'.desktop = st.desktop  BY <2>1, <2>3
  <2>6. st'.waits[1] + st'.waits[2] <= acts' /\ Buttons!Waits(st') = Buttons!Waits(st)
       /\ (~st'.desktop => ~Buttons!Waits(st'))
    BY <1>1, <2>3, <2>4, <2>5, PlaysOn
  <2> QED  BY <1>1, <1>4, <2>1, <2>3, <2>4, <2>6, TransportFields DEF Playable
<1>10. CASE Buttons!seek
  <2>1. st' = Buttons!setTime(st)  BY <1>10 DEF Buttons!seek
  <2>2. acts' = acts + 1 /\ acts' \in 0..ButtonActs  BY <1>3, <1>10 DEF Buttons!seek
  <2>3.
        /\ st' \in Buttons!TransportRecords /\ st'.desktop = st.desktop /\ st'.track = st.track
        /\ st'.mounting = st.mounting /\ st'.engine = st.engine /\ st'.engPlays = st.engPlays
        /\ st'.elPlays = st.elPlays /\ st'.waits = st.waits /\ st'.shown = st.shown /\ st'.countIn = st.countIn
        /\ st'.counting = st.counting /\ st'.loop = st.loop /\ st'.wanted = st.wanted /\ st'.lost = st.lost
        /\ st'.unseen = st.unseen /\ st'.outlived = st.outlived
    BY <1>4, <2>1, SetTimeIs
  <2>4. st'.waits[1] + st'.waits[2] <= acts' /\ Buttons!Waits(st') = Buttons!Waits(st)
       /\ (~st'.desktop => ~Buttons!Waits(st'))
    BY <1>1, <2>2, <2>3, PlaysOn
  <2> QED  BY <1>1, <1>4, <2>2, <2>3, <2>4, TransportFields DEF Playable
<1>11. CASE Buttons!toggleLoop
  <2>1. st' = [st EXCEPT !.loop = ~st.loop] /\ (~st.loop) \in BOOLEAN  BY <1>11 DEF Buttons!toggleLoop
  <2>2. acts' = acts + 1 /\ acts' \in 0..ButtonActs  BY <1>3, <1>11 DEF Buttons!toggleLoop
  <2>3.
        /\ st' \in Buttons!TransportRecords /\ st'.desktop = st.desktop /\ st'.track = st.track
        /\ st'.mounting = st.mounting /\ st'.engine = st.engine /\ st'.engPlays = st.engPlays
        /\ st'.elPlays = st.elPlays /\ st'.buffered = st.buffered /\ st'.waits = st.waits
        /\ st'.shown = st.shown /\ st'.countIn = st.countIn /\ st'.counting = st.counting /\ st'.loop = ~st.loop
        /\ st'.wanted = st.wanted /\ st'.lost = st.lost /\ st'.unseen = st.unseen /\ st'.outlived = st.outlived
    BY <1>4, <2>1 DEF Buttons!TransportRecords
  <2>4. st'.waits[1] + st'.waits[2] <= acts' /\ Buttons!Waits(st') = Buttons!Waits(st)
       /\ (~st'.desktop => ~Buttons!Waits(st'))
    BY <1>1, <1>4, <2>2, <2>3, PlaysOn
  <2> QED  BY <1>1, <1>4, <2>1, <2>2, <2>3, <2>4, TransportFields DEF Playable
<1>12. CASE Buttons!toggleCountIn
  <2>1. st' = [st EXCEPT !.countIn = ~st.countIn] /\ (~st.countIn) \in BOOLEAN  BY <1>12 DEF Buttons!toggleCountIn
  <2>2. acts' = acts + 1 /\ acts' \in 0..ButtonActs  BY <1>3, <1>12 DEF Buttons!toggleCountIn
  <2>3.
        /\ st' \in Buttons!TransportRecords /\ st'.desktop = st.desktop /\ st'.track = st.track
        /\ st'.mounting = st.mounting /\ st'.engine = st.engine /\ st'.engPlays = st.engPlays
        /\ st'.elPlays = st.elPlays /\ st'.buffered = st.buffered /\ st'.waits = st.waits
        /\ st'.shown = st.shown /\ st'.countIn = ~st.countIn /\ st'.counting = st.counting /\ st'.loop = st.loop
        /\ st'.wanted = st.wanted /\ st'.lost = st.lost /\ st'.unseen = st.unseen /\ st'.outlived = st.outlived
    BY <1>4, <2>1 DEF Buttons!TransportRecords
  <2>4. st'.waits[1] + st'.waits[2] <= acts' /\ Buttons!Waits(st') = Buttons!Waits(st)
       /\ (~st'.desktop => ~Buttons!Waits(st'))
    BY <1>1, <1>4, <2>2, <2>3, PlaysOn
  <2> QED  BY <1>1, <1>4, <2>1, <2>2, <2>3, <2>4, TransportFields DEF Playable
<1>13. CASE Buttons!Buffer
  <2>1. st' = [st EXCEPT !.buffered = TRUE]  BY <1>13 DEF Buttons!Buffer
  <2>2. acts' = acts  BY <1>13 DEF Buttons!Buffer
  <2>3.
        /\ st' \in Buttons!TransportRecords /\ st'.desktop = st.desktop /\ st'.track = st.track
        /\ st'.mounting = st.mounting /\ st'.engine = st.engine /\ st'.engPlays = st.engPlays
        /\ st'.elPlays = st.elPlays /\ st'.buffered = TRUE /\ st'.waits = st.waits /\ st'.shown = st.shown
        /\ st'.countIn = st.countIn /\ st'.counting = st.counting /\ st'.loop = st.loop
        /\ st'.wanted = st.wanted /\ st'.lost = st.lost /\ st'.unseen = st.unseen /\ st'.outlived = st.outlived
    BY <1>4, <2>1 DEF Buttons!TransportRecords
  <2>4. st'.waits[1] + st'.waits[2] <= acts' /\ Buttons!Waits(st') = Buttons!Waits(st)
       /\ (~st'.desktop => ~Buttons!Waits(st'))
    BY <1>1, <1>4, <2>2, <2>3, PlaysOn
  <2> QED  BY <1>1, <1>4, <2>1, <2>2, <2>3, <2>4, TransportFields DEF Playable
<1>14. CASE Buttons!fire
  <2>1. PICK left \in 1..2 :
          /\ st.waits[left] > 0 /\ acts' = acts
          /\ LET q == [st EXCEPT !.waits[left] = @ - 1]
             IN st' = (IF ~st.elPlays THEN Buttons!elementsPlay(q)
                       ELSE IF left = 2 THEN [q EXCEPT !.waits[1] = @ + 1] ELSE q)
    BY <1>14 DEF Buttons!fire
  <2> DEFINE v == [st.waits EXCEPT ![left] = st.waits[left] - 1]
             q == [st EXCEPT !.waits = v]
             w == [v EXCEPT ![1] = v[1] + 1]
  <2>2. /\ st.waits \in [1..2 -> 0..ButtonActs] /\ st.waits[1] \in Nat /\ st.waits[2] \in Nat
        /\ st.waits[1] + st.waits[2] <= acts
    BY <1>1, <1>4, TransportFields DEF Playable
  <2>3. st.desktop /\ Buttons!Waits(st)  BY <1>1, <1>4, <2>1, <2>2, TransportFields DEF Playable, Buttons!Waits
  <2>4. /\ v \in [1..2 -> 0..ButtonActs] /\ v[1] + v[2] = st.waits[1] + st.waits[2] - 1
        /\ v[1] \in Nat /\ v[2] \in Nat
    <3>1. st.waits[left] - 1 \in 0..ButtonActs  BY <2>1, <2>2, Limits
    <3>2. /\ v \in [1..2 -> 0..ButtonActs] /\ v[left] = st.waits[left] - 1
          /\ \A j \in 1..2 : j # left => v[j] = st.waits[j]
      BY <2>2, <3>1, OneWaitChanged
    <3> HIDE DEF v
    <3> QED  BY <2>2, <3>1, <3>2, Limits
  <2>5. st' = IF ~st.elPlays THEN Buttons!elementsPlay(q)
              ELSE IF left = 2 THEN [q EXCEPT !.waits = w] ELSE q
    BY <1>4, <2>1 DEF Buttons!TransportRecords
  <2>6. w \in [1..2 -> 0..ButtonActs] /\ w[1] + w[2] <= acts /\ w[1] > 0
    <3>1. v[1] + 1 \in 0..ButtonActs /\ v[1] + 1 + v[2] <= acts
      BY <1>4, <2>2, <2>4, Limits
    <3>2. w \in [1..2 -> 0..ButtonActs] /\ w[1] = v[1] + 1 /\ w[2] = v[2]
      BY <2>4, <3>1, OneWaitChanged
    <3> QED  BY <2>4, <3>1, <3>2
  <2> HIDE DEF v, w
  <2>7.
        /\ q \in Buttons!TransportRecords /\ q.desktop = st.desktop /\ q.track = st.track
        /\ q.mounting = st.mounting /\ q.engine = st.engine /\ q.engPlays = st.engPlays
        /\ q.elPlays = st.elPlays /\ q.buffered = st.buffered /\ q.waits = v /\ q.shown = st.shown
        /\ q.countIn = st.countIn /\ q.counting = st.counting /\ q.loop = st.loop /\ q.wanted = st.wanted
        /\ q.lost = st.lost /\ q.unseen = st.unseen /\ q.outlived = st.outlived
    BY <1>4, <2>4 DEF Buttons!TransportRecords
  <2> HIDE DEF q
  <2>8. v[1] + v[2] <= acts /\ acts \in 0..ButtonActs  BY <1>4, <2>2, <2>4
  <2>9. Buttons!Waits(q) \in BOOLEAN  BY WaitsIsBoolean
  <2>10. CASE ~st.elPlays /\ st.track = "elements"
    <3>1. st' = Buttons!elementsPlay(q)  BY <2>5, <2>10
    <3>2.
          /\ st' \in Buttons!TransportRecords /\ st'.desktop = q.desktop /\ st'.track = q.track
          /\ st'.mounting = q.mounting /\ st'.engine = q.engine /\ st'.engPlays = q.engPlays
          /\ st'.elPlays = TRUE /\ st'.buffered = q.buffered /\ st'.waits = q.waits
          /\ st'.shown = (q.shown \/ ~q.mounting) /\ st'.countIn = q.countIn /\ st'.counting = q.counting
          /\ st'.loop = q.loop /\ st'.wanted = q.wanted /\ st'.lost = q.lost
          /\ st'.unseen = (q.unseen \/ q.mounting \/ q.engine # "none") /\ st'.outlived = q.outlived
      <4>1. q \in Buttons!TransportRecords /\ q.track = "elements"  BY <2>7, <2>10
      <4> QED  BY ONLY <3>1, <4>1, ElementsPlayIs
    <3>3. Buttons!Waits(st') \in BOOLEAN  BY WaitsIsBoolean
    <3> QED  BY <1>1, <1>4, <2>1, <2>3, <2>7, <2>8, <2>10, <3>2, <3>3, TransportFields DEF Playable
  <2>11. CASE ~st.elPlays /\ st.track # "elements"
    <3>1. st' = q  BY <2>5, <2>7, <2>11 DEF Buttons!elementsPlay
    <3> QED  BY <1>1, <1>4, <2>1, <2>3, <2>7, <2>8, <2>9, <2>11, <3>1, TransportFields DEF Playable
  <2>12. CASE st.elPlays /\ left = 2
    <3>1. st' = [q EXCEPT !.waits = w]  BY <2>5, <2>12
    <3>2.
          /\ st' \in Buttons!TransportRecords /\ st'.desktop = q.desktop /\ st'.track = q.track
          /\ st'.mounting = q.mounting /\ st'.engine = q.engine /\ st'.engPlays = q.engPlays
          /\ st'.elPlays = q.elPlays /\ st'.buffered = q.buffered /\ st'.waits = w /\ st'.shown = q.shown
          /\ st'.countIn = q.countIn /\ st'.counting = q.counting /\ st'.loop = q.loop /\ st'.wanted = q.wanted
          /\ st'.lost = q.lost /\ st'.unseen = q.unseen /\ st'.outlived = q.outlived
      BY <2>6, <2>7, <3>1 DEF Buttons!TransportRecords
    <3>3. Buttons!Waits(st')  BY <2>6, <3>2 DEF Buttons!Waits
    <3> QED  BY <1>1, <1>4, <2>1, <2>3, <2>6, <2>7, <2>8, <2>12, <3>2, <3>3, TransportFields DEF Playable
  <2>13. CASE st.elPlays /\ left # 2
    <3>1. st' = q  BY <2>5, <2>13
    <3> QED  BY <1>1, <1>4, <2>1, <2>3, <2>7, <2>8, <2>9, <2>13, <3>1, TransportFields DEF Playable
  <2> QED  BY <2>10, <2>11, <2>12, <2>13
<1>15. CASE Buttons!Entered
  <2>1. st' = [st EXCEPT !.counting = FALSE]  BY <1>15 DEF Buttons!Entered
  <2>2. acts' = acts  BY <1>15 DEF Buttons!Entered
  <2>3.
        /\ st' \in Buttons!TransportRecords /\ st'.desktop = st.desktop /\ st'.track = st.track
        /\ st'.mounting = st.mounting /\ st'.engine = st.engine /\ st'.engPlays = st.engPlays
        /\ st'.elPlays = st.elPlays /\ st'.buffered = st.buffered /\ st'.waits = st.waits
        /\ st'.shown = st.shown /\ st'.countIn = st.countIn /\ st'.counting = FALSE /\ st'.loop = st.loop
        /\ st'.wanted = st.wanted /\ st'.lost = st.lost /\ st'.unseen = st.unseen /\ st'.outlived = st.outlived
    BY <1>4, <2>1 DEF Buttons!TransportRecords
  <2>4. st'.waits[1] + st'.waits[2] <= acts' /\ Buttons!Waits(st') = Buttons!Waits(st)
       /\ (~st'.desktop => ~Buttons!Waits(st'))
    BY <1>1, <1>4, <2>2, <2>3, PlaysOn
  <2> QED  BY <1>1, <1>4, <2>1, <2>2, <2>3, <2>4, TransportFields DEF Playable
<1>16. CASE Buttons!ended
  <2>1. acts' = acts /\ Buttons!Waits(st) \in BOOLEAN  BY <1>16, WaitsIsBoolean DEF Buttons!ended
  <2>2. CASE /\ st.engPlays /\ ~st.counting /\ ~st.loop
             /\ st' = [st EXCEPT !.engPlays = FALSE, !.shown = FALSE, !.wanted = FALSE,
                                 !.outlived = Buttons!Waits(st)]
    <3> DEFINE r == Buttons!Waits(st)
    <3>1. st' = [st EXCEPT !.engPlays = FALSE, !.shown = FALSE, !.wanted = FALSE, !.outlived = r]
      BY <2>2
    <3>2. r \in BOOLEAN  BY <2>1
    <3> HIDE DEF r
    <3>3.
          /\ st' \in Buttons!TransportRecords /\ st'.desktop = st.desktop /\ st'.track = st.track
          /\ st'.mounting = st.mounting /\ st'.engine = st.engine /\ st'.engPlays = FALSE
          /\ st'.elPlays = st.elPlays /\ st'.buffered = st.buffered /\ st'.waits = st.waits /\ st'.shown = FALSE
          /\ st'.countIn = st.countIn /\ st'.counting = st.counting /\ st'.loop = st.loop /\ st'.wanted = FALSE
          /\ st'.lost = st.lost /\ st'.unseen = st.unseen /\ st'.outlived = r
      BY <1>4, <3>1, <3>2 DEF Buttons!TransportRecords
    <3>4. st'.waits[1] + st'.waits[2] <= acts' /\ Buttons!Waits(st') = Buttons!Waits(st)
       /\ (~st'.desktop => ~Buttons!Waits(st'))
      BY <1>1, <1>4, <2>1, <3>3, PlaysOn
    <3> QED  BY <1>1, <1>4, <2>1, <2>2, <3>3, <3>4, TransportFields DEF Playable, r
  <2>3. CASE /\ st.elPlays /\ (~st.loop \/ st.mounting)
             /\ st' = [st EXCEPT !.elPlays = FALSE, !.shown = @ /\ st.mounting,
                                 !.wanted = @ /\ st.engPlays, !.outlived = @ \/ Buttons!Waits(st)]
    <3> DEFINE r == st.outlived \/ Buttons!Waits(st)
               x == st.shown /\ st.mounting
               y == st.wanted /\ st.engPlays
    <3>1. st' = [st EXCEPT !.elPlays = FALSE, !.shown = x, !.wanted = y, !.outlived = r]  BY <2>3
    <3>2. r \in BOOLEAN /\ x \in BOOLEAN /\ y \in BOOLEAN  OBVIOUS
    <3> HIDE DEF r, x, y
    <3>3.
          /\ st' \in Buttons!TransportRecords /\ st'.desktop = st.desktop /\ st'.track = st.track
          /\ st'.mounting = st.mounting /\ st'.engine = st.engine /\ st'.engPlays = st.engPlays
          /\ st'.elPlays = FALSE /\ st'.buffered = st.buffered /\ st'.waits = st.waits /\ st'.shown = x
          /\ st'.countIn = st.countIn /\ st'.counting = st.counting /\ st'.loop = st.loop /\ st'.wanted = y
          /\ st'.lost = st.lost /\ st'.unseen = st.unseen /\ st'.outlived = r
      <4> DEFINE a == [st EXCEPT !.elPlays = FALSE, !.shown = x]
      <4>1. st' = [a EXCEPT !.wanted = y, !.outlived = r]  BY ONLY <3>1
      <4>2.
            /\ a \in Buttons!TransportRecords /\ a.desktop = st.desktop /\ a.track = st.track
            /\ a.mounting = st.mounting /\ a.engine = st.engine /\ a.engPlays = st.engPlays /\ a.elPlays = FALSE
            /\ a.buffered = st.buffered /\ a.waits = st.waits /\ a.shown = x /\ a.countIn = st.countIn
            /\ a.counting = st.counting /\ a.loop = st.loop /\ a.wanted = st.wanted /\ a.lost = st.lost
            /\ a.unseen = st.unseen /\ a.outlived = st.outlived
        BY ONLY <1>4, <3>2 DEF Buttons!TransportRecords
      <4> HIDE DEF a
      <4> QED  BY ONLY <3>2, <4>1, <4>2 DEF Buttons!TransportRecords
    <3>4. st'.waits[1] + st'.waits[2] <= acts' /\ Buttons!Waits(st') = Buttons!Waits(st)
       /\ (~st'.desktop => ~Buttons!Waits(st'))
      BY <1>1, <1>4, <2>1, <3>3, PlaysOn
    <3> QED  BY <1>1, <1>4, <2>1, <2>3, <3>3, <3>4, TransportFields DEF Playable, r, x, y
  <2> QED  BY <1>16, <2>2, <2>3 DEF Buttons!ended
<1>17. CASE UNCHANGED <<st, acts>>  BY <1>1, <1>17
<1> QED
  BY <1>5, <1>6, <1>7, <1>8, <1>9, <1>10, <1>11, <1>12, <1>13, <1>14, <1>15, <1>16, <1>17
  DEF Buttons!TransportNext
-----------------------------------------------------------------------------
(* The keys.                                                                *)
InTune(k, n) ==
  /\ k \in Transposed!KeysRecords /\ n \in 0..KeyActs
  /\ k.engine = "up" /\ ~k.loading /\ ~k.late => \A s \in Transposed!Sources : Transposed!Tuned(k, s)
  /\ k.engine \in {"none", "starting"} => ~k.playing /\ k.swaps = {}

LEMMA InTuneIsEnough == InTune(st, acts) <=> Transposed!KeysIInv
BY DEF InTune, Transposed!KeysIInv, Transposed!KeysTypeOK, Transposed!SwapsTune, Transposed!SilentUntilUp

LEMMA KeyBounds ==
  /\ PitchMax \in Nat /\ 0 \in Transposed!Pitches /\ Transposed!Pitches \subseteq Int
  /\ \A s \in Transposed!Sources : LaneOf[s] \in KeyLanes
BY EngineConstants DEF Transposed!KeysAssumption, Transposed!Pitches, Transposed!Sources

LEMMA ClampStays ==
  ASSUME NEW n \in Int
  PROVE  /\ Transposed!clampPitch(n) \in Transposed!Pitches
         /\ n \in Transposed!Pitches => Transposed!clampPitch(n) = n
BY KeyBounds DEF Transposed!clampPitch, Transposed!Pitches

LEMMA EffectiveStays ==
  ASSUME NEW s, NEW n \in Int
  PROVE  Transposed!effectivePitch(s, n) \in Transposed!Pitches
BY ClampStays, KeyBounds DEF Transposed!effectivePitch

(* The engine is told the lanes of LS: the sources of the other lanes were  *)
(* in the key of theirs already.                                            *)
LEMMA Retuned ==
  ASSUME NEW k \in Transposed!KeysRecords, NEW LS \in SUBSET KeyLanes, k.swaps = {},
         k.engine = "up" /\ ~k.loading /\ ~k.late =>
           \A s \in Transposed!Sources : LaneOf[s] \notin LS =>
             k.bus[s] = Transposed!effectivePitch(s, k.keys[LaneOf[s]]),
         k.engine \in {"none", "starting"} => ~k.playing,
         NEW n \in 0..KeyActs
  PROVE  InTune(Transposed!setStemPitch(k, LS), n)
<1> DEFINE to(s) == Transposed!effectivePitch(s, k.keys[LaneOf[s]])
           moved == {s \in Transposed!Sources : LaneOf[s] \in LS /\ k.bus[s] # to(s)}
           u == Transposed!setStemPitch(k, LS)
<1>1. \A s \in Transposed!Sources : to(s) \in Transposed!Pitches
  <2> TAKE s \in Transposed!Sources
  <2>1. k.keys[LaneOf[s]] \in Int  BY KeyBounds DEF Transposed!KeysRecords
  <2> QED  BY <2>1, EffectiveStays
<1>2. CASE k.engine # "up"
  <2>1. u = k  BY <1>2 DEF Transposed!setStemPitch
  <2> QED  BY <1>2, <2>1 DEF InTune
<1>3. CASE k.engine = "up" /\ k.playing
  <2> DEFINE told == {[source |-> s, to |-> to(s)] : s \in moved}
  <2>1. u = [k EXCEPT !.swaps = told]  BY <1>3 DEF Transposed!setStemPitch
  <2>2. told \subseteq [source : Transposed!Sources, to : Transposed!Pitches]  BY <1>1
  <2>3. \A w \in told : w.to = to(w.source)
    <3> TAKE w \in told
    <3>1. PICK s \in moved : w = [source |-> s, to |-> to(s)]  OBVIOUS
    <3> HIDE DEF to
    <3>2. w.source = s /\ w.to = to(s)  BY <3>1
    <3> QED  BY <3>2
  <2>4. \A s \in moved : \E w \in told : w.source = s
    <3> TAKE s \in moved
    <3>1. [source |-> s, to |-> to(s)] \in told  OBVIOUS
    <3> HIDE DEF to
    <3>2. [source |-> s, to |-> to(s)].source = s  OBVIOUS
    <3> HIDE DEF told
    <3> QED  BY <3>1, <3>2
  <2>5. \A s \in Transposed!Sources : s \in moved \/ LaneOf[s] \notin LS \/ k.bus[s] = to(s)  OBVIOUS
  <2>6. k.loading \/ k.late \/ \A s \in Transposed!Sources : LaneOf[s] \notin LS => k.bus[s] = to(s)
    BY <1>3
  <2> HIDE DEF told, moved
  <2>7. /\ u \in Transposed!KeysRecords /\ u.swaps = told /\ u.bus = k.bus /\ u.keys = k.keys
        /\ u.engine = k.engine /\ u.loading = k.loading /\ u.late = k.late
    BY <2>1, <2>2 DEF Transposed!KeysRecords
  <2> HIDE DEF u
  <2>8. ASSUME ~u.loading, ~u.late, NEW s \in Transposed!Sources
        PROVE  Transposed!Tuned(u, s)
    BY <2>3, <2>4, <2>5, <2>6, <2>7, <2>8 DEF Transposed!Tuned
  <2> QED  BY <1>3, <2>7, <2>8 DEF InTune, u
<1>4. CASE k.engine = "up" /\ ~k.playing
  <2> DEFINE bus == [s \in Transposed!Sources |-> IF s \in moved THEN to(s) ELSE k.bus[s]]
  <2>1. u = [k EXCEPT !.bus = bus]  BY <1>4 DEF Transposed!setStemPitch
  <2>2. k.bus \in [Transposed!Sources -> Transposed!Pitches]  BY DEF Transposed!KeysRecords
  <2>3. bus \in [Transposed!Sources -> Transposed!Pitches]  BY <1>1, <2>2
  <2>4. k.loading \/ k.late \/ \A s \in Transposed!Sources : LaneOf[s] \notin LS => k.bus[s] = to(s)
    BY <1>4
  <2>5. k.loading \/ k.late \/ \A s \in Transposed!Sources : bus[s] = to(s)  BY <2>4
  <2> HIDE DEF bus, moved
  <2>6. /\ u \in Transposed!KeysRecords /\ u.swaps = {} /\ u.bus = bus /\ u.keys = k.keys
        /\ u.engine = k.engine /\ u.loading = k.loading /\ u.late = k.late
    BY <2>1, <2>3 DEF Transposed!KeysRecords
  <2> HIDE DEF u
  <2>7. ASSUME ~u.loading, ~u.late, NEW s \in Transposed!Sources
        PROVE  Transposed!Tuned(u, s)
    BY <2>5, <2>6, <2>7 DEF Transposed!Tuned
  <2> QED  BY <1>4, <2>6, <2>7 DEF InTune, u
<1> QED  BY <1>2, <1>3, <1>4

(* The lanes but the drums get new keys.                                    *)
LEMMA LanesMoved ==
  ASSUME NEW k, NEW n, InTune(k, n), k.swaps = {}, NEW to \in [KeyLanes -> Int], NEW m \in 0..KeyActs
  PROVE  InTune(Transposed!setLanePitch(k, to), m)
<1> DEFINE moved == {l \in KeyLanes \ {"drums"} : k.keys[l] # Transposed!clampPitch(to[l])}
           keys == [l \in KeyLanes |-> IF l \in moved THEN Transposed!clampPitch(to[l]) ELSE k.keys[l]]
           a == [k EXCEPT !.keys = keys]
           b == [a EXCEPT !.unsaved = {keys}]
<1>1. k \in Transposed!KeysRecords /\ InTune(k, m)  BY DEF InTune
<1>2. CASE moved = {}
  BY <1>1, <1>2 DEF Transposed!setLanePitch
<1>3. CASE moved # {}
  <2>1. Transposed!setLanePitch(k, to) = Transposed!setStemPitch(b, moved)
    BY <1>3 DEF Transposed!setLanePitch
  <2>2. k.keys \in [KeyLanes -> Transposed!Pitches]  BY <1>1 DEF Transposed!KeysRecords
  <2>3. keys \in [KeyLanes -> Transposed!Pitches]  BY <2>2, ClampStays
  <2>4. \A l \in KeyLanes : l \notin moved => keys[l] = k.keys[l]  OBVIOUS
  <2>5. moved \in SUBSET KeyLanes  OBVIOUS
  <2>6. k.engine = "up" /\ ~k.loading /\ ~k.late =>
          \A s \in Transposed!Sources : k.bus[s] = Transposed!effectivePitch(s, k.keys[LaneOf[s]])
    BY DEF InTune, Transposed!Tuned
  <2> HIDE DEF keys, moved
  <2>7. /\ a \in Transposed!KeysRecords /\ a.keys = keys /\ a.swaps = k.swaps /\ a.bus = k.bus
        /\ a.engine = k.engine /\ a.playing = k.playing /\ a.loading = k.loading /\ a.late = k.late
    BY <1>1, <2>3 DEF Transposed!KeysRecords
  <2> HIDE DEF a
  <2>8. /\ b \in Transposed!KeysRecords /\ b.keys = keys /\ b.swaps = k.swaps /\ b.bus = k.bus
        /\ b.engine = k.engine /\ b.playing = k.playing /\ b.loading = k.loading /\ b.late = k.late
    BY <2>3, <2>7 DEF Transposed!KeysRecords
  <2> HIDE DEF b
  <2>9. \A s \in Transposed!Sources : LaneOf[s] \notin moved => keys[LaneOf[s]] = k.keys[LaneOf[s]]
    BY <2>4, KeyBounds
  <2>10. b.engine = "up" /\ ~b.loading /\ ~b.late =>
           \A s \in Transposed!Sources : LaneOf[s] \notin moved =>
             b.bus[s] = Transposed!effectivePitch(s, b.keys[LaneOf[s]])
    BY <2>6, <2>8, <2>9
  <2>11. b.engine \in {"none", "starting"} => ~b.playing  BY <2>8 DEF InTune
  <2> QED  BY <2>1, <2>5, <2>8, <2>10, <2>11, Retuned
<1> QED  BY <1>2, <1>3

LEMMA KeysStart ==
  ASSUME Transposed!KeysInit
  PROVE  Transposed!KeysIInv
<1>1. /\ Transposed!InKey \in [KeyLanes -> Transposed!Pitches]
      /\ Transposed!Unrouted \in [Transposed!Sources -> Transposed!Pitches]
  BY KeyBounds DEF Transposed!InKey, Transposed!Unrouted
<1>2. st \in Transposed!KeysRecords  BY <1>1, KeyBounds DEF Transposed!KeysInit, Transposed!KeysRecords
<1>3. st.engine = "none" /\ ~st.playing /\ st.swaps = {} /\ acts = 0  BY DEF Transposed!KeysInit
<1> QED  BY <1>2, <1>3, Limits, InTuneIsEnough DEF InTune

LEMMA KeysStep ==
  ASSUME Transposed!KeysIInv, [Transposed!KeysNext]_<<st, acts>>
  PROVE  Transposed!KeysIInv'
<1>1. InTune(st, acts)  BY InTuneIsEnough
<1>2. InTune(st', acts') => Transposed!KeysIInv'
  <2>1. (InTune(st, acts) => Transposed!KeysIInv)'  BY InTuneIsEnough, PTL
  <2> QED  BY <2>1
<1> SUFFICES InTune(st', acts')  BY <1>2
<1>3. Transposed!Act => acts' \in 0..KeyActs  BY <1>1, Limits DEF InTune, Transposed!Act
<1>4. st \in Transposed!KeysRecords  BY <1>1 DEF InTune
<1>5. st.keys \in [KeyLanes -> Int]  BY <1>4, KeyBounds DEF Transposed!KeysRecords
<1>6. CASE Transposed!laneStep
  <2>1. PICK l \in KeyLanes \ {"drums"}, d \in {-1, 1} :
          st' = Transposed!setLanePitch(st, [st.keys EXCEPT ![l] = st.keys[l] + d])
    BY <1>6 DEF Transposed!laneStep
  <2>2. [st.keys EXCEPT ![l] = st.keys[l] + d] \in [KeyLanes -> Int]  BY <1>5
  <2>3. st.swaps = {} /\ acts' \in 0..KeyActs  BY <1>3, <1>6 DEF Transposed!laneStep, Transposed!Click
  <2> QED  BY <1>1, <2>1, <2>2, <2>3, LanesMoved
<1>7. CASE Transposed!applyPitch
  <2>1. PICK d \in {-1, 1} :
          LET clamped == Transposed!clampPitch(st.readout + d)
          IN st' = Transposed!nudgeAllLanePitches([st EXCEPT !.readout = clamped], clamped - st.readout)
    BY <1>7 DEF Transposed!applyPitch
  <2> DEFINE clamped == Transposed!clampPitch(st.readout + d)
             k == [st EXCEPT !.readout = clamped]
             to == [l \in KeyLanes |-> k.keys[l] + (clamped - st.readout)]
  <2>2. st.readout \in Int  BY <1>4, KeyBounds DEF Transposed!KeysRecords
  <2>3. clamped \in Transposed!Pitches /\ clamped \in Int
    <3>1. st.readout + d \in Int  BY <2>2
    <3> QED  BY <3>1, ClampStays, KeyBounds
  <2>4. st' = Transposed!nudgeAllLanePitches(k, clamped - st.readout)  BY <2>1
  <2>5. st.swaps = {} /\ acts' \in 0..KeyActs  BY <1>3, <1>7 DEF Transposed!applyPitch, Transposed!Click
  <2> HIDE DEF clamped
  <2>6. /\ k \in Transposed!KeysRecords /\ k.keys = st.keys /\ k.swaps = st.swaps /\ k.bus = st.bus
        /\ k.engine = st.engine /\ k.playing = st.playing /\ k.loading = st.loading /\ k.late = st.late
    BY <1>4, <2>3 DEF Transposed!KeysRecords
  <2> HIDE DEF k
  <2>7. InTune(k, acts)  BY <1>1, <2>6 DEF InTune, Transposed!Tuned
  <2>8. to \in [KeyLanes -> Int]  BY <1>5, <2>2, <2>3, <2>6
  <2>9. st' = Transposed!setLanePitch(k, to)  BY <2>4 DEF Transposed!nudgeAllLanePitches
  <2> HIDE DEF to
  <2> QED  BY <2>5, <2>6, <2>7, <2>8, <2>9, LanesMoved
<1>8. CASE Transposed!resetAllKeys
  <2> DEFINE k == [st EXCEPT !.readout = 0]
  <2>1. st' = Transposed!setLanePitch(k, Transposed!InKey)
    BY <1>8 DEF Transposed!resetAllKeys, Transposed!resetAllLanePitches
  <2>2. st.swaps = {} /\ acts' \in 0..KeyActs  BY <1>3, <1>8 DEF Transposed!resetAllKeys, Transposed!Click
  <2>3. /\ k \in Transposed!KeysRecords /\ k.keys = st.keys /\ k.swaps = st.swaps /\ k.bus = st.bus
        /\ k.engine = st.engine /\ k.playing = st.playing /\ k.loading = st.loading /\ k.late = st.late
    BY <1>4, KeyBounds DEF Transposed!KeysRecords
  <2> HIDE DEF k
  <2>4. InTune(k, acts)  BY <1>1, <2>3 DEF InTune, Transposed!Tuned
  <2>5. Transposed!InKey \in [KeyLanes -> Int]  BY DEF Transposed!InKey
  <2> QED  BY <2>1, <2>2, <2>3, <2>4, <2>5, LanesMoved
<1>9. CASE Transposed!togglePlay
  <2>1. /\ st' = [st EXCEPT !.playing = ~st.playing] /\ (~st.playing) \in BOOLEAN
        /\ st.engine \in {"up", "bare"} /\ acts' \in 0..KeyActs
    BY <1>3, <1>9 DEF Transposed!togglePlay, Transposed!Click
  <2>2. /\ st' \in Transposed!KeysRecords /\ st'.keys = st.keys /\ st'.swaps = st.swaps /\ st'.bus = st.bus
        /\ st'.engine = st.engine /\ st'.loading = st.loading /\ st'.late = st.late
    BY <1>4, <2>1 DEF Transposed!KeysRecords
  <2> QED  BY <1>1, <2>1, <2>2 DEF InTune, Transposed!Tuned
<1>10. CASE Transposed!routeTrack
  <2>1. PICK s \in st.swaps :
          st' = [st EXCEPT !.swaps = @ \ {s}, !.bus[s.source] = s.to] /\ acts' = acts
    BY <1>10 DEF Transposed!routeTrack
  <2> DEFINE left == st.swaps \ {s}
             bus == [st.bus EXCEPT ![s.source] = s.to]
             a == [st EXCEPT !.swaps = left]
  <2>2. st' = [a EXCEPT !.bus = bus]  BY <2>1
  <2>3. /\ st.swaps \in SUBSET [source : Transposed!Sources, to : Transposed!Pitches]
        /\ st.bus \in [Transposed!Sources -> Transposed!Pitches]
    BY <1>4 DEF Transposed!KeysRecords
  <2>4. s.source \in Transposed!Sources /\ s.to \in Transposed!Pitches  BY <2>3
  <2>5. /\ left \in SUBSET [source : Transposed!Sources, to : Transposed!Pitches]
        /\ bus \in [Transposed!Sources -> Transposed!Pitches]
        /\ bus[s.source] = s.to /\ \A x \in Transposed!Sources : x # s.source => bus[x] = st.bus[x]
    BY <2>3, <2>4
  <2>6. /\ \A w \in left : w \in st.swaps
        /\ \A w \in st.swaps : w.source # s.source => w \in left
    OBVIOUS
  <2> HIDE DEF left, bus
  <2>7. /\ a \in Transposed!KeysRecords /\ a.swaps = left /\ a.keys = st.keys
        /\ a.engine = st.engine /\ a.loading = st.loading /\ a.late = st.late
    BY <1>4, <2>5 DEF Transposed!KeysRecords
  <2> HIDE DEF a
  <2>8. /\ st' \in Transposed!KeysRecords /\ st'.swaps = left /\ st'.bus = bus /\ st'.keys = st.keys
        /\ st'.engine = st.engine /\ st'.loading = st.loading /\ st'.late = st.late
    BY <2>2, <2>5, <2>7 DEF Transposed!KeysRecords
  <2>9. st.engine \notin {"none", "starting"}  BY <1>1, <2>1 DEF InTune
  <2>10. ASSUME st.engine = "up", ~st.loading, ~st.late, NEW x \in Transposed!Sources
         PROVE  Transposed!Tuned(st', x)
    <3> DEFINE e == Transposed!effectivePitch(x, st.keys[LaneOf[x]])
    <3>1. /\ \A w \in st.swaps : w.source = x => w.to = e
          /\ st.bus[x] = e \/ \E w \in st.swaps : w.source = x
      BY <1>1, <2>10 DEF InTune, Transposed!Tuned
    <3> HIDE DEF e
    <3>2. \A w \in left : w.source = x => w.to = e  BY <2>6, <3>1
    <3>3. bus[x] = e \/ \E w \in left : w.source = x
      BY <2>1, <2>5, <2>6, <3>1
    <3> QED  BY <2>8, <3>2, <3>3 DEF Transposed!Tuned, e
  <2> QED  BY <1>1, <2>1, <2>8, <2>9, <2>10 DEF InTune
<1>11. CASE Transposed!Open
  <2>1. /\ st' = [st EXCEPT !.readout = 0, !.available = FALSE, !.steppers = FALSE,
                            !.loading = TRUE, !.late = FALSE, !.engine = "starting",
                            !.playing = FALSE, !.bus = Transposed!Unrouted, !.swaps = {}]
        /\ acts' \in 0..KeyActs
    BY <1>3, <1>11 DEF Transposed!Open
  <2> DEFINE a == [st EXCEPT !.readout = 0, !.available = FALSE]
             b == [a EXCEPT !.steppers = FALSE, !.loading = TRUE]
             c == [b EXCEPT !.late = FALSE, !.engine = "starting"]
             e == [c EXCEPT !.playing = FALSE, !.bus = Transposed!Unrouted]
  <2>2. st' = [e EXCEPT !.swaps = {}]  BY <2>1
  <2>3. Transposed!Unrouted \in [Transposed!Sources -> Transposed!Pitches]  BY KeyBounds DEF Transposed!Unrouted
  <2>4. a \in Transposed!KeysRecords  BY <1>4, KeyBounds DEF Transposed!KeysRecords
  <2> HIDE DEF a
  <2>5. b \in Transposed!KeysRecords /\ b.loading  BY <2>4 DEF Transposed!KeysRecords
  <2> HIDE DEF b
  <2>6. c \in Transposed!KeysRecords /\ c.loading  BY <2>5 DEF Transposed!KeysRecords
  <2> HIDE DEF c
  <2>7. e \in Transposed!KeysRecords /\ e.loading /\ ~e.playing  BY <2>3, <2>6 DEF Transposed!KeysRecords
  <2> HIDE DEF e
  <2>8. st' \in Transposed!KeysRecords /\ st'.loading /\ ~st'.playing /\ st'.swaps = {}
    BY <2>2, <2>7 DEF Transposed!KeysRecords
  <2> QED  BY <2>1, <2>8 DEF InTune
<1>12. CASE Transposed!loadMixIntoState
  <2> DEFINE a == [st EXCEPT !.loading = FALSE]
             b == [a EXCEPT !.keys = st.stored]
             late == st.engine # "starting"
  <2>1. st' = [b EXCEPT !.late = late] /\ late \in BOOLEAN /\ acts' = acts
    BY <1>12 DEF Transposed!loadMixIntoState
  <2>2. st.stored \in [KeyLanes -> Transposed!Pitches]  BY <1>4 DEF Transposed!KeysRecords
  <2>3. /\ a \in Transposed!KeysRecords /\ a.engine = st.engine /\ a.playing = st.playing /\ a.swaps = st.swaps
    BY <1>4 DEF Transposed!KeysRecords
  <2> HIDE DEF a
  <2>4. /\ b \in Transposed!KeysRecords /\ b.engine = st.engine /\ b.playing = st.playing /\ b.swaps = st.swaps
    BY <2>2, <2>3 DEF Transposed!KeysRecords
  <2> HIDE DEF b
  <2>5. late = (st.engine # "starting")  OBVIOUS
  <2> HIDE DEF late
  <2>6. /\ st' \in Transposed!KeysRecords /\ st'.engine = st.engine /\ st'.playing = st.playing
        /\ st'.swaps = st.swaps /\ st'.late = late
    BY <2>1, <2>4 DEF Transposed!KeysRecords
  <2> QED  BY <1>1, <2>1, <2>5, <2>6 DEF InTune
<1>13. CASE Transposed!EngineReady
  <2>1. PICK pitched \in BOOLEAN : st' = Transposed!engineUp(st, pitched) /\ st.engine = "starting" /\ acts' = acts
    BY <1>13 DEF Transposed!EngineReady
  <2> DEFINE up == IF pitched THEN "up" ELSE "bare"
             a == [st EXCEPT !.engine = up]
             b == [a EXCEPT !.available = pitched]
             c == [b EXCEPT !.steppers = pitched]
  <2>2. st' = Transposed!setStemPitch(c, KeyLanes)
    BY <2>1 DEF Transposed!engineUp, Transposed!engineUpUntold, Transposed!setLaneKeysAvailable
  <2>3. up \in {"up", "bare"}  OBVIOUS
  <2>4. ~st.playing /\ st.swaps = {} /\ acts \in 0..KeyActs  BY <1>1, <2>1 DEF InTune
  <2> HIDE DEF up
  <2>5. a \in Transposed!KeysRecords /\ a.playing = st.playing /\ a.swaps = st.swaps /\ a.engine = up
    BY <1>4, <2>3 DEF Transposed!KeysRecords
  <2> HIDE DEF a
  <2>6. b \in Transposed!KeysRecords /\ b.playing = st.playing /\ b.swaps = st.swaps /\ b.engine = up
    BY <2>5 DEF Transposed!KeysRecords
  <2> HIDE DEF b
  <2>7. c \in Transposed!KeysRecords /\ c.playing = st.playing /\ c.swaps = st.swaps /\ c.engine = up
    BY <2>6 DEF Transposed!KeysRecords
  <2> HIDE DEF c
  <2>8. \A s \in Transposed!Sources : LaneOf[s] \in KeyLanes  BY KeyBounds
  <2> QED  BY <2>1, <2>2, <2>3, <2>4, <2>7, <2>8, Retuned
<1>14. CASE Transposed!storeSetDebounced
  <2> DEFINE kept == CHOOSE keys \in st.unsaved : TRUE
             a == [st EXCEPT !.unsaved = {}]
  <2>1. st' = [a EXCEPT !.stored = kept] /\ acts' = acts /\ st.unsaved # {}
    BY <1>14 DEF Transposed!storeSetDebounced
  <2>2. kept \in st.unsaved  BY <2>1
  <2>3. st.unsaved \in SUBSET [KeyLanes -> Transposed!Pitches]  BY <1>4 DEF Transposed!KeysRecords
  <2>4. kept \in [KeyLanes -> Transposed!Pitches]  BY <2>2, <2>3
  <2> HIDE DEF kept
  <2>5. /\ a \in Transposed!KeysRecords /\ a.keys = st.keys /\ a.swaps = st.swaps /\ a.bus = st.bus
        /\ a.engine = st.engine /\ a.playing = st.playing /\ a.loading = st.loading /\ a.late = st.late
    BY <1>4 DEF Transposed!KeysRecords
  <2> HIDE DEF a
  <2>6. /\ st' \in Transposed!KeysRecords /\ st'.keys = st.keys /\ st'.swaps = st.swaps /\ st'.bus = st.bus
        /\ st'.engine = st.engine /\ st'.playing = st.playing /\ st'.loading = st.loading /\ st'.late = st.late
    BY <2>1, <2>4, <2>5 DEF Transposed!KeysRecords
  <2> QED  BY <1>1, <2>1, <2>6 DEF InTune, Transposed!Tuned
<1>15. CASE UNCHANGED <<st, acts>>  BY <1>1, <1>15
<1> QED
  BY <1>6, <1>7, <1>8, <1>9, <1>10, <1>11, <1>12, <1>13, <1>14, <1>15 DEF Transposed!KeysNext

(* Each source that is done fading is in the key its lane shows: the keys   *)
(* of the lanes are in range, so the range changes nothing.                 *)
LEMMA KeysAreHeard ==
  ASSUME Transposed!KeysIInv
  PROVE  Transposed!KeysReachTheEngine
<1> SUFFICES ASSUME st.engine = "up", ~st.loading, ~st.late, st.swaps = {}, NEW s \in Transposed!Sources
             PROVE  st.bus[s] = IF s = "drums" \/ s \in Rendered THEN 0 ELSE st.keys[LaneOf[s]]
  BY DEF Transposed!KeysReachTheEngine
<1>1. InTune(st, acts)  BY InTuneIsEnough
<1>2. st.bus[s] = Transposed!effectivePitch(s, st.keys[LaneOf[s]])  BY <1>1 DEF InTune, Transposed!Tuned
<1>3. st.keys[LaneOf[s]] \in Transposed!Pitches  BY <1>1, KeyBounds DEF InTune, Transposed!KeysRecords
<1> QED  BY <1>2, <1>3, ClampStays, KeyBounds DEF Transposed!effectivePitch
-----------------------------------------------------------------------------
(* The loop: what holds of the bounds on the screen, and of the engine.     *)
HeldAs(duration, loop, drag, foreign, unset) ==
  /\ drag.kind = "draw" /\ ~foreign => drag.from <= duration
  /\ drag.kind \in Loop!Edges \cup {"move"} =>
       /\ drag.fromStart <= drag.grab /\ drag.grab <= drag.fromEnd
       /\ ~foreign => drag.fromEnd <= duration
  /\ duration > 0 /\ ~unset /\ ~foreign =>
       /\ drag.kind # "draw" => loop.end - loop.start >= MinLoop
       /\ drag.kind \in Loop!Edges \cup {"move"} => drag.fromEnd - drag.fromStart >= MinLoop
  /\ ~foreign => 0 <= loop.start /\ loop.start <= loop.end /\ loop.end <= duration
Held(p) == HeldAs(p.duration, p.loop, p.drag, p.foreign, p.unset)
AsShown(p) == p.engine = "up" /\ (p.loop.on \/ p.told.on) => p.told = p.loop
Looped(p, n) == p \in Loop!LoopRecords /\ n \in 0..LoopActs /\ Held(p) /\ AsShown(p)

LEMMA LoopedIsEnough == Looped(st, acts) <=> Loop!LoopIInv
<1>1. Loop!DragsInTrack /\ Loop!LongEnough /\ Loop!LoopInTrack <=> Held(st)
  BY DEF Held, HeldAs, Loop!DragsInTrack, Loop!LongEnough, Loop!LoopInTrack
<1>2. Loop!LongEnough => Loop!LoopIsAudible  BY DEF Loop!LongEnough, Loop!LoopIsAudible
<1>3. AsShown(st) <=> Loop!EngineLoopsAsShown  BY DEF AsShown, Loop!EngineLoopsAsShown
<1> QED  BY <1>1, <1>2, <1>3 DEF Looped, Loop!LoopIInv, Loop!LoopTypeOK

LEMMA LoopLengths ==
  /\ MinLoop \in Nat \ {0} /\ LoopDurations \subseteq Nat /\ Loop!Longest \in Nat /\ 0 \in Loop!Times
  /\ \A d \in LoopDurations \cup {0} : d \in Nat /\ d <= Loop!Longest
  /\ \A d \in LoopDurations : d \div 2 - d \div 4 >= MinLoop
<1>1. \E d \in LoopDurations : \A e \in LoopDurations : e <= d
  BY EngineConstants DEF Loop!LoopAssumption
<1>2. Loop!Longest \in LoopDurations /\ \A e \in LoopDurations : e <= Loop!Longest
  BY <1>1 DEF Loop!Longest
<1> QED  BY <1>2, EngineConstants DEF Loop!LoopAssumption, Loop!Times

LEMMA LoopFields ==
  ASSUME NEW p \in Loop!LoopRecords
  PROVE  /\ p.duration \in LoopDurations \cup {0} /\ p.duration \in Nat /\ p.duration <= Loop!Longest
         /\ p.loop \in Loop!Loops /\ p.drag \in Loop!Drags
         /\ p.loop.on \in BOOLEAN /\ p.loop.start \in Loop!Times /\ p.loop.end \in Loop!Times
BY LoopLengths DEF Loop!LoopRecords, Loop!Loops

LEMMA DragFields ==
  ASSUME NEW d \in Loop!Drags
  PROVE  /\ d.kind \in {"none", "draw", "move"} \cup Loop!Edges
         /\ d.kind = "draw" => d.from \in Loop!Times /\ d.moved \in BOOLEAN
         /\ d.kind \in Loop!Edges \cup {"move"} =>
              d.grab \in Loop!Times /\ d.fromStart \in Loop!Times /\ d.fromEnd \in Loop!Times
<1>1. CASE d = Loop!NoDrag  BY <1>1 DEF Loop!NoDrag, Loop!Edges
<1>2. CASE d \in [kind : {"draw"}, from : Loop!Times, moved : BOOLEAN]  BY <1>2 DEF Loop!Edges
<1>3. CASE d \in [kind : Loop!Edges \cup {"move"}, grab : Loop!Times, fromStart : Loop!Times, fromEnd : Loop!Times]
  BY <1>3 DEF Loop!Edges
<1> QED  BY <1>1, <1>2, <1>3 DEF Loop!Drags

(* Every change that is shown reaches the engine there is.                  *)
LEMMA ShownKeeps ==
  ASSUME NEW p \in Loop!LoopRecords
  PROVE  LET u == Loop!Shown(p)
         IN /\ u \in Loop!LoopRecords /\ u.duration = p.duration /\ u.loop = p.loop /\ u.drag = p.drag
            /\ u.foreign = p.foreign /\ u.unset = p.unset /\ u.engine = p.engine /\ AsShown(u)
<1>1. CASE p.engine = "none"
  BY <1>1 DEF Loop!Shown, AsShown
<1>2. CASE p.engine # "none"
  <2> DEFINE u == [p EXCEPT !.told = p.loop]
  <2>1. Loop!Shown(p) = u  BY <1>2 DEF Loop!Shown
  <2>2. /\ u \in Loop!LoopRecords /\ u.duration = p.duration /\ u.loop = p.loop /\ u.drag = p.drag
        /\ u.foreign = p.foreign /\ u.unset = p.unset /\ u.engine = p.engine /\ u.told = u.loop
    BY LoopFields DEF Loop!LoopRecords
  <2> HIDE DEF u
  <2> QED  BY <2>1, <2>2 DEF AsShown
<1> QED  BY <1>1, <1>2

LEMMA LoopSet ==
  ASSUME NEW p \in Loop!LoopRecords, NEW l \in Loop!Loops
  PROVE  LET u == [p EXCEPT !.loop = l]
         IN /\ u \in Loop!LoopRecords /\ u.duration = p.duration /\ u.loop = l /\ u.drag = p.drag
            /\ u.foreign = p.foreign /\ u.unset = p.unset /\ u.engine = p.engine /\ u.told = p.told
BY DEF Loop!LoopRecords

LEMMA BoundedIs ==
  ASSUME NEW p \in Loop!LoopRecords, NEW start \in Loop!Times, NEW end \in Loop!Times
  PROVE  /\ [on |-> p.loop.on, start |-> start, end |-> end] \in Loop!Loops
         /\ Loop!Bounded(p, start, end) = [p EXCEPT !.loop = [on |-> p.loop.on, start |-> start, end |-> end]]
<1>1. p.loop \in [on : BOOLEAN, start : Loop!Times, end : Loop!Times]  BY LoopFields DEF Loop!Loops
<1> DEFINE l == [p.loop EXCEPT !.start = start]
           m == [l EXCEPT !.end = end]
<1>2. m = [on |-> p.loop.on, start |-> start, end |-> end]
  <2>1. l = [on |-> p.loop.on, start |-> start, end |-> p.loop.end]  BY <1>1
  <2> HIDE DEF l
  <2> QED  BY <2>1
<1>3. Loop!Bounded(p, start, end) = [p EXCEPT !.loop = m]  BY DEF Loop!Bounded, Loop!LoopRecords
<1> HIDE DEF m
<1>4. p.loop.on \in BOOLEAN  BY LoopFields
<1> QED  BY <1>2, <1>3, <1>4 DEF Loop!Loops

(* Where a drag of the region lands: in the track, and as long as it has to *)
(* be, if what it took hold of was.                                         *)
LEMMA DragLands ==
  ASSUME NEW d \in Loop!Drags, d.kind \in Loop!Edges \cup {"move"},
         d.fromStart <= d.grab, d.grab <= d.fromEnd,
         NEW duration \in LoopDurations, NEW t \in 0..duration
  PROVE  LET next == Loop!loopDragResult(d, t, duration)
         IN /\ next.start \in Loop!Times /\ next.end \in Loop!Times
            /\ d.fromEnd <= duration => next.start <= next.end /\ next.end <= duration
            /\ d.fromEnd <= duration /\ d.fromEnd - d.fromStart >= MinLoop => next.end - next.start >= MinLoop
<1>1. /\ d.grab \in Nat /\ d.fromStart \in Nat /\ d.fromEnd \in Nat /\ d.fromEnd <= Loop!Longest
      /\ duration \in Nat /\ duration <= Loop!Longest /\ t \in Nat /\ t <= duration /\ MinLoop \in Nat
  BY DragFields, LoopLengths DEF Loop!Times
<1>2. CASE d.kind = "start"
  <2> DEFINE start == Loop!MaxOf(0, Loop!MinOf(t, d.fromEnd - MinLoop))
  <2>1. Loop!loopDragResult(d, t, duration) = [start |-> start, end |-> d.fromEnd]
    BY <1>2 DEF Loop!loopDragResult
  <2>2. start \in Nat /\ start <= t /\ (start = 0 \/ start <= d.fromEnd - MinLoop)
    BY <1>1 DEF Loop!MaxOf, Loop!MinOf
  <2> HIDE DEF start
  <2> QED  BY <1>1, <2>1, <2>2, LoopLengths DEF Loop!Times
<1>3. CASE d.kind = "end"
  <2> DEFINE end == Loop!MinOf(duration, Loop!MaxOf(t, d.fromStart + MinLoop))
  <2>1. Loop!loopDragResult(d, t, duration) = [start |-> d.fromStart, end |-> end]
    BY <1>3 DEF Loop!loopDragResult
  <2>2. end \in Nat /\ end <= duration /\ (end = duration \/ end >= d.fromStart + MinLoop)
    BY <1>1 DEF Loop!MaxOf, Loop!MinOf
  <2> HIDE DEF end
  <2> QED  BY <1>1, <2>1, <2>2, LoopLengths DEF Loop!Times
<1>4. CASE d.kind = "move"
  <2> DEFINE shift == Loop!MaxOf(-d.fromStart, Loop!MinOf(t - d.grab, duration - d.fromEnd))
  <2>1. Loop!loopDragResult(d, t, duration) = [start |-> d.fromStart + shift, end |-> d.fromEnd + shift]
    BY <1>4 DEF Loop!loopDragResult
  <2>2. /\ shift \in Int /\ shift >= -d.fromStart
        /\ \/ shift = -d.fromStart
           \/ shift <= t - d.grab /\ shift <= duration - d.fromEnd
    BY <1>1 DEF Loop!MaxOf, Loop!MinOf
  <2> HIDE DEF shift
  <2>3. /\ d.fromStart + shift \in Nat /\ d.fromStart + shift <= Loop!Longest
        /\ d.fromEnd + shift \in Nat /\ d.fromEnd + shift <= Loop!Longest
    BY <1>1, <2>2, LoopLengths
  <2> QED  BY <1>1, <2>1, <2>2, <2>3, LoopLengths DEF Loop!Times
<1> QED  BY <1>2, <1>3, <1>4 DEF Loop!Edges

LEMMA LoopStarts ==
  ASSUME Loop!LoopInit
  PROVE  Loop!LoopIInv
<1>1. /\ st = [duration |-> 0, loop |-> Loop!NoLoop, engine |-> "none", told |-> Loop!NoLoop,
              drag |-> Loop!NoDrag, foreign |-> FALSE, unset |-> TRUE]
      /\ acts = 0
  BY DEF Loop!LoopInit
<1>2. Loop!NoLoop \in Loop!Loops /\ Loop!NoDrag \in Loop!Drags
  BY LoopLengths DEF Loop!NoLoop, Loop!Loops, Loop!Drags
<1>3. st \in Loop!LoopRecords  BY <1>1, <1>2 DEF Loop!LoopRecords
<1>4. Held(st) /\ AsShown(st)
  BY <1>1 DEF Held, HeldAs, AsShown, Loop!NoLoop, Loop!NoDrag, Loop!Edges
<1> QED  BY <1>1, <1>3, <1>4, Limits, LoopedIsEnough DEF Looped

(* A change of the loop, the drag and the flag, shown on the screen.        *)
LEMMA ShownIsLooped ==
  ASSUME NEW p \in Loop!LoopRecords, Held(p), NEW n \in 0..LoopActs
  PROVE  Looped(Loop!Shown(p), n)
BY ShownKeeps DEF Looped, Held

(* A field or the wheel makes a loop that is long enough.                   *)
LEMMA LoopCommitted ==
  ASSUME NEW p \in Loop!LoopRecords, Held(p), p.drag.kind = "none", NEW n \in 0..LoopActs,
         NEW start \in Loop!Times, NEW end \in Loop!Times, end - start >= MinLoop,
         ~p.foreign => end <= p.duration
  PROVE  Looped(Loop!Shown([Loop!Looping(p, start, end) EXCEPT !.unset = FALSE]), n)
<1> DEFINE l == [on |-> TRUE, start |-> start, end |-> end]
           a == [p EXCEPT !.loop = l]
           b == [a EXCEPT !.unset = FALSE]
<1>1. [Loop!Looping(p, start, end) EXCEPT !.unset = FALSE] = b  BY DEF Loop!Looping
<1>2. l \in Loop!Loops /\ l.start = start /\ l.end = end  BY DEF Loop!Loops
<1> HIDE DEF l
<1>3. /\ a \in Loop!LoopRecords /\ a.duration = p.duration /\ a.loop = l /\ a.drag = p.drag /\ a.foreign = p.foreign
  BY <1>2, LoopSet
<1> HIDE DEF a
<1>4. /\ b \in Loop!LoopRecords /\ b.duration = p.duration /\ b.loop = l /\ b.drag = p.drag
      /\ b.foreign = p.foreign /\ ~b.unset
  BY <1>3 DEF Loop!LoopRecords
<1> HIDE DEF b
<1>5. start \in Nat /\ end \in Nat /\ start <= end  BY LoopLengths DEF Loop!Times
<1>6. Held(b)  BY <1>2, <1>4, <1>5 DEF Held, HeldAs, Loop!Edges
<1>7. Looped(Loop!Shown(b), n)  BY <1>4, <1>6, ShownIsLooped
<1> QED  BY <1>1, <1>7
LEMMA LoopStep ==
  ASSUME Loop!LoopIInv, [Loop!LoopNext]_<<st, acts>>
  PROVE  Loop!LoopIInv'
<1>1. Looped(st, acts)  BY LoopedIsEnough
<1>2. Looped(st', acts') => Loop!LoopIInv'
  <2>1. (Looped(st, acts) => Loop!LoopIInv)'  BY LoopedIsEnough, PTL
  <2> QED  BY <2>1
<1> SUFFICES Looped(st', acts')  BY <1>2
<1>3. Loop!Act => acts' \in 0..LoopActs  BY <1>1, Limits DEF Looped, Loop!Act
<1>4. st \in Loop!LoopRecords /\ Held(st) /\ AsShown(st) /\ acts \in 0..LoopActs  BY <1>1 DEF Looped
<1>5. /\ st.duration \in Nat /\ st.duration <= Loop!Longest /\ st.loop \in Loop!Loops /\ st.drag \in Loop!Drags
      /\ st.loop.on \in BOOLEAN /\ st.loop.start \in Loop!Times /\ st.loop.end \in Loop!Times
      /\ st.duration \in LoopDurations \cup {0}
  BY <1>4, LoopFields
<1>6. \A t \in 0..st.duration : t \in Loop!Times /\ t \in Nat
  BY <1>5, LoopLengths DEF Loop!Times
<1>7. /\ Loop!NoLoop \in Loop!Loops /\ Loop!NoDrag \in Loop!Drags
      /\ Loop!NoLoop.start = 0 /\ Loop!NoLoop.end = 0
  BY LoopLengths DEF Loop!NoLoop, Loop!Loops, Loop!Drags
<1>8. CASE Loop!Open
  <2>1. PICK d \in LoopDurations :
          st' = [Loop!Shown([st EXCEPT !.duration = d, !.loop = Loop!NoLoop])
                   EXCEPT !.foreign = st.drag.kind # "none", !.unset = TRUE]
    BY <1>8 DEF Loop!Open
  <2> DEFINE f == st.drag.kind # "none"
             a == [st EXCEPT !.duration = d]
             b == [a EXCEPT !.loop = Loop!NoLoop]
             c == Loop!Shown(b)
             e == [c EXCEPT !.foreign = f]
  <2>2. st' = [e EXCEPT !.unset = TRUE] /\ f \in BOOLEAN  BY <2>1
  <2>3. acts' \in 0..LoopActs  BY <1>3, <1>8 DEF Loop!Open
  <2>4. f = (st.drag.kind # "none")  OBVIOUS
  <2> HIDE DEF f
  <2>5. a \in Loop!LoopRecords /\ a.duration = d /\ a.drag = st.drag  BY <1>4 DEF Loop!LoopRecords
  <2> HIDE DEF a
  <2>6. b \in Loop!LoopRecords /\ b.duration = d /\ b.drag = st.drag /\ b.loop = Loop!NoLoop
    BY <1>7, <2>5, LoopSet
  <2> HIDE DEF b
  <2>7. c \in Loop!LoopRecords /\ c.duration = d /\ c.drag = st.drag /\ c.loop = Loop!NoLoop /\ AsShown(c)
    BY <2>6, ShownKeeps
  <2> HIDE DEF c
  <2>8. /\ e \in Loop!LoopRecords /\ e.duration = d /\ e.drag = st.drag /\ e.loop = Loop!NoLoop /\ e.foreign = f
        /\ e.engine = c.engine /\ e.told = c.told
    BY <2>2, <2>7 DEF Loop!LoopRecords
  <2> HIDE DEF e
  <2>9. /\ st' \in Loop!LoopRecords /\ st'.duration = d /\ st'.drag = st.drag /\ st'.loop = Loop!NoLoop
        /\ st'.foreign = f /\ st'.unset /\ st'.engine = c.engine /\ st'.told = c.told
    BY <2>2, <2>8 DEF Loop!LoopRecords
  <2>10. AsShown(st')  BY <2>7, <2>9 DEF AsShown
  <2>11. d \in Nat  BY LoopLengths
  <2>12. ~st'.foreign => st'.drag.kind = "none"  BY <2>4, <2>9
  <2>13. Held(st')
    <3>1. /\ st'.drag.kind \in Loop!Edges \cup {"move"} =>
               st'.drag.fromStart <= st'.drag.grab /\ st'.drag.grab <= st'.drag.fromEnd
          /\ st'.duration \in Nat /\ st'.loop.start = 0 /\ st'.loop.end = 0 /\ st'.unset
      BY <1>4, <1>7, <2>9, <2>11 DEF Held, HeldAs
    <3> QED  BY <2>12, <3>1 DEF Held, HeldAs, Loop!Edges
  <2> QED  BY <2>3, <2>9, <2>10, <2>13 DEF Looped
<1>9. CASE Loop!canplay
  <2> DEFINE f == st.drag.kind # "none"
             l == [on |-> st.loop.on, start |-> st.duration \div 4, end |-> st.duration \div 2]
             a == [st EXCEPT !.loop = l]
             b == [a EXCEPT !.engine = "starting"]
             c == [b EXCEPT !.told = Loop!NoLoop]
             e == [c EXCEPT !.unset = FALSE]
  <2>1. st.duration > 0 /\ acts' = acts  BY <1>9 DEF Loop!canplay
  <2>2. /\ st.duration \div 4 \in Loop!Times /\ st.duration \div 2 \in Loop!Times
        /\ 0 <= st.duration \div 4 /\ st.duration \div 2 <= st.duration
        /\ st.duration \div 2 - st.duration \div 4 >= MinLoop
        /\ st.duration \div 4 <= st.duration \div 2
    <3>1. st.duration \in LoopDurations  BY <1>5, <2>1
    <3>2. st.duration \div 2 - st.duration \div 4 >= MinLoop  BY <3>1, LoopLengths
    <3>3. /\ st.duration \div 4 \in Nat /\ st.duration \div 2 \in Nat
          /\ st.duration \div 4 <= st.duration /\ st.duration \div 2 <= st.duration
      BY <1>5
    <3> QED  BY <1>5, <3>2, <3>3, LoopLengths DEF Loop!Times
  <2>3. /\ l \in Loop!Loops
        /\ Loop!Bounded(st, st.duration \div 4, st.duration \div 2) = a
    BY <1>4, <2>2, BoundedIs
  <2>4. st' = [e EXCEPT !.foreign = f] /\ f \in BOOLEAN  BY <1>9, <2>3 DEF Loop!canplay
  <2>5. l.start = st.duration \div 4 /\ l.end = st.duration \div 2  OBVIOUS
  <2>6. f = (st.drag.kind # "none")  OBVIOUS
  <2> HIDE DEF f, l
  <2>7. a \in Loop!LoopRecords /\ a.duration = st.duration /\ a.drag = st.drag /\ a.loop = l
    BY <1>4, <2>3, LoopSet
  <2> HIDE DEF a
  <2>8. /\ b \in Loop!LoopRecords /\ b.duration = st.duration /\ b.drag = st.drag /\ b.loop = l /\ b.engine = "starting"
    BY <2>7 DEF Loop!LoopRecords
  <2> HIDE DEF b
  <2>9. /\ c \in Loop!LoopRecords /\ c.duration = st.duration /\ c.drag = st.drag /\ c.loop = l /\ c.engine = "starting"
    BY <1>7, <2>8 DEF Loop!LoopRecords
  <2> HIDE DEF c
  <2>10. /\ e \in Loop!LoopRecords /\ e.duration = st.duration /\ e.drag = st.drag /\ e.loop = l /\ e.engine = "starting"
    BY <2>9 DEF Loop!LoopRecords
  <2> HIDE DEF e
  <2>11. /\ st' \in Loop!LoopRecords /\ st'.duration = st.duration /\ st'.drag = st.drag /\ st'.loop = l
         /\ st'.engine = "starting" /\ st'.foreign = f
    BY <2>4, <2>10 DEF Loop!LoopRecords
  <2>12. Held(st')
    BY <1>4, <2>2, <2>5, <2>6, <2>11 DEF Held, HeldAs, Loop!Edges
  <2> QED  BY <1>4, <2>1, <2>11, <2>12 DEF Looped, AsShown
<1>10. CASE Loop!engineReady
  <2> DEFINE a == [st EXCEPT !.engine = "up"]
  <2>1. st' = Loop!Shown(a) /\ acts' = acts  BY <1>10 DEF Loop!engineReady
  <2>2. /\ a \in Loop!LoopRecords /\ a.duration = st.duration /\ a.loop = st.loop /\ a.drag = st.drag
        /\ a.foreign = st.foreign /\ a.unset = st.unset
    BY <1>4 DEF Loop!LoopRecords
  <2> HIDE DEF a
  <2>3. Held(a)  BY <1>4, <2>2 DEF Held
  <2> QED  BY <1>4, <2>1, <2>2, <2>3, ShownIsLooped
<1>11. CASE Loop!destroyPlayer
  <2> DEFINE f == st.drag.kind # "none"
             a == [st EXCEPT !.duration = 0]
             b == [a EXCEPT !.loop = Loop!NoLoop]
             c == [b EXCEPT !.engine = "none"]
             d == [c EXCEPT !.told = Loop!NoLoop]
             e == [d EXCEPT !.foreign = f]
  <2>1. st' = [e EXCEPT !.unset = TRUE] /\ f \in BOOLEAN  BY <1>11 DEF Loop!destroyPlayer
  <2>2. acts' \in 0..LoopActs  BY <1>3, <1>11 DEF Loop!destroyPlayer
  <2>3. f = (st.drag.kind # "none")  OBVIOUS
  <2> HIDE DEF f
  <2>4. a \in Loop!LoopRecords /\ a.duration = 0 /\ a.drag = st.drag  BY <1>4 DEF Loop!LoopRecords
  <2> HIDE DEF a
  <2>5. b \in Loop!LoopRecords /\ b.duration = 0 /\ b.drag = st.drag /\ b.loop = Loop!NoLoop
    BY <1>7, <2>4, LoopSet
  <2> HIDE DEF b
  <2>6. c \in Loop!LoopRecords /\ c.duration = 0 /\ c.drag = st.drag /\ c.loop = Loop!NoLoop /\ c.engine = "none"
    BY <2>5 DEF Loop!LoopRecords
  <2> HIDE DEF c
  <2>7. d \in Loop!LoopRecords /\ d.duration = 0 /\ d.drag = st.drag /\ d.loop = Loop!NoLoop /\ d.engine = "none"
    BY <1>7, <2>6 DEF Loop!LoopRecords
  <2> HIDE DEF d
  <2>8. /\ e \in Loop!LoopRecords /\ e.duration = 0 /\ e.drag = st.drag /\ e.loop = Loop!NoLoop /\ e.engine = "none"
        /\ e.foreign = f
    BY <2>1, <2>7 DEF Loop!LoopRecords
  <2> HIDE DEF e
  <2>9. /\ st' \in Loop!LoopRecords /\ st'.duration = 0 /\ st'.drag = st.drag /\ st'.loop = Loop!NoLoop
        /\ st'.engine = "none" /\ st'.foreign = f
    BY <2>1, <2>8 DEF Loop!LoopRecords
  <2>10. ~st'.foreign => st'.drag.kind = "none"  BY <2>3, <2>9
  <2>11. Held(st')
    <3>1. /\ st'.drag.kind \in Loop!Edges \cup {"move"} =>
               st'.drag.fromStart <= st'.drag.grab /\ st'.drag.grab <= st'.drag.fromEnd
          /\ st'.duration = 0 /\ st'.loop.start = 0 /\ st'.loop.end = 0
      BY <1>4, <1>7, <2>9 DEF Held, HeldAs
    <3> QED  BY <2>10, <3>1 DEF Held, HeldAs, Loop!Edges
  <2> QED  BY <2>2, <2>9, <2>11 DEF Looped, AsShown
<1>12. CASE Loop!startDrag
  <2>1. PICK t \in 0..st.duration :
          st' = Loop!Shown([Loop!Looping(st, t, t)
                  EXCEPT !.drag = [kind |-> "draw", from |-> t, moved |-> FALSE],
                         !.foreign = FALSE, !.unset = FALSE])
    BY <1>12 DEF Loop!startDrag
  <2> DEFINE l == [on |-> TRUE, start |-> t, end |-> t]
             g == [kind |-> "draw", from |-> t, moved |-> FALSE]
             a == [st EXCEPT !.loop = l]
             b == [a EXCEPT !.drag = g]
             c == [b EXCEPT !.foreign = FALSE, !.unset = FALSE]
  <2>2. st' = Loop!Shown(c)  BY <2>1 DEF Loop!Looping
  <2>3. acts' \in 0..LoopActs /\ st.duration > 0  BY <1>3, <1>12 DEF Loop!startDrag, Loop!Free
  <2>4. t \in Nat /\ t <= st.duration /\ t \in Loop!Times  BY <1>5, <1>6
  <2>5. l \in Loop!Loops /\ l.start = t /\ l.end = t  BY <2>4 DEF Loop!Loops
  <2>6. g \in Loop!Drags /\ g.kind = "draw" /\ g.from = t  BY <2>4 DEF Loop!Drags
  <2> HIDE DEF l, g
  <2>7. a \in Loop!LoopRecords /\ a.duration = st.duration /\ a.loop = l  BY <1>4, <2>5, LoopSet
  <2> HIDE DEF a
  <2>8. b \in Loop!LoopRecords /\ b.duration = st.duration /\ b.loop = l /\ b.drag = g
    BY <2>6, <2>7 DEF Loop!LoopRecords
  <2> HIDE DEF b
  <2>9. c \in Loop!LoopRecords /\ c.duration = st.duration /\ c.loop = l /\ c.drag = g
    BY <2>8 DEF Loop!LoopRecords
  <2> HIDE DEF c
  <2>10. Held(c)  BY <2>4, <2>5, <2>6, <2>9 DEF Held, HeldAs, Loop!Edges
  <2> QED  BY <2>2, <2>3, <2>9, <2>10, ShownIsLooped
<1>13. CASE Loop!moveDrag
  <2>1. PICK t \in 0..st.duration :
          st' = Loop!Shown([Loop!Bounded(st, Loop!MinOf(t, st.drag.from), Loop!MaxOf(t, st.drag.from))
                  EXCEPT !.drag.moved = @ \/ t - st.drag.from \notin (1 - MinLoop)..(MinLoop - 1)])
    BY <1>13 DEF Loop!moveDrag
  <2> DEFINE s == Loop!MinOf(t, st.drag.from)
             x == Loop!MaxOf(t, st.drag.from)
             l == [on |-> st.loop.on, start |-> s, end |-> x]
             m == st.drag.moved \/ t - st.drag.from \notin (1 - MinLoop)..(MinLoop - 1)
             g == [st.drag EXCEPT !.moved = m]
             a == [st EXCEPT !.loop = l]
             b == [a EXCEPT !.drag = g]
  <2>2. st.drag.kind = "draw" /\ st.duration > 0 /\ acts' = acts  BY <1>13 DEF Loop!moveDrag
  <2>3. st.drag.from \in Loop!Times /\ st.drag.from \in Nat /\ st.drag.moved \in BOOLEAN
    BY <1>5, <2>2, DragFields, LoopLengths DEF Loop!Times
  <2>4. t \in Nat /\ t <= st.duration /\ t \in Loop!Times  BY <1>5, <1>6
  <2>5. /\ s \in Loop!Times /\ x \in Loop!Times /\ s \in Nat /\ x \in Nat /\ s <= x
        /\ ~st.foreign => x <= st.duration
    BY <1>4, <2>2, <2>3, <2>4 DEF Loop!MinOf, Loop!MaxOf, Held, HeldAs
  <2>6. Loop!Bounded(st, s, x) = a /\ l \in Loop!Loops  BY <1>4, <2>5, BoundedIs
  <2>7. a.drag = st.drag  BY <1>4, <2>6, LoopSet
  <2>8. st' = Loop!Shown(b)
    <3>1. st' = Loop!Shown([a EXCEPT !.drag.moved = @ \/ t - st.drag.from \notin (1 - MinLoop)..(MinLoop - 1)])
      BY <2>1, <2>6
    <3> HIDE DEF a
    <3> QED  BY <2>7, <3>1
  <2>9. m \in BOOLEAN  BY <2>3
  <2>10. l.start = s /\ l.end = x  OBVIOUS
  <2> HIDE DEF m, s, x
  <2>11. st.drag \in [kind : {"draw"}, from : Loop!Times, moved : BOOLEAN]
    BY <1>5, <2>2 DEF Loop!Drags, Loop!NoDrag, Loop!Edges
  <2>12. g \in [kind : {"draw"}, from : Loop!Times, moved : BOOLEAN] /\ g.kind = "draw" /\ g.from = st.drag.from
    BY <2>9, <2>11
  <2> HIDE DEF g, l
  <2>13. /\ a \in Loop!LoopRecords /\ a.duration = st.duration /\ a.loop = l /\ a.foreign = st.foreign /\ a.unset = st.unset
    BY <1>4, <2>6, LoopSet
  <2> HIDE DEF a
  <2>14. g \in Loop!Drags  BY <2>12 DEF Loop!Drags
  <2>15. /\ b \in Loop!LoopRecords /\ b.duration = st.duration /\ b.loop = l /\ b.drag = g
         /\ b.foreign = st.foreign /\ b.unset = st.unset
    BY <2>13, <2>14 DEF Loop!LoopRecords
  <2> HIDE DEF b
  <2>16. ~st.foreign => st.drag.from <= st.duration  BY <1>4, <2>2 DEF Held, HeldAs
  <2>17. Held(b)  BY <2>5, <2>10, <2>12, <2>15, <2>16 DEF Held, HeldAs, Loop!Edges
  <2> QED  BY <1>4, <2>2, <2>8, <2>15, <2>17, ShownIsLooped
<1>14. CASE Loop!finishDrag
  <2> DEFINE clicked == ~st.drag.moved \/ st.loop.end - st.loop.start < MinLoop
             q == [st EXCEPT !.drag = Loop!NoDrag]
  <2>1. /\ st' = (IF clicked THEN Loop!Shown([q EXCEPT !.loop.on = FALSE, !.unset = TRUE]) ELSE q)
        /\ acts' = acts /\ st.drag.kind = "draw"
    BY <1>14 DEF Loop!finishDrag
  <2>2. ~clicked => st.loop.end - st.loop.start >= MinLoop
    BY <1>5, LoopLengths DEF Loop!Times
  <2> HIDE DEF clicked
  <2>3. /\ q \in Loop!LoopRecords /\ q.duration = st.duration /\ q.loop = st.loop /\ q.drag = Loop!NoDrag
        /\ q.foreign = st.foreign /\ q.unset = st.unset /\ q.engine = st.engine /\ q.told = st.told
    BY <1>4, <1>7 DEF Loop!LoopRecords
  <2> HIDE DEF q
  <2>4. CASE clicked
    <3> DEFINE l == [st.loop EXCEPT !.on = FALSE]
               a == [q EXCEPT !.loop = l]
               b == [a EXCEPT !.unset = TRUE]
    <3>1. st' = Loop!Shown(b)  BY <2>1, <2>3, <2>4
    <3>2. l \in Loop!Loops /\ l.start = st.loop.start /\ l.end = st.loop.end  BY <1>5 DEF Loop!Loops
    <3> HIDE DEF l
    <3>3. /\ a \in Loop!LoopRecords /\ a.duration = st.duration /\ a.loop = l /\ a.drag = Loop!NoDrag
          /\ a.foreign = st.foreign
      BY <2>3, <3>2, LoopSet
    <3> HIDE DEF a
    <3>4. /\ b \in Loop!LoopRecords /\ b.duration = st.duration /\ b.loop = l /\ b.drag = Loop!NoDrag
          /\ b.foreign = st.foreign /\ b.unset
      BY <3>3 DEF Loop!LoopRecords
    <3> HIDE DEF b
    <3>5. Held(b)  BY <1>4, <3>2, <3>4 DEF Held, HeldAs, Loop!NoDrag, Loop!Edges
    <3> QED  BY <1>4, <2>1, <3>1, <3>4, <3>5, ShownIsLooped
  <2>5. CASE ~clicked
    <3>1. st' = q  BY <2>1, <2>5
    <3>2. Held(q)  BY <1>4, <2>2, <2>3, <2>5 DEF Held, HeldAs, Loop!NoDrag, Loop!Edges
    <3> QED  BY <1>4, <2>1, <2>3, <3>1, <3>2 DEF Looped, AsShown
  <2> QED  BY <2>4, <2>5
<1>15. CASE Loop!grabRegion
  <2>1. PICK kind \in Loop!Edges \cup {"move"}, t \in st.loop.start..st.loop.end :
          st' = [st EXCEPT !.drag = [kind |-> kind, grab |-> t, fromStart |-> st.loop.start,
                                     fromEnd |-> st.loop.end]]
    BY <1>15 DEF Loop!grabRegion
  <2> DEFINE g == [kind |-> kind, grab |-> t, fromStart |-> st.loop.start, fromEnd |-> st.loop.end]
  <2>2. acts' \in 0..LoopActs /\ st.drag.kind = "none" /\ st.duration > 0
    BY <1>3, <1>15 DEF Loop!grabRegion, Loop!Free
  <2>3. st.loop.start <= t /\ t <= st.loop.end /\ t \in Loop!Times
    BY <1>5, LoopLengths DEF Loop!Times
  <2>4. /\ g \in Loop!Drags /\ g.kind = kind /\ g.grab = t
        /\ g.fromStart = st.loop.start /\ g.fromEnd = st.loop.end
    BY <1>5, <2>3 DEF Loop!Drags
  <2> HIDE DEF g
  <2>5. /\ st' \in Loop!LoopRecords /\ st'.duration = st.duration /\ st'.loop = st.loop /\ st'.drag = g
        /\ st'.foreign = st.foreign /\ st'.unset = st.unset /\ st'.engine = st.engine /\ st'.told = st.told
    BY <1>4, <2>1, <2>4 DEF Loop!LoopRecords, g
  <2>6. Held(st')
    BY <1>4, <2>2, <2>3, <2>4, <2>5 DEF Held, HeldAs, Loop!Edges
  <2> QED  BY <1>4, <2>2, <2>5, <2>6 DEF Looped, AsShown
<1>16. CASE Loop!moveRegion
  <2>1. PICK t \in 0..st.duration :
          LET next == Loop!loopDragResult(st.drag, t, st.duration)
          IN st' = Loop!Shown(Loop!Bounded(st, next.start, next.end)) /\ acts' = acts
    BY <1>16 DEF Loop!moveRegion
  <2> DEFINE next == Loop!loopDragResult(st.drag, t, st.duration)
             l == [on |-> st.loop.on, start |-> next.start, end |-> next.end]
             a == [st EXCEPT !.loop = l]
  <2>2. st.drag.kind \in Loop!Edges \cup {"move"} /\ st.duration > 0  BY <1>16 DEF Loop!moveRegion
  <2>3. /\ st.drag.fromStart <= st.drag.grab /\ st.drag.grab <= st.drag.fromEnd
        /\ ~st.foreign => st.drag.fromEnd <= st.duration
        /\ ~st.unset /\ ~st.foreign => st.drag.fromEnd - st.drag.fromStart >= MinLoop
    BY <1>4, <2>2 DEF Held, HeldAs
  <2>4. st.duration \in LoopDurations  BY <1>5, <2>2
  <2>5. /\ next.start \in Loop!Times /\ next.end \in Loop!Times
        /\ st.drag.fromEnd <= st.duration => next.start <= next.end /\ next.end <= st.duration
        /\ st.drag.fromEnd <= st.duration /\ st.drag.fromEnd - st.drag.fromStart >= MinLoop =>
             next.end - next.start >= MinLoop
    BY <1>5, <2>2, <2>3, <2>4, DragLands
  <2> HIDE DEF next
  <2>6. next.start >= 0  BY <2>5, LoopLengths DEF Loop!Times
  <2>7. st' = Loop!Shown(Loop!Bounded(st, next.start, next.end)) /\ acts' = acts  BY <2>1 DEF next
  <2>8. Loop!Bounded(st, next.start, next.end) = a /\ l \in Loop!Loops  BY <1>4, <2>5, BoundedIs
  <2>9. l.start = next.start /\ l.end = next.end  OBVIOUS
  <2> HIDE DEF l
  <2>10. /\ a \in Loop!LoopRecords /\ a.duration = st.duration /\ a.loop = l /\ a.drag = st.drag
         /\ a.foreign = st.foreign /\ a.unset = st.unset
    BY <1>4, <2>8, LoopSet
  <2> HIDE DEF a
  <2>11. Held(a)
    BY <1>4, <2>2, <2>3, <2>5, <2>6, <2>9, <2>10 DEF Held, HeldAs, Loop!Edges
  <2> QED  BY <1>4, <2>7, <2>8, <2>10, <2>11, ShownIsLooped
<1>17. CASE Loop!finishRegion
  <2>1. /\ st' = [st EXCEPT !.drag = Loop!NoDrag] /\ acts' = acts
        /\ st.drag.kind \in Loop!Edges \cup {"move"}
    BY <1>17 DEF Loop!finishRegion
  <2>2. /\ st' \in Loop!LoopRecords /\ st'.duration = st.duration /\ st'.loop = st.loop /\ st'.drag = Loop!NoDrag
        /\ st'.foreign = st.foreign /\ st'.unset = st.unset /\ st'.engine = st.engine /\ st'.told = st.told
    BY <1>4, <1>7, <2>1 DEF Loop!LoopRecords
  <2>3. Held(st')  BY <1>4, <2>1, <2>2 DEF Held, HeldAs, Loop!NoDrag, Loop!Edges
  <2> QED  BY <1>4, <2>1, <2>2, <2>3 DEF Looped, AsShown
<1>18. ~st.foreign => 0 <= st.loop.start /\ st.loop.end <= st.duration  BY <1>4 DEF Held, HeldAs
<1>19. CASE Loop!commitLoopInput
  <2>1. PICK t \in 0..st.duration :
          \/ /\ st.loop.end - t >= MinLoop
             /\ st' = Loop!Shown([Loop!Looping(st, t, st.loop.end) EXCEPT !.unset = FALSE])
          \/ /\ t - st.loop.start >= MinLoop
             /\ st' = Loop!Shown([Loop!Looping(st, st.loop.start, t) EXCEPT !.unset = FALSE])
    BY <1>19 DEF Loop!commitLoopInput
  <2>2. acts' \in 0..LoopActs /\ st.drag.kind = "none"  BY <1>3, <1>19 DEF Loop!commitLoopInput, Loop!Free
  <2>3. t \in Loop!Times /\ t <= st.duration  BY <1>5, <1>6
  <2> QED  BY <1>4, <1>5, <1>18, <2>1, <2>2, <2>3, LoopCommitted
<1>20. CASE Loop!nudgeLoopInput
  <2>1. PICK d \in {-1, 1} :
          \/ /\ st.loop.start + d \in 0..st.duration /\ st.loop.end - (st.loop.start + d) >= MinLoop
             /\ st' = Loop!Shown([Loop!Looping(st, st.loop.start + d, st.loop.end) EXCEPT !.unset = FALSE])
          \/ /\ st.loop.end + d \in 0..st.duration /\ st.loop.end + d - st.loop.start >= MinLoop
             /\ st' = Loop!Shown([Loop!Looping(st, st.loop.start, st.loop.end + d) EXCEPT !.unset = FALSE])
    BY <1>20 DEF Loop!nudgeLoopInput
  <2>2. acts' \in 0..LoopActs /\ st.drag.kind = "none"  BY <1>3, <1>20 DEF Loop!nudgeLoopInput, Loop!Free
  <2>3. CASE /\ st.loop.start + d \in 0..st.duration /\ st.loop.end - (st.loop.start + d) >= MinLoop
             /\ st' = Loop!Shown([Loop!Looping(st, st.loop.start + d, st.loop.end) EXCEPT !.unset = FALSE])
    <3>1. st.loop.start + d \in Loop!Times  BY <1>6, <2>3
    <3> QED  BY <1>4, <1>5, <1>18, <2>2, <2>3, <3>1, LoopCommitted
  <2>4. CASE /\ st.loop.end + d \in 0..st.duration /\ st.loop.end + d - st.loop.start >= MinLoop
             /\ st' = Loop!Shown([Loop!Looping(st, st.loop.start, st.loop.end + d) EXCEPT !.unset = FALSE])
    <3> DEFINE end == st.loop.end + d
    <3>1. end \in 0..st.duration  BY <2>4
    <3>2. end - st.loop.start >= MinLoop  BY <1>5, <2>4, LoopLengths DEF Loop!Times
    <3>3. st' = Loop!Shown([Loop!Looping(st, st.loop.start, end) EXCEPT !.unset = FALSE])  BY <2>4
    <3> HIDE DEF end
    <3>4. end \in Loop!Times /\ end <= st.duration  BY <1>5, <1>6, <3>1
    <3> QED  BY <1>4, <1>5, <2>2, <3>2, <3>3, <3>4, LoopCommitted
  <2> QED  BY <2>1, <2>3, <2>4
<1>21. CASE Loop!toggleLoop
  <2> DEFINE l == [st.loop EXCEPT !.on = ~st.loop.on]
             a == [st EXCEPT !.loop = l]
  <2>1. st' = Loop!Shown(a) /\ acts' \in 0..LoopActs  BY <1>3, <1>4, <1>21 DEF Loop!toggleLoop
  <2>2. (~st.loop.on) \in BOOLEAN  OBVIOUS
  <2>3. l \in Loop!Loops /\ l.start = st.loop.start /\ l.end = st.loop.end  BY <1>5, <2>2 DEF Loop!Loops
  <2> HIDE DEF l
  <2>4. /\ a \in Loop!LoopRecords /\ a.duration = st.duration /\ a.loop = l /\ a.drag = st.drag
        /\ a.foreign = st.foreign /\ a.unset = st.unset
    BY <1>4, <2>3, LoopSet
  <2> HIDE DEF a
  <2>5. Held(a)  BY <1>4, <2>3, <2>4 DEF Held, HeldAs
  <2> QED  BY <2>1, <2>4, <2>5, ShownIsLooped
<1>22. CASE UNCHANGED <<st, acts>>  BY <1>1, <1>22
<1> QED
  BY <1>8, <1>9, <1>10, <1>11, <1>12, <1>13, <1>14, <1>15, <1>16, <1>17, <1>19, <1>20, <1>21, <1>22
  DEF Loop!LoopNext
-----------------------------------------------------------------------------
(* The mixer: how its lanes are laid out, and what is heard of them.        *)
Visible(job, shown) ==
  job # Mix!None => \E sel \in SUBSET BaseStems : shown = Mix!visible(Raw[job], sel)
OnePending(pending) == \A j \in Jobs : \A s, t \in pending[j] : s = t
Laid(m) ==
  /\ m \in Mix!MixerRecords /\ OnePending(m.pending)
  /\ m.loading => m.job # Mix!None
  /\ Visible(m.job, m.shown) /\ m.shown \subseteq m.trackIndex
Heard(m) ==
  m.engine /\ ~m.loading => \A n \in m.trackIndex : m.gain[n] = Mix!effective(m, n)
Mixed(m, n) == n \in 0..MixActs /\ Laid(m) /\ Heard(m)

LEMMA MixConstants ==
  /\ BaseStems \cap (Mix!Extra \cup {"original"}) = {} /\ Raw \in [Jobs -> SUBSET Mix!AllTrackNames]
  /\ Mix!None \notin Jobs /\ BaseStems \subseteq Mix!AllTrackNames /\ Mix!Extra \subseteq Mix!AllTrackNames
BY EngineConstants DEF Mix!MixerAssumption, Mix!AllTrackNames

LEMMA MixFields ==
  ASSUME NEW m \in Mix!MixerRecords
  PROVE  /\ m.job \in Jobs \cup {Mix!None} /\ m.selected \in SUBSET BaseStems
         /\ m.shown \in SUBSET Mix!AllTrackNames /\ m.trackIndex \in SUBSET Mix!AllTrackNames
         /\ m.state \in Mix!Mixes /\ m.gain \in [Mix!AllTrackNames -> BOOLEAN]
         /\ m.engine \in BOOLEAN /\ m.loading \in BOOLEAN
         /\ m.stored \in [Jobs -> Mix!Mixes] /\ m.pending \in [Jobs -> SUBSET Mix!Mixes]
BY DEF Mix!MixerRecords

LEMMA EntryFields ==
  ASSUME NEW s \in Mix!Mixes, NEW n \in Mix!AllTrackNames
  PROVE  s[n] \in Mix!Entries /\ s[n].muted \in BOOLEAN /\ s[n].soloed \in BOOLEAN /\ s[n].silent \in BOOLEAN
BY DEF Mix!Mixes, Mix!Entries

(* What a choice of stems leaves of a job: the vocals, or both parts of     *)
(* them, and never the one with the other.                                  *)
LEMMA VocalsOrParts ==
  ASSUME NEW raw, NEW sel \in SUBSET BaseStems, NEW shown, shown = Mix!visible(raw, sel)
  PROVE  /\ shown \subseteq raw /\ shown \subseteq BaseStems \cup Mix!Extra \cup {"original"}
         /\ "vocals" \in shown => shown \cap Mix!Extra = {}
         /\ shown \cap Mix!Extra # {} => Mix!Extra \subseteq shown
BY MixConstants DEF Mix!visible, Mix!splitDone, Mix!Extra

(* Every lane that is shown has a row.                                      *)
LEMMA ShownHasRow ==
  ASSUME NEW raw, NEW sel \in SUBSET BaseStems, NEW shown, shown = Mix!visible(raw, sel)
  PROVE  /\ shown \subseteq Mix!applyStemSelectionFilter(shown).rows
         /\ Mix!applyStemSelectionFilter(shown).rows \subseteq Mix!AllTrackNames
<1> DEFINE rows == Mix!effectiveStemOrder(shown) \cup (shown \cap {"original"})
<1>1. Mix!applyStemSelectionFilter(shown).rows = rows  BY DEF Mix!applyStemSelectionFilter
<1>2. rows \subseteq Mix!AllTrackNames
  BY MixConstants DEF Mix!effectiveStemOrder, Mix!AllTrackNames
<1>3. ASSUME NEW n \in shown
      PROVE  n \in rows
  <2>1. CASE Mix!Extra \subseteq shown
    <3>1. n # "vocals"  BY <2>1, VocalsOrParts DEF Mix!Extra
    <3> QED  BY <2>1, <3>1, VocalsOrParts DEF Mix!effectiveStemOrder, Mix!splitDone
  <2>2. CASE ~(Mix!Extra \subseteq shown)
    <3>1. n \notin Mix!Extra  BY <2>2, VocalsOrParts
    <3> QED  BY <2>2, <3>1, VocalsOrParts DEF Mix!effectiveStemOrder, Mix!splitDone
  <2> QED  BY <2>1, <2>2
<1> QED  BY <1>1, <1>2, <1>3

(* What is put together to play: no part of the song twice.                 *)
LEMMA PartsAreApart ==
  ASSUME NEW raw, NEW sel \in SUBSET BaseStems, NEW shown, shown = Mix!visible(raw, sel),
         NEW s \in Mix!buildPlaybackStems(raw, shown), NEW t \in Mix!buildPlaybackStems(raw, shown), s # t
  PROVE  Mix!PartsOf(s.src) \cap Mix!PartsOf(t.src) = {}
<1> DEFINE own == {[src |-> n, lane |-> n] : n \in shown \ {"original"}}
           dedicated == IF Mix!Extra \subseteq shown THEN shown \cup {"vocals"} ELSE shown
           rest == BaseStems \ dedicated
           stems == {[src |-> n, lane |-> "original"] : n \in rest}
           song == {[src |-> "original", lane |-> "original"]}
<1>1. \A x \in Mix!buildPlaybackStems(raw, shown) : x \in own \cup stems \/ x \in own \cup song
  BY DEF Mix!buildPlaybackStems, Mix!Own
<1>2. \/ s \in own \cup stems /\ t \in own \cup stems
      \/ s \in own \cup song /\ t \in own \cup song
  BY DEF Mix!buildPlaybackStems, Mix!Own
<1>3. \A x \in own : x.src \in shown /\ x.src # "original" /\ x.lane = x.src
  OBVIOUS
<1>4. \A x \in stems : x.src \in BaseStems /\ x.src \notin shown /\ x.lane = "original"
                       /\ (Mix!Extra \subseteq shown => x.src # "vocals")
  OBVIOUS
<1>5. \A x \in song : x.src = "original" /\ x.lane = "original"  OBVIOUS
<1>6. \A x, y \in own \cup stems \cup song : x = y \/ x.src # y.src \/ x.lane # y.lane
  OBVIOUS
<1> HIDE DEF own, stems, song
<1>7. s.src # t.src
  BY <1>2, <1>3, <1>4, <1>5, <1>6
<1>8. ASSUME NEW x \in own \cup stems \cup song, NEW y \in own \cup stems \cup song,
             \/ x \in own \cup stems /\ y \in own \cup stems
             \/ x \in own \cup song /\ y \in own \cup song,
             x.src = "vocals"
      PROVE  y.src \notin Mix!Extra
  BY <1>3, <1>4, <1>5, <1>8, VocalsOrParts, MixConstants DEF Mix!Extra
<1>9. CASE s.src = "vocals"
  <2>1. t.src \notin Mix!Extra  BY <1>2, <1>8, <1>9
  <2>2. Mix!PartsOf(s.src) = Mix!Extra  BY <1>9 DEF Mix!PartsOf
  <2>3. Mix!PartsOf(t.src) = {t.src}  BY <1>7, <1>9 DEF Mix!PartsOf
  <2> QED  BY <2>1, <2>2, <2>3
<1>10. CASE t.src = "vocals"
  <2>1. s.src \notin Mix!Extra  BY <1>2, <1>8, <1>10
  <2>2. Mix!PartsOf(t.src) = Mix!Extra  BY <1>10 DEF Mix!PartsOf
  <2>3. Mix!PartsOf(s.src) = {s.src}  BY <1>7, <1>10 DEF Mix!PartsOf
  <2> QED  BY <2>1, <2>2, <2>3
<1>11. CASE s.src # "vocals" /\ t.src # "vocals"
  BY <1>7, <1>11 DEF Mix!PartsOf
<1> QED  BY <1>9, <1>10, <1>11

(* And with the full song on screen, each part once.                        *)
LEMMA NoPartIsLost ==
  ASSUME NEW raw, BaseStems \subseteq raw, NEW shown, "original" \in shown, NEW n \in BaseStems, NEW piece \in Mix!PartsOf(n)
  PROVE  \E s \in Mix!buildPlaybackStems(raw, shown) : piece \in Mix!PartsOf(s.src)
<1> DEFINE own == {[src |-> k, lane |-> k] : k \in shown \ {"original"}}
           dedicated == IF Mix!Extra \subseteq shown THEN shown \cup {"vocals"} ELSE shown
           rest == BaseStems \ dedicated
           stems == {[src |-> k, lane |-> "original"] : k \in rest}
<1>1. own \cup stems \subseteq Mix!buildPlaybackStems(raw, shown)
  BY DEF Mix!buildPlaybackStems, Mix!Own
<1>2. n # "original"  BY MixConstants
<1>3. CASE n \in shown
  <2>1. [src |-> n, lane |-> n] \in own  BY <1>2, <1>3
  <2>2. [src |-> n, lane |-> n].src = n  OBVIOUS
  <2> QED  BY <1>1, <2>1, <2>2
<1>4. CASE n \in rest
  <2>1. [src |-> n, lane |-> "original"] \in stems  BY <1>4
  <2>2. [src |-> n, lane |-> "original"].src = n  OBVIOUS
  <2> QED  BY <1>1, <2>1, <2>2
<1>5. CASE n = "vocals" /\ Mix!Extra \subseteq shown
  <2>1. piece \in Mix!Extra /\ piece # "original"  BY <1>5 DEF Mix!PartsOf, Mix!Extra
  <2>2. [src |-> piece, lane |-> piece] \in own  BY <1>5, <2>1
  <2>3. piece \in Mix!PartsOf(piece)  BY <2>1 DEF Mix!PartsOf, Mix!Extra
  <2>4. [src |-> piece, lane |-> piece].src = piece  OBVIOUS
  <2> QED  BY <1>1, <2>2, <2>3, <2>4
<1> QED  BY <1>3, <1>4, <1>5
LEMMA MixedIsEnough == Mixed(st, acts) <=> Mix!MixerIInv
<1>1. ASSUME Mixed(st, acts)
      PROVE  Mix!MixerIInv
  <2>1. st \in Mix!MixerRecords /\ acts \in 0..MixActs /\ Laid(st) /\ Heard(st)  BY <1>1 DEF Mixed, Laid
  <2>2. /\ Mix!OneIsPending /\ Mix!NoneLoads /\ Mix!ShownIsVisible /\ Mix!ShownIsMounted
    BY <2>1 DEF Laid, OnePending, Visible, Mix!OneIsPending, Mix!NoneLoads, Mix!ShownIsVisible, Mix!ShownIsMounted
  <2>3. Mix!GainsFollowSwitches  BY <2>1 DEF Heard, Mix!GainsFollowSwitches
  <2>4. Mix!MixerTypeOK  BY <2>1, <2>2 DEF Mix!MixerTypeOK
  <2>5. Mix!ExportHasWhatIsHeard
    <3> SUFFICES ASSUME st.engine, ~st.loading, \A n \in st.trackIndex \ st.shown : ~st.state[n].soloed
                 PROVE  Mix!effectiveMixGains(st) = {n \in st.shown : st.gain[n]}
      BY DEF Mix!ExportHasWhatIsHeard
    <3>1. st.shown \subseteq st.trackIndex  BY <2>1 DEF Laid
    <3>2. Mix!anySolo(st) <=> \E n \in st.shown : st.state[n].soloed  BY <3>1 DEF Mix!anySolo
    <3>3. \A n \in st.shown : st.gain[n] = Mix!effective(st, n)  BY <2>1, <3>1 DEF Heard
    <3>4. \A n \in st.shown :
            Mix!effective(st, n) <=> /\ ~st.state[n].silent /\ ~st.state[n].muted
                                     /\ (\E k \in st.shown : st.state[k].soloed) => st.state[n].soloed
      BY <3>2 DEF Mix!effective
    <3>5. Mix!effectiveMixGains(st) =
            {n \in st.shown : /\ ~st.state[n].silent /\ ~st.state[n].muted
                              /\ (\E k \in st.shown : st.state[k].soloed) => st.state[n].soloed}
      BY DEF Mix!effectiveMixGains
    <3>6. Mix!effectiveMixGains(st) = {n \in st.shown : Mix!effective(st, n)}  BY <3>4, <3>5
    <3> QED  BY <3>3, <3>6
  <2>6. Mix!EveryPartSoundsOnce
    <3> SUFFICES ASSUME st.job # Mix!None
                 PROVE  LET play == Mix!buildPlaybackStems(Raw[st.job], st.shown)
                        IN /\ \A s, t \in play : s # t => Mix!PartsOf(s.src) \cap Mix!PartsOf(t.src) = {}
                           /\ "original" \in st.shown /\ BaseStems \subseteq Raw[st.job] =>
                                \A n \in BaseStems : \A piece \in Mix!PartsOf(n) : \E s \in play : piece \in Mix!PartsOf(s.src)
      BY DEF Mix!EveryPartSoundsOnce
    <3>1. PICK sel \in SUBSET BaseStems : st.shown = Mix!visible(Raw[st.job], sel)  BY <2>1 DEF Laid, Visible
    <3>2. \A s, t \in Mix!buildPlaybackStems(Raw[st.job], st.shown) :
            s # t => Mix!PartsOf(s.src) \cap Mix!PartsOf(t.src) = {}
      BY <3>1, PartsAreApart
    <3>3. "original" \in st.shown /\ BaseStems \subseteq Raw[st.job] =>
            \A n \in BaseStems : \A piece \in Mix!PartsOf(n) :
              \E s \in Mix!buildPlaybackStems(Raw[st.job], st.shown) : piece \in Mix!PartsOf(s.src)
      BY NoPartIsLost
    <3> QED  BY <3>2, <3>3
  <2> QED  BY <2>2, <2>3, <2>4, <2>5, <2>6 DEF Mix!MixerIInv
<1>2. ASSUME Mix!MixerIInv
      PROVE  Mixed(st, acts)
  <2>1. st \in Mix!MixerRecords /\ acts \in 0..MixActs  BY <1>2 DEF Mix!MixerIInv, Mix!MixerTypeOK
  <2>2. Laid(st)
    BY <1>2, <2>1 DEF Mix!MixerIInv, Mix!MixerTypeOK, Laid, OnePending, Visible, Mix!OneIsPending, Mix!NoneLoads,
                      Mix!ShownIsVisible, Mix!ShownIsMounted
  <2>3. Heard(st)  BY <1>2 DEF Mix!MixerIInv, Heard, Mix!GainsFollowSwitches
  <2> QED  BY <2>1, <2>2, <2>3 DEF Mixed
<1> QED  BY <1>1, <1>2

(* applyMix: the engine, if it is up, plays what the switches say.          *)
LEMMA Applied ==
  ASSUME NEW m, Laid(m)
  PROVE  LET u == Mix!applyMix(m)
         IN /\ Laid(u) /\ Heard(u) /\ u.job = m.job /\ u.state = m.state /\ u.pending = m.pending
<1>1. m \in Mix!MixerRecords  BY DEF Laid
<1>2. CASE ~m.engine
  BY <1>2 DEF Mix!applyMix, Heard
<1>3. CASE m.engine
  <2> DEFINE g == [n \in Mix!AllTrackNames |-> IF n \in m.trackIndex THEN Mix!effective(m, n) ELSE m.gain[n]]
             u == [m EXCEPT !.gain = g]
  <2>1. Mix!applyMix(m) = u  BY <1>3 DEF Mix!applyMix
  <2>2. m.gain \in [Mix!AllTrackNames -> BOOLEAN] /\ m.trackIndex \subseteq Mix!AllTrackNames
    BY <1>1, MixFields
  <2>3. \A n \in Mix!AllTrackNames : Mix!effective(m, n) \in BOOLEAN  BY DEF Mix!effective
  <2>4. g \in [Mix!AllTrackNames -> BOOLEAN]  BY <2>2, <2>3
  <2>5. \A n \in m.trackIndex : g[n] = Mix!effective(m, n)  BY <2>2
  <2> HIDE DEF g
  <2>6. /\ u \in Mix!MixerRecords /\ u.job = m.job /\ u.shown = m.shown /\ u.trackIndex = m.trackIndex
        /\ u.state = m.state /\ u.gain = g
    BY <1>1, <2>4 DEF Mix!MixerRecords
  <2>7. u.loading = m.loading /\ u.pending = m.pending /\ u.engine = m.engine
    BY <1>1, <2>4 DEF Mix!MixerRecords
  <2> HIDE DEF u
  <2>8. \A n \in u.trackIndex : Mix!effective(u, n) = Mix!effective(m, n)
    BY <2>6 DEF Mix!effective, Mix!anySolo
  <2>9. Laid(u)  BY <2>6, <2>7 DEF Laid
  <2>10. Heard(u)  BY <2>5, <2>6, <2>8 DEF Heard
  <2> QED  BY <2>1, <2>6, <2>7, <2>9, <2>10
<1> QED  BY <1>2, <1>3

(* saveMix: one mix waits to be stored, the last one.                       *)
LEMMA Saved ==
  ASSUME NEW m, Laid(m), Heard(m), NEW n \in 0..MixActs
  PROVE  Mixed(Mix!saveMix(m), n)
<1>1. m \in Mix!MixerRecords  BY DEF Laid
<1>2. CASE m.job = Mix!None  BY <1>2 DEF Mix!saveMix, Mixed
<1>3. CASE m.job # Mix!None
  <2> DEFINE p == [m.pending EXCEPT ![m.job] = {m.state}]
             u == [m EXCEPT !.pending = p]
  <2>1. m.job \in Jobs /\ m.state \in Mix!Mixes /\ m.pending \in [Jobs -> SUBSET Mix!Mixes]
    BY <1>1, <1>3, MixFields
  <2>2. Mix!saveMix(m) = u  BY <1>1, <1>3 DEF Mix!saveMix
  <2>3. {m.state} \in SUBSET Mix!Mixes  BY <2>1
  <2>4. /\ p \in [Jobs -> SUBSET Mix!Mixes] /\ p[m.job] = {m.state}
        /\ \A j \in Jobs : j # m.job => p[j] = m.pending[j]
    BY <2>1, <2>3
  <2> HIDE DEF p
  <2>5. OnePending(p)  BY <2>1, <2>4 DEF OnePending, Laid
  <2>6. /\ u \in Mix!MixerRecords /\ u.job = m.job /\ u.shown = m.shown /\ u.trackIndex = m.trackIndex
        /\ u.state = m.state /\ u.gain = m.gain
    BY <1>1, <2>4 DEF Mix!MixerRecords
  <2>7. u.loading = m.loading /\ u.pending = p /\ u.engine = m.engine
    BY <1>1, <2>4 DEF Mix!MixerRecords
  <2> HIDE DEF u
  <2>8. \A k \in u.trackIndex : Mix!effective(u, k) = Mix!effective(m, k)
    BY <2>6 DEF Mix!effective, Mix!anySolo
  <2>9. Laid(u)  BY <2>5, <2>6, <2>7 DEF Laid
  <2>10. Heard(u)  BY <2>6, <2>7, <2>8 DEF Heard
  <2> QED  BY <2>2, <2>9, <2>10 DEF Mixed
<1> QED  BY <1>2, <1>3

LEMMA StateSet ==
  ASSUME NEW m, Laid(m), NEW s \in Mix!Mixes
  PROVE  Laid([m EXCEPT !.state = s])
<1>1. m \in Mix!MixerRecords  BY DEF Laid
<1> DEFINE u == [m EXCEPT !.state = s]
<1>2. /\ u \in Mix!MixerRecords /\ u.job = m.job /\ u.shown = m.shown /\ u.trackIndex = m.trackIndex
      /\ u.loading = m.loading /\ u.pending = m.pending
  BY <1>1 DEF Mix!MixerRecords
<1> HIDE DEF u
<1>3. Laid(u)  BY <1>2 DEF Laid
<1> QED  BY <1>3 DEF u

(* Whatever a switch makes of the state, the engine and the store follow.   *)
LEMMA Changed ==
  ASSUME NEW m, Laid(m), NEW s \in Mix!Mixes, NEW n \in 0..MixActs
  PROVE  Mixed(Mix!changed([m EXCEPT !.state = s]), n)
<1> DEFINE u == [m EXCEPT !.state = s]
<1>1. Laid(u)  BY StateSet
<1> HIDE DEF u
<1>2. Laid(Mix!applyMix(u)) /\ Heard(Mix!applyMix(u))  BY <1>1, Applied
<1>3. Mixed(Mix!saveMix(Mix!applyMix(u)), n)  BY <1>2, Saved
<1>4. Mixed(Mix!changed(u), n)  BY <1>3 DEF Mix!changed
<1> QED  BY <1>4 DEF u

LEMMA OneSwitched ==
  ASSUME NEW s \in Mix!Mixes, NEW n \in Mix!AllTrackNames, NEW e \in Mix!Entries
  PROVE  [s EXCEPT ![n] = e] \in Mix!Mixes
BY DEF Mix!Mixes

LEMMA EntrySwitched ==
  ASSUME NEW e \in Mix!Entries, NEW b \in BOOLEAN
  PROVE  /\ [e EXCEPT !.muted = b] \in Mix!Entries /\ [e EXCEPT !.soloed = b] \in Mix!Entries
         /\ [e EXCEPT !.silent = b] \in Mix!Entries
BY DEF Mix!Entries

LEMMA MixerStarts ==
  ASSUME Mix!MixerInit
  PROVE  Mix!MixerIInv
<1>1. /\ st = [job |-> Mix!None, selected |-> BaseStems, shown |-> {}, trackIndex |-> {}, state |-> Mix!Mix0,
               gain |-> [n \in Mix!AllTrackNames |-> FALSE], engine |-> FALSE, loading |-> FALSE,
               stored |-> [j \in Jobs |-> Mix!Mix0], pending |-> [j \in Jobs |-> {}]]
      /\ acts = 0
  BY DEF Mix!MixerInit
<1>2. Mix!Mix0 \in Mix!Mixes  BY DEF Mix!Mix0, Mix!Mixes, Mix!Entry0, Mix!Entries
<1>3. st \in Mix!MixerRecords
  <2>1. [n \in Mix!AllTrackNames |-> FALSE] \in [Mix!AllTrackNames -> BOOLEAN]  OBVIOUS
  <2>2. [j \in Jobs |-> Mix!Mix0] \in [Jobs -> Mix!Mixes]  BY <1>2
  <2>3. [j \in Jobs |-> {}] \in [Jobs -> SUBSET Mix!Mixes]  OBVIOUS
  <2> QED  BY <1>1, <1>2, <2>1, <2>2, <2>3 DEF Mix!MixerRecords
<1>4. /\ st.job = Mix!None /\ st.shown = {} /\ st.trackIndex = {} /\ ~st.engine /\ ~st.loading
      /\ st.pending = [j \in Jobs |-> {}]
  BY <1>1
<1>5. Laid(st) /\ Heard(st)  BY <1>3, <1>4 DEF Laid, Heard, OnePending, Visible
<1> QED  BY <1>1, <1>5, Limits, MixedIsEnough DEF Mixed
LEMMA MixerStep ==
  ASSUME Mix!MixerIInv, [Mix!MixerNext]_<<st, acts>>
  PROVE  Mix!MixerIInv'
<1>1. Mixed(st, acts)  BY MixedIsEnough
<1>2. Mixed(st', acts') => Mix!MixerIInv'
  <2>1. (Mixed(st, acts) => Mix!MixerIInv)'  BY MixedIsEnough, PTL
  <2> QED  BY <2>1
<1> SUFFICES Mixed(st', acts')  BY <1>2
<1>3. Mix!Act => acts' \in 0..MixActs  BY <1>1, Limits DEF Mixed, Mix!Act
<1>4. st \in Mix!MixerRecords /\ Laid(st) /\ Heard(st) /\ acts \in 0..MixActs  BY <1>1 DEF Mixed, Laid
<1>5. /\ st.state \in Mix!Mixes /\ st.selected \in SUBSET BaseStems /\ st.job \in Jobs \cup {Mix!None}
      /\ st.stored \in [Jobs -> Mix!Mixes] /\ st.pending \in [Jobs -> SUBSET Mix!Mixes]
      /\ st.shown \in SUBSET Mix!AllTrackNames /\ st.trackIndex \in SUBSET Mix!AllTrackNames
  BY <1>4, MixFields
<1>6. Mix!Lanes(st).enabled \subseteq Mix!AllTrackNames
  BY <1>5 DEF Mix!Lanes, Mix!applyStemSelectionFilter
<1>7. CASE Mix!setStemSelected
  <2>1. PICK n \in BaseStems : st' = [st EXCEPT !.selected = IF n \in st.selected THEN st.selected \ {n}
                                                         ELSE st.selected \cup {n}]
    BY <1>7 DEF Mix!setStemSelected
  <2> DEFINE sel == IF n \in st.selected THEN st.selected \ {n} ELSE st.selected \cup {n}
  <2>2. sel \in SUBSET BaseStems  BY <1>5
  <2>3. st' = [st EXCEPT !.selected = sel]  BY <2>1
  <2> HIDE DEF sel
  <2>4. /\ st' \in Mix!MixerRecords /\ st'.job = st.job /\ st'.shown = st.shown /\ st'.trackIndex = st.trackIndex
        /\ st'.state = st.state /\ st'.gain = st.gain
    BY <1>4, <2>2, <2>3 DEF Mix!MixerRecords
  <2>5. st'.loading = st.loading /\ st'.pending = st.pending /\ st'.engine = st.engine
    BY <1>4, <2>2, <2>3 DEF Mix!MixerRecords
  <2>6. Laid(st')  BY <1>4, <2>4, <2>5 DEF Laid
  <2>7. \A k \in st'.trackIndex : Mix!effective(st', k) = Mix!effective(st, k)
    BY <2>4 DEF Mix!effective, Mix!anySolo
  <2>8. Heard(st')  BY <1>4, <2>4, <2>5, <2>7 DEF Heard
  <2>9. acts' \in 0..MixActs  BY <1>3, <1>7 DEF Mix!setStemSelected
  <2> QED  BY <2>6, <2>8, <2>9 DEF Mixed
<1>8. CASE Mix!Open
  <2>1. PICK j \in Jobs : st' = Mix!opened(st, j)  BY <1>8 DEF Mix!Open
  <2> DEFINE shown == Mix!visible(Raw[j], st.selected)
             rows == Mix!applyStemSelectionFilter(shown).rows
             none == [n \in Mix!AllTrackNames |-> FALSE]
             a == [st EXCEPT !.job = j, !.loading = TRUE]
             b == [a EXCEPT !.engine = FALSE, !.shown = shown]
             c == [b EXCEPT !.trackIndex = rows]
  <2>2. st' = [c EXCEPT !.gain = none]  BY <2>1 DEF Mix!opened
  <2>3. /\ shown \subseteq rows /\ rows \in SUBSET Mix!AllTrackNames /\ shown \in SUBSET Mix!AllTrackNames
    BY <1>5, ShownHasRow
  <2>4. Visible(j, shown)  BY <1>5 DEF Visible
  <2>5. none \in [Mix!AllTrackNames -> BOOLEAN]  OBVIOUS
  <2>6. j # Mix!None  BY MixConstants
  <2> HIDE DEF shown, rows, none
  <2>7. a \in Mix!MixerRecords /\ a.job = j /\ a.loading /\ a.pending = st.pending
    BY <1>4 DEF Mix!MixerRecords
  <2> HIDE DEF a
  <2>8. b \in Mix!MixerRecords /\ b.job = j /\ b.loading /\ b.pending = st.pending /\ ~b.engine /\ b.shown = shown
    BY <2>3, <2>7 DEF Mix!MixerRecords
  <2> HIDE DEF b
  <2>9. /\ c \in Mix!MixerRecords /\ c.job = j /\ c.loading /\ c.pending = st.pending /\ ~c.engine /\ c.shown = shown
        /\ c.trackIndex = rows
    BY <2>3, <2>8 DEF Mix!MixerRecords
  <2> HIDE DEF c
  <2>10. /\ st' \in Mix!MixerRecords /\ st'.job = j /\ st'.loading /\ st'.pending = st.pending /\ ~st'.engine
         /\ st'.shown = shown /\ st'.trackIndex = rows
    BY <2>2, <2>5, <2>9 DEF Mix!MixerRecords
  <2>11. Laid(st')  BY <1>4, <2>3, <2>4, <2>6, <2>10 DEF Laid
  <2>12. acts' \in 0..MixActs  BY <1>3, <1>8 DEF Mix!Open
  <2> QED  BY <2>10, <2>11, <2>12 DEF Mixed, Heard
<1>9. CASE Mix!loadMixIntoState
  <2> DEFINE s == Mix!recovered(st.stored[st.job], Raw[st.job])
             a == [st EXCEPT !.loading = FALSE]
             b == [a EXCEPT !.state = s]
  <2>1. st' = Mix!applyMix(b) /\ acts' = acts /\ st.loading  BY <1>9 DEF Mix!loadMixIntoState, Mix!loaded
  <2>2. st.job \in Jobs  BY <1>4, <1>5, <2>1 DEF Laid
  <2>3. s \in Mix!Mixes
    <3> DEFINE was == st.stored[st.job]
               names == Raw[st.job]
    <3>1. was \in Mix!Mixes  BY <1>5, <2>2
    <3>2. s = was \/ s = [n \in Mix!AllTrackNames |-> IF n \in names THEN [was[n] EXCEPT !.muted = FALSE] ELSE was[n]]
      BY DEF Mix!recovered
    <3> HIDE DEF s, was, names
    <3>3. \A n \in Mix!AllTrackNames : was[n] \in Mix!Entries /\ [was[n] EXCEPT !.muted = FALSE] \in Mix!Entries
      BY <3>1, EntryFields, EntrySwitched
    <3> QED  BY <3>1, <3>2, <3>3 DEF Mix!Mixes
  <2> HIDE DEF s
  <2>4. /\ a \in Mix!MixerRecords /\ a.job = st.job /\ a.shown = st.shown /\ a.trackIndex = st.trackIndex
        /\ ~a.loading /\ a.pending = st.pending
    BY <1>4 DEF Mix!MixerRecords
  <2> HIDE DEF a
  <2>5. Laid(a)  BY <1>4, <2>4 DEF Laid
  <2>6. Laid(b)  BY <2>3, <2>5, StateSet
  <2> HIDE DEF b
  <2> QED  BY <1>4, <2>1, <2>6, Applied DEF Mixed
<1>10. CASE Mix!EngineUp
  <2> DEFINE a == [st EXCEPT !.engine = TRUE]
  <2>1. st' = Mix!applyMix(a) /\ acts' = acts  BY <1>10 DEF Mix!EngineUp
  <2>2. /\ a \in Mix!MixerRecords /\ a.job = st.job /\ a.shown = st.shown /\ a.trackIndex = st.trackIndex
        /\ a.loading = st.loading /\ a.pending = st.pending
    BY <1>4 DEF Mix!MixerRecords
  <2> HIDE DEF a
  <2>3. Laid(a)  BY <1>4, <2>2 DEF Laid
  <2> QED  BY <1>4, <2>1, <2>3, Applied DEF Mixed
<1>11. CASE Mix!storeSetDebounced
  <2>1. PICK j \in Jobs : st.pending[j] # {} /\ st' = Mix!flushed(st, j) /\ acts' = acts
    BY <1>11 DEF Mix!storeSetDebounced
  <2> DEFINE kept == CHOOSE s \in st.pending[j] : TRUE
             stored == [st.stored EXCEPT ![j] = kept]
             pending == [st.pending EXCEPT ![j] = {}]
             a == [st EXCEPT !.stored = stored]
  <2>2. st' = [a EXCEPT !.pending = pending]  BY <2>1 DEF Mix!flushed
  <2>3. kept \in st.pending[j]  BY <2>1
  <2>4. kept \in Mix!Mixes  BY <1>5, <2>3
  <2> HIDE DEF kept
  <2>5. stored \in [Jobs -> Mix!Mixes]  BY <1>5, <2>4
  <2>6. /\ pending \in [Jobs -> SUBSET Mix!Mixes] /\ pending[j] = {}
        /\ \A k \in Jobs : k # j => pending[k] = st.pending[k]
    BY <1>5
  <2> HIDE DEF stored, pending
  <2>7. OnePending(pending)  BY <1>4, <2>6 DEF OnePending, Laid
  <2>8. /\ a \in Mix!MixerRecords /\ a.job = st.job /\ a.shown = st.shown /\ a.trackIndex = st.trackIndex
        /\ a.state = st.state /\ a.gain = st.gain /\ a.loading = st.loading /\ a.engine = st.engine
    BY <1>4, <2>5 DEF Mix!MixerRecords
  <2> HIDE DEF a
  <2>9. /\ st' \in Mix!MixerRecords /\ st'.job = st.job /\ st'.shown = st.shown /\ st'.trackIndex = st.trackIndex
        /\ st'.state = st.state
    BY <2>2, <2>6, <2>8 DEF Mix!MixerRecords
  <2>10. st'.gain = st.gain /\ st'.loading = st.loading /\ st'.engine = st.engine /\ st'.pending = pending
    BY <2>2, <2>6, <2>8 DEF Mix!MixerRecords
  <2>11. Laid(st')  BY <1>4, <2>7, <2>9, <2>10 DEF Laid
  <2>12. \A k \in st'.trackIndex : Mix!effective(st', k) = Mix!effective(st, k)
    BY <2>9 DEF Mix!effective, Mix!anySolo
  <2>13. Heard(st')  BY <1>4, <2>9, <2>10, <2>12 DEF Heard
  <2> QED  BY <1>4, <2>1, <2>11, <2>13 DEF Mixed
<1>12. CASE Mix!toggleStemMute
  <2>1. PICK n \in Mix!Lanes(st).enabled : st' = Mix!changed([st EXCEPT !.state[n].muted = ~st.state[n].muted])
    BY <1>12 DEF Mix!toggleStemMute
  <2> DEFINE e == [st.state[n] EXCEPT !.muted = ~st.state[n].muted]
             s == [st.state EXCEPT ![n] = e]
  <2>2. st' = Mix!changed([st EXCEPT !.state = s])  BY <1>4, <2>1 DEF Mix!MixerRecords
  <2>3. n \in Mix!AllTrackNames  BY <1>6
  <2>4. e \in Mix!Entries  BY <1>5, <2>3, EntryFields, EntrySwitched
  <2> HIDE DEF e
  <2>5. s \in Mix!Mixes  BY <1>5, <2>3, <2>4, OneSwitched
  <2> HIDE DEF s
  <2>6. acts' \in 0..MixActs  BY <1>3, <1>12 DEF Mix!toggleStemMute
  <2> QED  BY <1>4, <2>2, <2>5, <2>6, Changed
<1>13. CASE Mix!toggleStemSolo
  <2>1. PICK n \in Mix!Lanes(st).enabled : st' = Mix!changed([st EXCEPT !.state[n].soloed = ~st.state[n].soloed])
    BY <1>13 DEF Mix!toggleStemSolo
  <2> DEFINE e == [st.state[n] EXCEPT !.soloed = ~st.state[n].soloed]
             s == [st.state EXCEPT ![n] = e]
  <2>2. st' = Mix!changed([st EXCEPT !.state = s])  BY <1>4, <2>1 DEF Mix!MixerRecords
  <2>3. n \in Mix!AllTrackNames  BY <1>6
  <2>4. e \in Mix!Entries  BY <1>5, <2>3, EntryFields, EntrySwitched
  <2> HIDE DEF e
  <2>5. s \in Mix!Mixes  BY <1>5, <2>3, <2>4, OneSwitched
  <2> HIDE DEF s
  <2>6. acts' \in 0..MixActs  BY <1>3, <1>13 DEF Mix!toggleStemSolo
  <2> QED  BY <1>4, <2>2, <2>5, <2>6, Changed
<1>14. CASE Mix!setLaneVolume
  <2>1. PICK n \in Mix!Lanes(st).enabled : st' = Mix!changed([st EXCEPT !.state[n].silent = ~st.state[n].silent])
    BY <1>14 DEF Mix!setLaneVolume
  <2> DEFINE e == [st.state[n] EXCEPT !.silent = ~st.state[n].silent]
             s == [st.state EXCEPT ![n] = e]
  <2>2. st' = Mix!changed([st EXCEPT !.state = s])  BY <1>4, <2>1 DEF Mix!MixerRecords
  <2>3. n \in Mix!AllTrackNames  BY <1>6
  <2>4. e \in Mix!Entries  BY <1>5, <2>3, EntryFields, EntrySwitched
  <2> HIDE DEF e
  <2>5. s \in Mix!Mixes  BY <1>5, <2>3, <2>4, OneSwitched
  <2> HIDE DEF s
  <2>6. acts' \in 0..MixActs  BY <1>3, <1>14 DEF Mix!setLaneVolume
  <2> QED  BY <1>4, <2>2, <2>5, <2>6, Changed
<1>15. CASE Mix!soloOnlyStem
  <2>1. PICK n \in Mix!Lanes(st).enabled :
          st' = Mix!changed(IF Mix!lone(st, n) THEN [st EXCEPT !.state[n].soloed = FALSE]
                            ELSE [st EXCEPT !.state = Mix!alone(st, n)])
    BY <1>15 DEF Mix!soloOnlyStem
  <2>2. n \in Mix!AllTrackNames  BY <1>6
  <2>3. acts' \in 0..MixActs  BY <1>3, <1>15 DEF Mix!soloOnlyStem
  <2>4. CASE Mix!lone(st, n)
    <3> DEFINE e == [st.state[n] EXCEPT !.soloed = FALSE]
               s == [st.state EXCEPT ![n] = e]
    <3>1. st' = Mix!changed([st EXCEPT !.state = s])  BY <1>4, <2>1, <2>4 DEF Mix!MixerRecords
    <3>2. e \in Mix!Entries  BY <1>5, <2>2, EntryFields, EntrySwitched
    <3> HIDE DEF e
    <3>3. s \in Mix!Mixes  BY <1>5, <2>2, <3>2, OneSwitched
    <3> HIDE DEF s
    <3> QED  BY <1>4, <2>3, <3>1, <3>3, Changed
  <2>5. CASE ~Mix!lone(st, n)
    <3> DEFINE s == Mix!alone(st, n)
               e(k) == [st.state[k] EXCEPT !.soloed = (k = n), !.muted = (st.state[k].muted /\ k # n)]
    <3>1. st' = Mix!changed([st EXCEPT !.state = s])  BY <2>1, <2>5
    <3>2. ASSUME NEW k \in Mix!AllTrackNames
          PROVE  e(k) \in Mix!Entries
      <4>1. (k = n) \in BOOLEAN /\ (st.state[k].muted /\ k # n) \in BOOLEAN  OBVIOUS
      <4>2. st.state[k] \in Mix!Entries  BY <1>5, EntryFields
      <4> QED  BY <4>1, <4>2 DEF Mix!Entries
    <3>3. s = [k \in Mix!AllTrackNames |-> e(k)]  BY DEF Mix!alone
    <3> HIDE DEF e
    <3>4. s \in Mix!Mixes  BY <3>2, <3>3 DEF Mix!Mixes
    <3> HIDE DEF s
    <3> QED  BY <1>4, <2>3, <3>1, <3>4, Changed
  <2> QED  BY <2>4, <2>5
<1>16. CASE Mix!muteAll
  <2> DEFINE b == ~Mix!allMuted(st)
             s == [n \in Mix!AllTrackNames |-> [st.state[n] EXCEPT !.muted = b]]
  <2>1. st' = Mix!changed([st EXCEPT !.state = s])  BY <1>16 DEF Mix!muteAll
  <2>2. b \in BOOLEAN  OBVIOUS
  <2> HIDE DEF b
  <2>3. \A n \in Mix!AllTrackNames : [st.state[n] EXCEPT !.muted = b] \in Mix!Entries
    BY <1>5, <2>2, EntryFields, EntrySwitched
  <2>4. s \in Mix!Mixes  BY <2>3 DEF Mix!Mixes
  <2> HIDE DEF s
  <2>5. acts' \in 0..MixActs  BY <1>3, <1>16 DEF Mix!muteAll
  <2> QED  BY <1>4, <2>1, <2>4, <2>5, Changed
<1>17. CASE Mix!clearAllSolos
  <2> DEFINE s == [n \in Mix!AllTrackNames |-> [st.state[n] EXCEPT !.soloed = FALSE]]
  <2>1. st' = Mix!changed([st EXCEPT !.state = s])  BY <1>17 DEF Mix!clearAllSolos
  <2>2. \A n \in Mix!AllTrackNames : [st.state[n] EXCEPT !.soloed = FALSE] \in Mix!Entries
    BY <1>5, EntryFields, EntrySwitched
  <2>3. s \in Mix!Mixes  BY <2>2 DEF Mix!Mixes
  <2> HIDE DEF s
  <2>4. acts' \in 0..MixActs  BY <1>3, <1>17 DEF Mix!clearAllSolos
  <2> QED  BY <1>4, <2>1, <2>3, <2>4, Changed
<1>18. CASE Mix!resetMixer
  <2>1. st' = Mix!changed([st EXCEPT !.state = Mix!Mix0])  BY <1>18 DEF Mix!resetMixer
  <2>2. Mix!Mix0 \in Mix!Mixes  BY DEF Mix!Mix0, Mix!Mixes, Mix!Entry0, Mix!Entries
  <2>3. acts' \in 0..MixActs  BY <1>3, <1>18 DEF Mix!resetMixer
  <2> QED  BY <1>4, <2>1, <2>2, <2>3, Changed
<1>19. CASE UNCHANGED <<st, acts>>  BY <1>1, <1>19
<1> QED
  BY <1>7, <1>8, <1>9, <1>10, <1>11, <1>12, <1>13, <1>14, <1>15, <1>16, <1>17, <1>18, <1>19 DEF Mix!MixerNext

-----------------------------------------------------------------------------
(* The four side by side: each part of the studio keeps its own.            *)
ControlsIInv ==
  /\ part = "lanes" => Mix!MixerIInv
  /\ part = "keys" => Transposed!KeysIInv
  /\ part = "loop" => Loop!LoopIInv
  /\ part = "buttons" => Buttons!TransportIInv

(* What the controls show is always what is played, for any stems, jobs,    *)
(* lanes, ranges of the keys, durations, and any number of acts of the      *)
(* user: the gains of applyMix follow the mute and solo switches, and an    *)
(* export has the lanes that are heard (mixer.js, playbackStems.js); every  *)
(* source is in the key its lane shows once it has faded (pitchBus.js); the *)
(* loop lies in the track, is long enough to be heard, and is the one the   *)
(* engine wraps at (loopRegion.js); and no count-in is heard over a         *)
(* transport that stands still (transport.js).                              *)
THEOREM ShownIsPlayed == Spec => []ControlsAreHeard
<1>1. Init => ControlsIInv
  <2> SUFFICES ASSUME Init PROVE ControlsIInv  OBVIOUS
  <2>1. part = "lanes" => Mix!MixerIInv  BY MixerStarts DEF Init
  <2>2. part = "keys" => Transposed!KeysIInv  BY KeysStart DEF Init
  <2>3. part = "loop" => Loop!LoopIInv  BY LoopStarts DEF Init
  <2>4. part = "buttons" => Buttons!TransportIInv  BY TransportStarts DEF Init
  <2> QED  BY <2>1, <2>2, <2>3, <2>4 DEF ControlsIInv
<1>2. ControlsIInv /\ [Next]_vars => ControlsIInv'
  <2> SUFFICES ASSUME ControlsIInv, [Next]_vars PROVE ControlsIInv'  OBVIOUS
  <2>1. part' = part  BY DEF Next, Still, vars
  <2>2. part = "lanes" => Mix!MixerIInv'
    <3> SUFFICES ASSUME part = "lanes" PROVE Mix!MixerIInv'  OBVIOUS
    <3>1. [Mix!MixerNext]_<<st, acts>>  BY DEF Next, vars
    <3> QED  BY <3>1, MixerStep DEF ControlsIInv
  <2>3. part = "keys" => Transposed!KeysIInv'
    <3> SUFFICES ASSUME part = "keys" PROVE Transposed!KeysIInv'  OBVIOUS
    <3>1. [Transposed!KeysNext]_<<st, acts>>  BY DEF Next, vars
    <3> QED  BY <3>1, KeysStep DEF ControlsIInv
  <2>4. part = "loop" => Loop!LoopIInv'
    <3> SUFFICES ASSUME part = "loop" PROVE Loop!LoopIInv'  OBVIOUS
    <3>1. [Loop!LoopNext]_<<st, acts>>  BY DEF Next, vars
    <3> QED  BY <3>1, LoopStep DEF ControlsIInv
  <2>5. part = "buttons" => Buttons!TransportIInv'
    <3> SUFFICES ASSUME part = "buttons" PROVE Buttons!TransportIInv'  OBVIOUS
    <3>1. [Buttons!TransportNext]_<<st, acts>>  BY DEF Next, vars
    <3> QED  BY <3>1, TransportStep DEF ControlsIInv
  <2> QED  BY <2>1, <2>2, <2>3, <2>4, <2>5 DEF ControlsIInv
<1>3. ControlsIInv => ControlsAreHeard
  <2> SUFFICES ASSUME ControlsIInv PROVE ControlsAreHeard  OBVIOUS
  <2>1. part = "lanes" => Mix!MixerTypeOK /\ Mix!GainsFollowSwitches /\ Mix!EveryPartSoundsOnce
                          /\ Mix!ExportHasWhatIsHeard
    BY DEF ControlsIInv, Mix!MixerIInv
  <2>2. part = "keys" => Transposed!KeysTypeOK /\ Transposed!KeysReachTheEngine
    BY KeysAreHeard DEF ControlsIInv, Transposed!KeysIInv
  <2>3. part = "loop" => Loop!LoopTypeOK /\ Loop!LoopInTrack /\ Loop!LoopIsAudible /\ Loop!EngineLoopsAsShown
    BY DEF ControlsIInv, Loop!LoopIInv
  <2>4. part = "buttons" => /\ Buttons!TransportTypeOK /\ Buttons!CountEndsWithPlay
                            /\ Buttons!ButtonTells /\ Buttons!PlaysWhenAsked
    BY DEF ControlsIInv, Buttons!TransportIInv
  <2> QED  BY <2>1, <2>2, <2>3, <2>4 DEF ControlsAreHeard
<1> QED  BY <1>1, <1>2, <1>3, PTL DEF Spec
=============================================================================
