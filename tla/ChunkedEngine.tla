--------------------------- MODULE ChunkedEngine ---------------------------
(***************************************************************************)
(* The player of long tracks: src/static/js/chunkedAudioEngine.js.         *)
(*                                                                         *)
(* A track is NChunks windows of Chunk time units.  A window is fetched,   *)
(* kept in a cache and handed to the audio clock as a source that starts   *)
(* at a given clock time.  play() and the lookahead scheduler wait for a   *)
(* window that is not there yet, and go on with whatever the engine has    *)
(* become when it arrives.  All stems of a window stand for one source;    *)
(* the rate is 1, and margins of milliseconds are 0.                       *)
(***************************************************************************)
EXTENDS Integers, Sequences, SequencesExt

CONSTANTS
  NChunks,    \* windows in the track
  Chunk,      \* CHUNK_SEC
  Lookahead,  \* LOOKAHEAD_SEC
  CountIns,   \* the lead-ins the transport asks for
  Loops,      \* the loops the user can set, of [start, end]
  Seeks,      \* positions the user can jump to
  NoLoop,
  MaxNow,     \* bound: audio clock
  MaxActs     \* bound: calls of the transport and failed fetches, together

EngineAssumption ==
  /\ NChunks \in Nat \ {0} /\ Chunk \in Nat \ {0} /\ Lookahead \in Nat
  /\ CountIns \subseteq Nat /\ 0 \in CountIns /\ Seeks \subseteq 0..NChunks * Chunk
  /\ Loops \subseteq [start : Seeks, end : Seeks] /\ NoLoop \notin Loops
  /\ MaxNow \in Nat /\ MaxActs \in Nat

VARIABLES
  eng,   \* the engine's own variables, see Engines
  now,   \* ctx.currentTime
  acts

engineVars == <<eng, now, acts>>

Duration == NChunks * Chunk
Chunks == 0..NChunks  \* the last one lies past the end of the file
Window(t) == t \div Chunk
Max2(a, b) == IF a > b THEN a ELSE b
Min2(a, b) == IF a < b THEN a ELSE b

(* A source on the audio clock, and a call that waits for a window.         *)
Sources == [at : Nat, from : 0..Duration, len : 1..Chunk]
Waits == [then : {"start", "next"}, chunk : Chunks, within : 0..Chunk,
          lead : CountIns, orphan : BOOLEAN]

EngineTypeOK ==
  /\ eng.playing \in BOOLEAN /\ eng.audioStarted \in BOOLEAN
  /\ eng.destroyed \in BOOLEAN /\ eng.filling \in BOOLEAN
  /\ eng.startOffset \in 0..Duration /\ eng.startCtxTime \in Nat
  /\ eng.scheduledTo \in Nat
  /\ eng.loop \in Loops \cup {NoLoop} /\ eng.epoch \in Nat
  /\ eng.cache \in [Chunks -> {"none", "pending", "ready"}]
  /\ eng.orphans \subseteq Chunks
  /\ eng.waits \in Seq(Waits)
  /\ \A i \in 1..Len(eng.waits) : LET w == eng.waits[i] IN
       IF w.orphan THEN w.chunk \in eng.orphans ELSE eng.cache[w.chunk] = "pending"
  /\ eng.nodes \subseteq Sources
  /\ eng.raf \in [own : BOOLEAN, leaked : BOOLEAN]
  /\ eng.audioStarted => eng.playing /\ eng.troubled \in BOOLEAN
  /\ now \in 0..MaxNow /\ acts \in 0..MaxActs

(* ready() has read the headers and asked for the first two windows.        *)
Engine0 ==
  [playing |-> FALSE, audioStarted |-> FALSE, destroyed |-> FALSE, filling |-> FALSE,
   startOffset |-> 0, startCtxTime |-> 0, scheduledTo |-> 0, loop |-> NoLoop, epoch |-> 0,
   cache |-> [k \in Chunks |-> IF k \in {0, 1} THEN "pending" ELSE "none"],
   orphans |-> {}, waits |-> <<>>, nodes |-> {},
   raf |-> [own |-> FALSE, leaked |-> FALSE], troubled |-> FALSE]

EngineInit == eng = Engine0 /\ now = 0 /\ acts = 0

(* ------------------------------- the clock ------------------------------ *)
getCurrentTime(e) ==
  IF ~e.playing \/ ~e.audioStarted THEN e.startOffset
  ELSE Max2(e.startOffset, Min2(Max2(0, now - e.startCtxTime) + e.startOffset, Duration))

sourceTimeToCtxTime(e, t) == e.startCtxTime + (t - e.startOffset)
ctxTimeToSourceTime(e, c) == e.startOffset + (c - e.startCtxTime)
isClockReady(e) == e.playing /\ e.audioStarted

Looping(e) == e.loop # NoLoop
loopPinChunk(e) == IF Looping(e) THEN Window(e.loop.start) ELSE -1

(* ------------------------------- the cache ------------------------------ *)
fetchChunk(e, k) ==
  IF k \notin Chunks \/ e.cache[k] # "none" THEN e ELSE [e EXCEPT !.cache[k] = "pending"]

(* Dropping an entry that is still being fetched leaves its answer on the   *)
(* way: the calls that wait for it will get it all the same.                *)
Evict(e, S) ==
  [e EXCEPT
    !.cache = [k \in Chunks |-> IF k \in S THEN "none" ELSE @[k]],
    !.orphans = @ \cup {k \in S : e.cache[k] = "pending"},
    !.waits = [i \in DOMAIN @ |->
      [@[i] EXCEPT !.orphan = @ \/ (e.waits[i].chunk \in S /\ e.cache[e.waits[i].chunk] = "pending")]]]

Below(e, k) == {j \in Chunks : j < k /\ j # loopPinChunk(e)}

(* ------------------------------ scheduling ------------------------------ *)
stopNodes(e) == [e EXCEPT !.nodes = {}]
cancelFrame(e) == [e EXCEPT !.raf.own = FALSE]
requestFrame(e) == [e EXCEPT !.raf = [own |-> TRUE, leaked |-> @.leaked \/ @.own]]

(* scheduleChunk: a source that plays window k from `skip` on, at `when`.   *)
scheduleChunk(e, k, when, skip) ==
  IF skip >= Chunk THEN e
  ELSE [e EXCEPT !.nodes = @ \cup {[at |-> when, from |-> k * Chunk + skip, len |-> Chunk - skip]}]

(* startWith, the continuation of play().                                   *)
StartUnguarded(e, k, within, lead, got) ==
  LET on == IF got THEN scheduleChunk(e, k, now + lead, within) ELSE e
  IN requestFrame(fetchChunk([on EXCEPT !.startCtxTime = now + lead, !.audioStarted = e.playing,
       !.epoch = @ + 1, !.scheduledTo = e.startOffset + (IF got THEN Chunk - within ELSE 0)], k + 1))

startWith(e, k, within, lead, got) ==
  LET at == now + lead
      on == IF got THEN scheduleChunk(e, k, at, within) ELSE e
  IN IF ~e.playing \/ e.destroyed THEN e
     ELSE requestFrame(fetchChunk(
            [on EXCEPT !.startCtxTime = at, !.audioStarted = TRUE, !.epoch = @ + 1,
                       !.scheduledTo = e.startOffset + (IF got THEN Chunk - within ELSE 0),
                       !.troubled = @ \/ ~got],
            k + 1))

(* The rest of scheduleNext, once window k is there: what is late is        *)
(* skipped, and the filling flag goes down whatever happened.               *)
addNext(e, k, got) ==
  LET ideal == sourceTimeToCtxTime(e, e.scheduledTo)
      when == Max2(ideal, now)
      done == [e EXCEPT !.filling = FALSE]
  IN IF ~e.playing \/ e.destroyed \/ ~got THEN done
     ELSE [scheduleChunk(done, k, when, Min2(when - ideal, Chunk)) EXCEPT
             !.scheduledTo = @ + Chunk]

resume(e, w, got) ==
  IF w.then = "start" THEN startWith(e, w.chunk, w.within, w.lead, got)
  ELSE addNext(e, w.chunk, got)

scheduleNext(e) ==
  LET k == Window(e.scheduledTo)
      ahead == fetchChunk(e, k + 1)
  IN IF e.cache[k] = "ready" THEN addNext(ahead, k, TRUE)
     ELSE [fetchChunk(ahead, k) EXCEPT !.filling = TRUE,
             !.waits = Append(@, [then |-> "next", chunk |-> k, within |-> 0, lead |-> 0,
                                  orphan |-> FALSE])]

maybeSchedule(e) ==
  LET limit == IF Looping(e) THEN e.loop.end ELSE Duration
  IN IF e.filling \/ ~e.playing \/ e.destroyed \/ e.scheduledTo >= limit
          \/ e.scheduledTo - getCurrentTime(e) >= Lookahead
     THEN e ELSE scheduleNext(e)

(* ------------------------------ the transport --------------------------- *)
play(e, lead) ==
  LET k == Window(e.startOffset)
      within == e.startOffset - k * Chunk
      on == [e EXCEPT !.playing = TRUE]
  IN IF e.playing \/ e.destroyed THEN e
     ELSE IF e.cache[k] = "ready" THEN startWith(on, k, within, lead, TRUE)
     ELSE [fetchChunk(on, k) EXCEPT
             !.waits = Append(@, [then |-> "start", chunk |-> k, within |-> within,
                                  lead |-> lead, orphan |-> FALSE])]

pause(e) ==
  IF ~e.playing THEN e
  ELSE cancelFrame(stopNodes(
         [e EXCEPT !.startOffset = getCurrentTime(e), !.scheduledTo = getCurrentTime(e),
                   !.playing = FALSE, !.audioStarted = FALSE, !.epoch = @ + 1,
                   !.troubled = @ \/ e.waits # <<>>]))

seek(e, t) ==
  LET halted == IF e.playing
                THEN cancelFrame(stopNodes([e EXCEPT !.playing = FALSE, !.audioStarted = FALSE]))
                ELSE e
      there == Evict([halted EXCEPT !.startOffset = t, !.scheduledTo = t, !.epoch = @ + 1,
                                    !.troubled = @ \/ e.waits # <<>>],
                     Below(e, Window(t)))
  IN IF e.playing THEN play(there, 0) ELSE there

setPlaybackRate(e) ==
  IF e.playing THEN seek(e, getCurrentTime(e)) ELSE [e EXCEPT !.epoch = @ + 1]

destroy(e) ==
  LET off == pause([e EXCEPT !.destroyed = TRUE]) IN Evict(off, Chunks)

(* One frame, by the chain that rafId names or by one it has forgotten.     *)
tick(e, leaked) ==
  LET t == getCurrentTime(e)
      spent == [e EXCEPT !.raf = IF leaked THEN [own |-> e.raf.own, leaked |-> FALSE]
                                 ELSE [own |-> FALSE, leaked |-> e.raf.leaked]]
      warm == IF Looping(e) /\ e.loop.end - t < Lookahead
              THEN fetchChunk(spent, loopPinChunk(e)) ELSE spent
  IN IF ~e.playing THEN spent
     ELSE IF Looping(e) /\ t >= e.loop.end THEN seek(warm, e.loop.start)
     ELSE IF t >= Duration
     THEN cancelFrame([warm EXCEPT !.playing = FALSE, !.audioStarted = FALSE,
                                   !.startOffset = Duration])
     ELSE requestFrame(maybeSchedule(warm))

(* ------------------------------- the steps ------------------------------ *)
Act == acts < MaxActs /\ acts' = acts + 1

PlayPressed == Act /\ ~eng.destroyed
  /\ \E lead \in CountIns : eng' = play(eng, lead)
  /\ UNCHANGED now
PausePressed == Act /\ eng.playing /\ eng' = pause(eng) /\ UNCHANGED now
SeekTo == Act /\ ~eng.destroyed
  /\ \E t \in Seeks : eng' = seek(eng, t)
  /\ UNCHANGED now
RateChanged == Act /\ ~eng.destroyed /\ eng' = setPlaybackRate(eng) /\ UNCHANGED now
setLoop == Act /\ ~eng.destroyed
  /\ \E l \in (Loops \cup {NoLoop}) \ {eng.loop} : eng' = [eng EXCEPT !.loop = l]
  /\ UNCHANGED now
Destroyed == Act /\ ~eng.destroyed /\ eng' = destroy(eng) /\ UNCHANGED now

(* The answer to a fetch: the cache is trimmed, a window no stem could be   *)
(* read of is dropped again, whoever's entry it is by now, and the calls    *)
(* that waited for this answer go on before anything else runs.             *)
settle(e, k, orphan, got) ==
  LET Mine(w) == w.chunk = k /\ w.orphan = orphan
      Others(w) == ~Mine(w)
      rest == [e EXCEPT !.waits = SelectSeq(@, Others)]
      trimmed == Evict(IF orphan THEN [rest EXCEPT !.orphans = @ \ {k}]
                       ELSE [rest EXCEPT !.cache[k] = "ready"], Below(e, k - 1))
      kept == IF got THEN trimmed ELSE Evict(trimmed, {k})
  IN FoldLeft(LAMBDA s, w : resume(s, w, got), kept, SelectSeq(e.waits, Mine))

Arrives(k, orphan, got) ==
  /\ got \/ k = NChunks \/ acts < MaxActs
  /\ got => k < NChunks
  /\ acts' = IF got \/ k = NChunks THEN acts ELSE acts + 1
  /\ eng' = settle(eng, k, orphan, got)
  /\ UNCHANGED now

FetchDone == \E k \in Chunks, got \in BOOLEAN : eng.cache[k] = "pending" /\ Arrives(k, FALSE, got)
OrphanDone == \E k \in eng.orphans, got \in BOOLEAN : Arrives(k, TRUE, got)

Frame == \E leaked \in BOOLEAN :
  /\ IF leaked THEN eng.raf.leaked ELSE eng.raf.own
  /\ eng' = tick(eng, leaked)
  /\ UNCHANGED <<now, acts>>

(* The audio clock runs on; a source that has played out falls silent.      *)
Elapse ==
  /\ now < MaxNow /\ eng.playing
  /\ now' = now + 1
  /\ eng' = [eng EXCEPT !.nodes = {n \in @ : n.at + n.len > now + 1}]
  /\ UNCHANGED acts

EngineNext ==
  \/ PlayPressed \/ PausePressed \/ SeekTo \/ RateChanged \/ setLoop \/ Destroyed
  \/ FetchDone \/ OrphanDone \/ Frame \/ Elapse

(* The server answers every request, or the browser gives it up.            *)
EngineFairness == WF_engineVars(FetchDone) /\ WF_engineVars(OrphanDone)
EngineSpec == EngineInit /\ [][EngineNext]_engineVars /\ EngineFairness

(* ------------------------------ properties ------------------------------ *)
(* At most one call fills the schedule, and it waits whenever it is marked. *)
OneFiller == eng.filling = (Len(SelectSeq(eng.waits, LAMBDA w : w.then = "next")) = 1)

(* A pause is heard at once, and nothing starts to sound while paused, from *)
(* however many fetches that were under way.                                *)
StaysSilent ==
  /\ eng.playing /\ ~eng'.playing /\ eng'.startOffset < Duration => eng'.nodes = {}
  /\ ~eng'.playing => eng'.nodes \subseteq eng.nodes

(* Every source plays the part of the track the engine's clock is at, and   *)
(* no two sound at once, over gaps, late windows and loops; unless a pause  *)
(* or a seek overtook a call that was waiting for a window, or the first    *)
(* window of a start could not be read (eng.troubled).                      *)
NoneOverlap == \A n, o \in eng.nodes : n = o \/ n.at + n.len <= o.at \/ o.at + o.len <= n.at
ChunksFollowTheClock ==
  isClockReady(eng) /\ ~eng.troubled =>
    NoneOverlap /\ \A n \in eng.nodes : n.from = ctxTimeToSourceTime(eng, n.at)

(* The window a loop jumps back to is kept through every trimming of the    *)
(* cache; a failed fetch of an older request may drop it.                   *)
PinKept ==
  \A k \in {loopPinChunk(eng)} \ {-1} :
    eng.cache[k] = "ready" /\ eng'.loop = eng.loop /\ ~eng'.destroyed /\ eng'.cache[k] # "ready"
      => k \in eng.orphans

(* Must end: who pressed play hears the track, or has paused it again.      *)
Unheard == eng.playing /\ ~eng.audioStarted

(* Must end: playback never runs dry because of a filler that is gone.      *)
Filling == eng.filling
=============================================================================
