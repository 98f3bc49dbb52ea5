# SelfStem in TLA+

SelfStem is a local web application that separates songs into stems.  A
FastAPI backend (`src/app`) imports a link or an uploaded file, runs it through
a pipeline (download, analysis, Demucs separation, mixing, beat grid,
sections), keeps the result as a directory per job and serves it to a browser
front end (`src/static`), which plays the stems, edits beats and sections and
exports mixes.  A Tauri shell (`src/desktop`) installs the runtime, starts the
backend and supervises it on the desktop.

This directory holds TLA+ models of the parts of it whose correctness depends
on the order in which things happen, the TLC configurations that check them,
and TLAPS proofs about the models.  `PROJECT.json` is the index: components,
runs, mutants, the source lines each definition stands for, findings, hazards
and theorems.

## 1. Inventory

### Backend

| component | state | operations | hard because |
|---|---|---|---|
| import queue (`pipeline/jobqueue.py`, `api/queue.py`) | waiting line, running id, pause and stop flags, an `asyncio.Event` | enqueue, discard, reorder, pause, start, worker loop, stop | the worker is a coroutine, the handlers are threadpool threads, the lock covers single accesses only |
| job registry (`core/registry.py`, `core/models.py`) | `_jobs`, `_procs`, `_deleted`, `registry.json`, the job directories | register, persist, restore, adopt orphans, delete, reset | memory, file and directories are written one after the other, and the process may die in between |
| import pipeline (`pipeline/runner.py`, `collect.py`) | the job's fields and directory, the subprocess that runs | stages, outcome handling, quarantine, sweep | runs in a thread of its own, is cancelled from another |
| job requests (`api/jobs.py`, `api/playlist.py`) | none of their own | submit, cancel, delete, edits, vocal split | act on a status read earlier; long awaits between check and use |
| separation worker (`pipeline/separate.py`, `demucs_worker.py`) | one warm subprocess, a line protocol on its pipes, a stall watchdog | reuse or spawn, dispatch, read, tear down, fall back to the CPU | four parties may end the process: its own failure, a cancel, the watchdog, shutdown |
| event streams (`api/events.py`, `api/queue.py`) | slot counter, version last sent | one stream per client for a job or for the queue | serialise while other threads write |
| factory reset, start and stop of the backend (`main.py`) | the stores of the others | lifespan, reset, sweep loop, relocation | check-then-act over several components |
| click of an export (`pipeline/click_render.py`) | none | beats, accents and count-in of a rendered mix | the same arithmetic as the browser's, written twice |
| stems folder relocation, vocal split, settings store, downloads of stems and mixes, section and beat analysis, download and search, statistics | | | not modelled, see section 7 |

### Browser and desktop

| component | state | operations | hard because |
|---|---|---|---|
| browser job view (`job.js`, `queue.js`, `playlist.js`) | the import in the foreground, its stream and poll, the queue's stream, the rows | submit, follow, probe, poll, complete, split, cancel | up to four sources report one job, each late in its own way |
| library (`catalog.js`) | tracks, folders, Trash, tombstones, their copy in the store | nest, move, trash, restore, empty, open, sync, re-import | four kinds of answer are written into whatever the library has become |
| player: engines and metronome (`chunkedAudioEngine.js`, `audioEngine.js`, `metronome.js`, `pitchBus.js`) | sources handed to the audio clock, cached windows, clicks handed over | play, pause, seek, loop, rate, keys, destroy | what was handed to the clock cannot be asked back; windows arrive late |
| player: studio (`player.js`, `mixer.js`, `playbackStems.js`) | the open track, its engine, lanes, gains, pictures, overlay | open, empty, solo, mute, transpose, draw, export | everything about a track arrives after another may have been opened |
| transport (`transport.js`, `loopRegion.js`) | play state, count-in, loop, zoom, click controls | gestures, fields, switches, timers | several ways set one value; the track may change under a gesture |
| editors (`beatgrid.js`, `beatgridUi.js`, `sections.js`) | grid, marks, anchors, ribbon; save timers and requests under way | drag, split, merge, undo, autosave, reset, change of the track | saves of one track beside the opening of the next |
| panels (`search.js`, `notifications.js`, `main.js`, `state.js`, `utils.js`) | rows and previews, failure cards, stem chips, export menu, the move of the store | typing, reporting, toggling, exporting, migrating | answers out of order, timers that give up on the shell |
| mobile page (`mobile/app.js`) | open track, switches, one import's card | open, delete, mix, import, follow | two awaits in one opening; a poll that may overlap itself |
| setup window (`desktop/ui/setup.js`, its commands in `main.rs`) | the step list, the Retry button, the installed runtime | probe, install, verify, start the backend, retry | a second run of setup overtakes the first |
| desktop shell (`desktop/src-tauri/src/main.rs`) | backend process, update staging | start, supervise, update, roll back | crashes between two renames; only what the setup window calls is modelled |

How they interact.  A request registers a job and appends it to the waiting
line, then wakes the worker through the event loop; the worker hands the job
to the pipeline thread and awaits it; the pipeline registers each subprocess
with the registry so that a cancel can terminate it; the outcome goes back
through the worker into the registry and the job directory; event streams read
the job object while the pipeline writes it; at the next start `restore`
rebuilds the table from `registry.json` and the directories and puts unfinished
jobs back in a paused line.  In the browser, streams and polls report a job to
the job view, which gives it to the library when it has ended and to the studio
when the user has not gone elsewhere; the studio brings up an engine for the
track, then the editors and the metronome on that engine; transport, mixer and
loop tell the engine what to do.  On the desktop the setup window comes first,
and the move of the user's data into the shell's store second.

The places where all this is hard to test are the `hazards` of `PROJECT.json`,
each at its line, with the properties that watch it.

## 2. Modules

| module | models | built on |
|---|---|---|
| `JobLifecycle` | what the queue promises of one job, no mechanism | |
| `ImportQueue` | queue, worker, pipeline thread, request handlers of one run of the process | refines `JobLifecycle` |
| `ImportQueueProofs` | what each operation on the waiting line does to its members; the invariants of `ImportQueue`; it implements `JobLifecycle` | `ImportQueue`, `JobLifecycle` |
| `JobRegistry`, `JobRegistryProofs` | table, file and directories through crashes and restarts | |
| `DemucsWorker`, `DemucsWorkerProofs` | the warm separation worker and everyone who may end it | |
| `SseStream` | the event stream of one job against the threads that write it; stream slots | |
| `JobView` | the imports of one page: foreground, background, queue stream | |
| `StreamProofs` | what is sent is so, slots are counted; a job that yielded never takes the studio: both ends of the streams, each proved by itself | `SseStream`, `JobView` |
| `Library` | tracks, folders, Trash and tombstones | |
| `ChunkedEngine`, `WavHeader` | the engine of long tracks; how it finds the samples in a file | |
| `AudioEngine`, `Metronome` | the engine of decoded tracks; the clicks over its clock | `Metronome` extends `AudioEngine` |
| `Player`, `Visuals`, `LoadingOverlay` | bringing a track up and down; what is drawn of it; the overlay | |
| `Mixer`, `Keys` | lanes, switches and gains; transposition and the pitch buses | |
| `Transport`, `LoopRegion`, `Timeline`, `ClickControl` | play, pause, count-in; the loop; zoom and rulers; click controls and the exported click | |
| `BeatGrid`, `BeatGridStore`, `Sections` | edits of the grid; its saves; the ribbon and its saves | |
| `Search`, `Notifications`, `StemChoice`, `AutoSections`, `ExportMenu`, `StoreMigration` | one panel or form each | |
| `MobilePlayer`, `MobileExtract` | the phone page: tracks; an import | |
| `SetupWindow` | setup before the backend is up | |
| `MCPlayback`, `MCPanels` | the browser's component modules, side by side, with their constants | all of these |
| `PlaybackProofs` | what is shown is of the open track, what the controls show is what plays: theorems on `Player`, `Visuals`, `Timeline`, `LoadingOverlay`, `Transport`, `Keys`, `LoopRegion`, `Mixer` | `MCPlayback` |
| `PanelsProofs` | panels show what is so: theorems on `Search`, `StemChoice`, `AutoSections`, `ExportMenu`, `StoreMigration`, `SetupWindow`, `MobilePlayer`, `MobileExtract` | `MCPanels` |
| `EditsProofs` | edits are kept, failures are told once and in order, no step loses what was set: theorems on `BeatGrid`, `BeatGridStore`, `Sections`, `Notifications`, `StemChoice` | `MCPanels` |
| `ListsProofs` | folders form a forest, every track is drawn, the removed stays removed: theorems on `Library`, and on all lists with the failures of `EditsProofs` | `EditsProofs` |
| other `MC...` | the constants of the small instances | the module they name |

### ImportQueue

The event loop is single-threaded: between two awaits of the worker no other
coroutine runs.  `LoopFree` (the worker is at an await) guards every action of
another coroutine (`CreateUrl`, `Upload...`, `LoopSetsWake`, `RequestStop`).
The sync endpoints run in threads and interleave with everything; each of their
steps ends where the code takes the lock, reads or writes shared state, or
releases a lock.  `wpc` is the worker's place in `_worker_loop`, `pipe` and
`stage` the pipeline thread's place in the current stage, `tpc`/`tjob` a handler
thread's.

`wake` and `scheduled` are the `asyncio.Event` and the pending
`call_soon_threadsafe(_wake.set)`.  That the two are different is the point of
`_notify`: the variant `NotifyDirectly`, in which a thread touches the event
itself, loses a wake-up, and `EveryJobGetsItsTurn` fails.

`Init` is any state in which `restore` leaves the process: any number of jobs in
the line, paused if there are some.

### JobRegistry

One process, its registry file, its job directories, and `Crash` at any point.
`mem`, `attempts`, `deletedIds` are the table and the deletion records in
memory; `disk` is `registry.json`; `present`, `source`, `stems` are the
directories.  `Persist` writes the file from memory under the lock, after
`_prune_deleted`.  `RemoveTree` may remove all of a directory or any part of it,
because `rmtree` errors are logged and ignored.  `Restore` is `restore()` line by
line: records, then orphan directories, then resume or recover.  `Serve` is the
rest of start-up: the save of the bumped counters, and the paused queue.

The waiting line is a set here, and a cancel finds a job either waiting or
claimed: the order and the race are `ImportQueue`'s subject.  `told`, `doomed`
and `starts` are history: the last thing the user was told of a job, whose
removal was begun, how often a job was started.

A save that fails is not modelled: `persist` is best effort by its own comment,
and with failing saves no property about the file could hold.

### DemucsWorker

`ppc` is the pipeline thread's place in `separate` and `_run_demucs`: look at
the flag (`check`), find or start a worker (`get`, `evict`), register it, write
the request, read, tear down (`clear`, `join`, `reap`, `reaped`), judge, and on
a GPU failure look again (`recheck`) and go round once more on the CPU.  A
process has a `life`, the requests nobody served (`inbox`) and the verdict lines
nobody read (`out`).  A process that was sent a signal is `dying`: `poll()` still
answers None, it may still report success, and a request may still fit in its
pipe.  Four parties send signals: `_kill_worker` of the pipeline, the watchdog
thread of the attempt (`wd`), cancel threads (`cpc`), and shutdown (`spc`), which
takes the cached process away with its own `_kill_worker`.

`separated`, `faulty` and `cut` are history: whose stems some process really
wrote, whose attempt failed of its own accord, and whose read raised while
somebody else's signal was ending the process (`separate.py:220-222`).  They let
the properties say "this verdict is about this job" and "this job was a
bystander".  An exception of the read leaves `separate` past its fallback to the
CPU (255-279), so a bystander that was cut does fail on a GPU; `BystanderSurvives`
says that this is the only way.  The identities
`Procs` are one per device and job, which is all that can be started; they bound
nothing.

Of the other pipeline stages only their cancel checks are here (`CheckCancel`,
`Settle`); of the worker's output only the verdict lines.

### SseStream

The streams are generators on the event loop, so at most one of them is between
two awaits (`Running`, `LoopFree`), and a `_set` made on the loop is seen whole
(`SetsAtOnce`).  The pipeline thread's and `cancel_job`'s `_set` are seen in
pieces: `Begins`, one `WritesField` per field in the order of the call, `Bumps`.
Who may write when follows the queue: a waiting job is claimed, dropped or
discarded once; a running one is written by its thread, and settled on the loop.
`to_state` reads one field at a time, which is more than CPython makes of it but
what the check in the stream is there for.  `base` and `target` are the job
before and after the `_set` under way.  The pipeline also writes fields that
`to_state` sends directly, past `_set` and without a new version (the device,
`separate.py:252`, `276-277`; timings, stems, peaks and video,
`runner.py:117-118`, `204-229`): `aside` counts these writes, `asideRead` and
`asideTold` say how many of them a snapshot and the last frame have.  No stream is
woken by them, so `ShowsTheJob`, `FrameIsExact` and `ChangeReachesClient` speak of
what `_set` writes; of the others `LastFrameIsWhole` says that they all precede the
last `_set`, so the frame that tells of the end has them.  A frame taken inside a
`_set` may be torn: `FrameIsExact` says that it mixes the job before and the job
after that one `_set`.  A slot is claimed by `Connects`, before
there is a stream, and given back by `Ends` (the stream's `finally`) or
`Collected` (`__del__`).

### JobView and Library

A page is one thread: an action is what runs between two awaits, and everything
asked of the server (`answers`, `refreshes`, `completions`) is in flight until
an action of its own applies it, in any order.  `finishing` are the jobs `finishDoneJob`
has taken out of the foreground and keeps waiting for their split.  `stopped` is the flag in the
closure of a job's stream, `conn` where its connection is, `deferred` the frame
that `requestAnimationFrame` has not applied.  `yielded` is history: who gave
up the studio or never claimed it, a job in `finishing` included when the user opens
another track.  Such a job takes the studio all the same when its split is over
(`job.js:446-452`, 327: nothing is asked after the wait), which is the exception
`YieldedNeverTakesStudio` states.

In `Library` every user act changes the page's copy and the store together, as
the code does, but for the tombstones: their write may fail, which clearing the bin
ignores (`catalog.js:195-201`, 2056-2058); `late` and `purged` remember what was under way and what was
deleted for good.  `FoldersFormAForest`, `NothingStranded` and
`EveryTrackIsDrawn` state the one exception the code has: Trash and Unsorted,
once nested, survive the deletion of their parent.

### The component modules of the browser

Each is one record (`eng`, `pl`, `mx`, `bs`, ...) for what a file keeps, and
`acts`, which counts what the user does.  An operator that takes and returns the
record is a function of the code; an action applies one or several of them, in
the order of the calls.  What a callback or a continuation compares before it
goes on (a token, a mount number, a generation, an epoch) is compared in the
action; what it does not compare is not.  Clock time is `now` or `clock`, a
number that only grows.

They share almost nothing but "the track that is open", so they are checked
side by side: a behaviour of `MCPlayback` or `MCPanels` belongs to one `part`
from its first state on, `st` is that part's record, and a property is a
conjunction of what each part promises.  A condition on several parts is one
condition for each of them, because no step leaves its part; the same holds for
fairness.  The parts that have theorems take their values from the constants of
`MCPlayback` and `MCPanels`; the constants of the others (`ChunkedEngine`,
`Metronome`, `WavHeader`, `ClickControl`) are fixed where `MCPlayback`
instantiates them.
`Metronome` is the exception: it runs over the clock of
`AudioEngine`, whose operations are steps of its own next-state relation.

`ChunkedEngine`, `AudioEngine`: a source on the audio clock is the stretch of
the track it plays and the clock time it starts at; the properties compare it
with the engine's own mapping from clock to track.  `WavHeader` parses a chunk
table and a file length, with the two request sizes of the code.  `Mixer`
decides what sounds and what an export contains from the same switches.
`ClickControl` works out the clicks of an export as `click_render.py` does,
and those heard as `metronome.js` does.  `BeatGridStore` and `Sections` keep
what the user wants beside what the server has (`want`).

What is easily made too simple, and is not:

* `Transport`.  Opening a track destroys the audio elements and puts the button
  out, but the engine of the track before sounds on until the new elements can play
  (`opened`, `canplay`, `replaced`).  An engine that decodes everything first
  ignores a play until it has decoded something (`deaf`, `audioEngine.js:266`), while
  the button shows it.  A play that waits for buffers is taken back by nobody.
  `lost`, `unseen` and `outlived` are history of these three, and `ButtonTells` and
  `PlaysWhenAsked` say that nothing else comes between the button, the sound and
  what was asked for.
* `Sections`.  Bars are counted on the one list of beats in memory
  (`beatgrid.js:640`): those of the track before, none, or edited ones (`setBeats`).
  Each section remembers which (`by`), and `BarsDescribeTimes` speaks of those.
  Opening a library track does not flush the ribbon (`missed`); a list that is saved
  in the middle of a gesture has bars that lag behind (`torn`).
* `StemChoice`.  The stored selection and the stored split mode arrive separately and
  draw nothing; chips and switch are drawn when the language and the move of the
  store are through (`SelectionAnswers`, `SplitAnswers`, `ChipsDrawn`, `ModeDrawn`).
  In between an import takes the stored selection under chips that show every stem,
  and that is what `ControlsShowTheChoice` says.  A submit whose answer is lost may
  have left a job on the server, with the file still armed (`untold`).
* `Notifications`.  A later sighting keeps the tail and drops the traceback
  (`notifications.js:257-261`); that details could not be had is put into the listed
  record and not into the store (457-465), so store and page differ in exactly that
  (`Mirrors`).

### SetupWindow

`sw.at` says at which command each run of `runSetup` is suspended, `sw.sees`
what it knows of the disk, `sw.disk` what is there.  A run that fails shows
Retry, and so does the GPU step without ending its run: that is how two runs
overlap.  `thrown` is the catch of `runSetup` with the `finally` of
`installRuntimePack`; the commands are those of the shell, abstracted to what
they leave on the disk, also when they fail: an extract may stop with the runtime
moved aside (`halfway`, put back by the next `ensure_workspace`, `recovered`) and a
failed verify removes the archive.  `probe_runtime` sees whether a Python runs, not
which version it is (`view`).  A run whose Python never answers is `hung`.

### Variants

A definition marked `Variant` is what a plausible mistake would make of the
definition after it.  No specification uses it.  Each is there to show that a
property notices the mistake:

| variant | instead of | noticed by |
|---|---|---|
| `WorkerVetsAndSkips` | `WorkerVets` | `NoLimbo`, `IInv`, `CancelIsAnswered` |
| `WorkerDropKeepsDir` | `WorkerDropCleans` | `CancelledFreesItsFiles` |
| `CancelDiscardUnlessRunning` | `CancelDiscard` | `TerminalIsFinal` |
| `PipeLaunchUnchecked` | `PipeLaunch` | `ImplementsLifecycle` |
| `NotifyDirectly` | `Notify` | `EveryJobGetsItsTurn` |
| `DeleteMarksIfGone` | `DeleteMarks` | `DeletedStaysDeleted` |
| `LandedIgnored`, `AdoptedNever` | `Landed`, `Adopted` | `FinishedSurvives`, `FileKeepsFinished` |
| `SweepMayTakeOld` | `SweepMayTake` | `WaitingUploadHasItsFile` |
| `ServeUnsaved` | `Serve` | `NoCrashLoop` |
| `PrunedBlindly` | `Pruned` | `IInv` |
| `AcknowledgeUnsaved` | `Acknowledge` | `AcceptedNotLost` |
| `SpawnAtOnce` | `Spawn` | `IInv` |
| `JoinsReapsReported` | `Joins` | `OkMeansSeparated` |
| `BrokenPipeStaysRegistered` | `BrokenPipe` | `NoStaleRegistration` |
| `FallBackNever` | `FallBack` | `BystanderSurvives` |
| `WatchdogLogs` | `WatchdogFires` | `SeparationEnds` |
| `ReleasesTwice` | `Releases` | `SlotsCounted` |
| `CollectedOnly` | `Collected` | `SlotComesBack` |
| `ChecksNothing` | `Checks` | `FrameIsExact` |
| `ReadsVersionAgain` | `Sent` | `ShowsTheJob`, `ChangeReachesClient` |
| `PipelineWritesLate` | `PipelineWrites` | `LastFrameIsWhole` |
| `WantsSplitAgain` | `WantsSplit` | `SplitAskedOnce` |
| `applyStateOfAnyJob` | `applyState` | `YieldedNeverTakesStudio` |
| `TickAnsweredInForeground` | `TickAnswered` | `ListeningEnds` |
| `SeekOverRunning` | `seek` | `SoundFollowsTheClock` |
| `engineReadyAnyTrack` | `engineReady` | `StudioIsOfOneTrack` |
| `engineUpUntold` | `engineUp` | `ControlsAreHeard` |
| `exportedUnmoved` | `exported` | `ExportSoundsAsHeard` |
| `StartUnguarded` | `startWith` | `LateFetchesDoNoHarm` |
| `playWhenReadyOnce` | `playWhenReady` | `NothingGetsStuck` |
| `reparentUnderAny` | `reparentFolder` | `ListsInOrder` |
| `destroyWithoutFlush` | `destroyBeatGrid` | `EditsAreKept` |
| `landsAnyway` | `lands` | `PanelsTellTheTruth` |
| `EvictingTrashed` | `addTrackToLibrary` | `RemovedStaysRemoved` |
| `leftNeighborNone` | `leftNeighborEnd` | `StepsKeepWhatWasSet` |
| `brokenForGood` | `broken` | `PanelsComeBack` |

## 3. Bounds

`ImportQueue`: two jobs and two threads show two handlers and the worker on one
job, with a second job to be next, to be moved, or to be the anchor of a move
(before, behind, gone); for longer lines there is the theorem `ReorderPermutes`.
`MaxPending = 1` makes the capacity limit bite with two jobs.  `Stages = 2`
separates "before the first stage" from "between stages"; for liveness it is 1.
No counter needs a bound of its own.  The run of the
two handlers treats its threads as symmetric: all its properties are about single
states and steps, and no definition tells one thread from another.

`JobRegistry`: `MaxCrashes` is the only bound that is not a constant of the
code.  Three crashes with `MaxResume = 1`, the value in the code, go once around: first
start, resumed, given up.  Two stems are what a partial `collect` needs; two
threads what two handlers on one job need.  A second job matters only to the
shared file, and is given one crash and one stem.  The proofs hold for every
value of all of these.

`DemucsWorker`: a verdict can be taken for another job's as soon as there are
two, one after the other; one cancel thread is enough to hold a process of the
first while the second runs.  The liveness run has one job and two cancel
threads, so that an attempt can be hit twice.

`SseStream`: with one slot for two clients every second connection meets the
limit.  `MaxWrites = 2` is a claim and one update before the last `_set`, and
`MaxAside = 1` one field written directly, at any moment of the two.

`JobView`: two imports, one of which splits its vocals, and one track of the
library to open.  `MaxTrouble = 2` counts failures, cancels and broken streams
together, so that a break can meet a cancel or a second break;
`MaxAttempts = 1` reaches the end of the back-off, where polling begins.

The component modules: `MaxActs` (3 to 5) bounds what the user does, and
`MaxMounts = 2` the tracks opened on a page: enough for an answer about the
first to arrive in the second, and for an act between the two.  Two stems, two
windows of a track, two lanes, two grids, two queries or two jobs are what it
takes for one to be mistaken for the other.  The library has five acts over two
finished tracks, a re-import of the first one's source, and four folders.
`SetupWindow` has three acts (Retry, a failing or a hanging command): a run can fail
and be retried while another is still under way.  `GridsInMemory` are the downbeats
the ribbon may find in memory.  The proofs of the panels hold for every
number of acts, and for any tracks, folders, lanes, stems, queries and keys (the constants
of `MCPanels`, which `Panels.cfg` gives their values).
`LoopRegion` and `Timeline` use small whole times with the minimum and the steps
of the code scaled to them (the proofs hold for every set of track lengths of
which the stretch that a new track proposes, a quarter of it, is no shorter than
the shortest loop: at the
0.2 s of the code, tracks of a second and more); `WavHeader` uses the real request sizes, with
metadata below, at and above them, and data chunks that are empty, plain, or
declared larger than the file.

`CHECK_DEADLOCK FALSE` appears where a system without requests stands still:
once every id is used up and the crashes are spent, every job is separated and
the backend is down, nobody connects, or the user's acts are spent.

## 4. Runs

| run | question | result |
|---|---|---|
| `queue_two_handlers` | who owns a job two handlers and the worker reach for; is a cancelled upload freed; does the queue implement `JobLifecycle`; is `IInv` (with the coherence of the line) invariant | holds |
| `queue_liveness` | is a wake-up ever lost; is every cancel answered | holds under `Fairness` |
| `registry_one_job` | what survives three crashes; what stays deleted; what is retried | holds |
| `registry_two_jobs` | is an acknowledged import known after a restart; does the file keep finished imports; is `IInv` invariant | holds |
| `worker_any_device` | is a result ever taken for another job's; do two workers hold the device (a part of `IInv`); does a GPU job survive a blow meant for another, unless its read raises | holds |
| `worker_liveness` | does a separation end when the worker never answers, unless it outlives a SIGTERM for ever | holds under `Fairness` |
| `worker_bystander` | does a cancel spare the jobs it does not name | violated |
| `sse_two_clients` | is a `_set` slept through or never sent; is a frame sent between two of them exact; has the last frame what was written past them; does every slot come back, once | holds |
| `imports_in_browser` | does an import the user has left take the studio (but at the end of its split); is a split asked for twice; does anything listen for ever | holds |
| `playback` | does what sounds follow the clock, the grid and the controls; is what is shown of the open track; does an export have what was heard; do late windows do harm; does anything get stuck | holds |
| `panels` | do folders stay a forest, the removed removed and the edits kept; do panels, phone and setup show what is so, and come back | holds |
| `playback_back_to_back` | is there one chain of sources | violated |

The properties of `playback` and `panels` name, part by part, the properties of
the component modules; each of those is stated with its exceptions where it is
defined.

Fairness (`ImportQueue!Fairness`): the event loop runs its callbacks and the
worker's next step (asyncio's scheduling); a handler thread finishes the request
it started; the pipeline thread returns, because every subprocess it waits for
has a timeout or a stall watchdog.  No user is assumed to act: nothing is fair
about submitting, starting, cancelling or reordering.  `CancelIsAnswered` exempts
shutdown and a job whose pipeline raised outside its own handler
(`DispatchRaises`), which stays "processing" for good.

Fairness (`DemucsWorker!Fairness`): the pipeline thread goes on, without being
made to fail (`SpawnFails`, `ReadRaises` stay free); the watchdog thread polls; a
process that `_kill_worker` ends dies, since there SIGKILL follows after five seconds
(`separate.py:46-50`); shutdown runs to its end.  The watchdog (163) and a cancel
(`jobs.py:375`) send SIGTERM and leave it at that: a worker wedged in a CUDA call may
outlive it, with the pipeline in its read, which is the exception `Outlived` of
`SeparationEnds`.  Nothing is assumed of a healthy worker: it may be silent for ever.

Fairness (`SseStream!StreamFairness`): a thread finishes the `_set` it is in; the event
loop gets round to every stream, also when others run in between (strong
fairness); what nothing refers to is collected.  That the client stays, leaves or
that four hours pass is not assumed, so `ChangeReachesClient` is not won by the
stream's end.

Fairness (`JobView!Fairness`): timers and animation frames fire, the server
answers or the fetch fails, an open stream delivers.  A job may run for ever.

Fairness (`MCPlayback`, `MCPanels`): fetches settle, since the browser fails
them in the end; engines come up or fail; timers fire; the commands the setup window
waits for answer or time out, because the shell gives them limits (downloads
`main.rs:3046`, pip 2312, the warm-up 1466, `nvidia-smi` 1951).  It gives none to the
probes and to the check of the GPU, which run a Python and wait for it (2224,
1876-1886, 2451-2462): these may hang (`Hangs`), and `SetupHolds` excepts a run that
does.  Nothing is fair about the user.  In `MCPanels` one condition serves one
action of several parts, which is the same as one condition each.

## 5. Findings

1. *A cancel that ends another job's separation* (`jobs.py:372`,
   `worker_bystander`).  Running id, process and terminate are three steps
   without a lock; the warm worker may have changed hands.  On a GPU the job hit
   falls back to the CPU unless its read raises (`BystanderSurvives`), on the CPU
   it fails.
2. *Two chains of sources* (`chunkedAudioEngine.js:590`,
   `playback_back_to_back`).  A seek while the first window of a play is still
   being fetched starts a second one; the continuation of the first asks only
   whether the engine plays, which it does again.  Both schedule the track, and
   both keep a frame loop.  `ChunksFollowTheClock` and `OneFiller`, which hold,
   say what remains true then.

Seen while modelling, and reached by the models, but stated by no run; they are
hazards of `PROJECT.json`, or too small for that list:

* The attempt counter is bumped for every resumable record, also for jobs that
  only waited in the paused line: after two restarts without pressing Start they
  are errors that never ran (`registry.py:266`).
* Any non-empty `stems/` counts as finished at a restart, but `collect` fills it
  one file at a time (`registry.py:302`).
* The save that drops a cancelled job's record precedes the removal of its
  directory; after a crash in between the next start adopts it as done
  (`runner.py:424`).
* Between the first field a `_set` writes and its version bump, a frame can be
  half old and half new (`events.py:98`).  It is corrected by the next one
  (`ShowsTheJob`), unless its status is terminal: then the stream closes behind
  it (`events.py:113`).
* What is written past `_set` reaches no client before the next `_set`, although
  `models.py:104` has the version bumped on every write.
* An import that waits for its split takes the studio from the track opened
  meanwhile (`job.js:446-452`).
* A play pressed before the engine has decoded anything, or over the track before,
  comes to nothing under a lit button (`audioEngine.js:266`, `player.js:1409`); one
  that waits for buffers outlives Stop (`transport.js:480`).
* A later sighting of a failure forgets the traceback and keeps the tail, and with a
  tail it is never fetched again (`notifications.js:257-261`).
* A tombstone that cannot be written stops nothing (`catalog.js:2056`).
* A torch that hangs leaves setup without Retry, under a hint that it should finish or
  time out automatically (`main.rs:2451`, `setup.js:361`).
* Opening another track does not flush the ribbon's pending save
  (`catalog.js:725`, against the comment at `sections.js:57`); an edit of the grid made while a save is
  in flight is lost when the editor is left before its own save
  (`beatgrid.js:275`).
* A stored mix that arrives after the engine leaves it in the recording's key,
  and a solo lane that is off screen silences playback but not the export
  (`mixer.js:166`, `player.js:1773`).
* A migration of the store that was cut short copies old values over newer ones
  at the next start (`utils.js:54`).
* In the queue: between `_set_running` and the status write a handler sees a
  running job that still counts as waiting (`jobqueue.py:256`); the stream of
  the queue compares a fingerprint that leaves out the status of a waiting job
  (`queue.py:74`).
* In the registry: a save that fails is only logged (`registry.py:171`), and one
  malformed record keeps all others from being restored (`registry.py:193`).
* In the requests: uploads that are being copied count towards the capacity
  only at the end (`jobs.py:231`); `vocal_split = "running"` is restored as such
  after a crash, and every later request finds a split under way
  (`jobs.py:402`).
* The factory reset (`main.py:585`), the sweep at start (`main.py:239`) and the
  relocation (`stems_location.py:34`) check first and act later.

## 6. Proofs

For every value of the constants, from the named assumptions on them
(`UploadsAssumption`, `LimitsAssumption`, `NoneAssumption`,
`FiniteJobsAssumption` of the queue; `KindsAssumption`, `StemsAssumption`,
`SettingAssumption`, `BoundsAssumption`, `NoneAssumption` of the registry;
`DevicesAssumption`, `JobsAssumption` of the worker; `LimitsAssumption`,
`ClientsAssumption`, `NoneAssumption` of the streams; `SplitsAssumption`,
`NoneAssumption`, `SubmissionsAssumption`, `BoundsAssumption` of the job view;
`EngineConstants` of the player, which names one assumption for each part;
`PanelConstants` of the panels, likewise):

* `ImportQueueProofs`: `IInv` is inductive.  `NoLimbo` is not inductive alone:
  that a job leaves the line only into a hand that will settle it needs to know
  which status the job in each hand has (`WorkerHand`, `HandlersServe`,
  `DiscardGivesOwnership`) and that nobody else has it (`QueueCoherent`).
  `TerminalIsFinal` follows because every status write is by an owner, and what
  is owned is not terminal.  `PipelineInStep` ties the stage counter to the job,
  which the refinement needs.  The lemmas on append, pop, removal and insertion
  say what each does to the set of members; `ReorderPermutes` says a reorder
  loses, adds and duplicates nothing.  `Refines`: every step maps to a step of
  `JobLifecycle` for one job, or to none; `PhaseOf` is the refinement mapping.
* `JobRegistryProofs`: `IInv` is inductive through crashes.  `SaveFacts` and
  `RemovalFacts` say once what a save and a removal do.  `DeletedStaysDeleted`
  needs `DeletedLeavesNoTrace` (either the directory is gone or the file knows),
  which needs to know where each delete is (`ActorsInStep`); `NoCrashLoop` needs
  `StartsCounted`, which relates starts, the counter in memory and the counter
  on disk.  `AcceptedNotLost`, `WaitingUploadHasItsFile` and `FileKeepsFinished`
  rest on three more parts.  `EndingsAreTold`: whoever is cancelled or has
  failed has been told so before anything is removed, at each place the worker
  and the handlers can be.  `FinishedOnFile`: what memory or the file calls done
  has stems on the disk, and what the file calls done the running process does
  too, so that no save writes it back.  `AcceptedOnFile`: an acknowledged import
  is in the file, an upload still to be run has its own file, and nothing that
  waits has stems, by which a restart would take it for finished.
* `DemucsWorkerProofs`: `IInv` is inductive, whoever ends a process and when.
  `OkMeansSeparated` needs that what is on the pipes of a process in use is about
  the running job (`AttemptIsItsOwn`), which needs that a process kept for the
  next job has nothing left to do or to say (`WarmIsClean`).  `AtMostOneWorker`
  and the two need to know who holds each living process
  (`ProcessesAccounted`).  `BystanderSurvives` looks at two attempts in a row: the
  first may be hit by a cancel of another job, and ends the job only if its read
  raises (`cut`); the second may not be hit.  It needs
  that a bad verdict has cost the process its place before anyone judges it
  (`VerdictsAreMeant`), that whatever a cancel holds was born while the cancelled
  job ran (`CancelsAreAimed`), and so that the second attempt has a process of
  its own that no cancel holds and that answers well (`FallbackGoesWell`, under
  `Undisturbed`).
* `StreamProofs`, first half: `StreamIInv` is inductive.  `ShowsTheJob` speaks of
  the frame sent last, so the invariant has to follow that frame back to where it
  was read: what a stream has read so far is the job's, unless the version moved
  or a `_set` is under way (`StreamsInStep`).  That this survives every writer needs a `_set` to
  write nothing outside its begin and its bump, and no write after the last one
  (`WritersInStep`); that a stream goes to sleep only behind a frame needs the
  order of the versions it remembers.  `LastFrameIsWhole` is a part of the invariant:
  whoever has read a status that ends the job has read it after the last direct write
  (`EndsShown`).  `SlotsCounted` is inductive with `TypeOK`.
* `StreamProofs`, second half: `IInv` of `JobView` is inductive for any number of imports, flows and
  broken streams.  `SplitAskedOnce` needs `SplitsCounted` (asked for means
  remembered in `triggered`).  `YieldedNeverTakesStudio` needs `StudioClaims`: a
  job that gave the studio up is not in the foreground, and a job that waits for its
  split is not either, so that what it does when it is back is the exception and
  nothing else is; a new submission may take the foreground only because the server has
  never seen its job (`NotSeenYet`), which no other flow is sending
  (`SentOnce`).  `AttemptsCounted` bounds the reconnects, and says that a probe
  waits for one answer.
* `PlaybackProofs`, first half: `StudioIsOfOneTrack`, part by part.  `PlayerIInv` strengthens
  `OneEngineAlive` and `ClickHasItsEngine` by what may be coming up beside the
  engine that plays: at most one engine of each track (`OneComesUp`), none of the
  open track once its engine is up (`PlaysAlone`), so that all others are late
  (`OthersAreLate`); `ClickIsThere` needs `ClickAwaited`, that the engine waits
  where the answer about the beats will look.  `VisualsIInv` says of every answer
  under way which token it carries; `TimelineIInv` that the ruler was laid out
  for the length and width on screen, with lemmas on the ladder of bar steps.
* `PlaybackProofs`, second half: `ControlsAreHeard`, part by part.  `TransportIInv` counts the
  plays that wait against the acts that asked for them, and says what each of the
  engine, the elements and the button may be doing in every phase of a change of the
  track (`PartsPlay`), from which `ButtonTells` and `PlaysWhenAsked` follow with their
  exceptions.  `KeysIInv` says of a
  source whose bus is being exchanged that it is exchanged for the key of its
  lane (`SwapsTune`).  `LoopIInv` says of a gesture under way that it holds
  bounds in order (`DragsInTrack`) and that bounds somebody set stay far enough
  apart also while they move (`LongEnough`).  `MixerIInv` says that what is on
  screen is some choice of the stems the job offers (`ShownIsVisible`), from
  which it follows, whatever the stems, that no part of the song is played by two
  sources (`PartsAreApart`) and none is lost (`NoPartIsLost`).
* `PanelsProofs`: `PanelsTellTheTruth`, part by part; each part's invariant
  stands beside its properties in the part's module (`SearchIInv`, `ChoiceIInv`,
  `AutoIInv`, `ExportIInv`, `MigrationIInv`, `MobileIInv`, `ExtractIInv`), that
  of setup in the proofs.
  - Search: rows answer the box because the search on its way is for what was
    asked last, under the tab it was asked under (`MineIsLast`), and because the
    numbers that tell searches apart do not run out before the acts do
    (`FlightsCounted`).
  - Stem choice: a click before the store has answered is one that raced it
    (`ClicksRace`), until then nothing but every stem is chosen (`UntouchedIsWhole`),
    and an import is asked for once because the file it sends is older than the next
    one picked (`FilesAreOlder`).
  - Sections button: a setting that is on and not shown has an answer under way
    that will settle it (`OnIsAnswered`); what that answer says is still true
    when it arrives (`AnswersAreTrue`), since one click at a time is unanswered
    (`OneClick`).
  - Export menu: as long as no timer had to step in there is one export, and it
    has the newest token (`NewestToken`).
  - Store migration: while keys are copied, each is in its old place or in its
    new one (`WholeSoFar`), whatever fails before or after.
  - Phone: an opening that waits for its details has no engine yet (`NotYetUp`),
    so that switches and speed cannot disagree with it; an import is followed in
    one way at a time (`OneWay`) and no longer once its split was asked for
    (`SplitIsLast`).
  - Setup: a run decides from what it saw some commands ago, while another run
    works on the same disk, and an extract, also one that fails, takes the runtime
    off the disk for a while.  What keeps the runs apart is that a run that installs
    is the only one under way and offers no Retry, and that where two runs are under
    way, or one and Retry, the runtime is the expected one and stays (`RunsOK`);
    `RunOK` says the same of what one run knows and has done.  `RunMoves` says once
    what a move of one run has to show; every command is a case of it.  That there is
    one progress listener needs the place of every run that may hold one (`SetupInv`).
    These are also proved of `SetupWindow`'s own specification.
* `EditsProofs`: `EditsAreKept`, `StepsKeepWhatWasSet`, and of `ListsInOrder` the
  half about failures, for any grids, sections, failures and bounds the
  assumptions of `MCPanels` admit.
  - Grid: not only the layout on screen is well laid, every layout that undo or
    redo may bring back is too (`GridIInv`).  What an edit does to the beats is a
    recursive function; that it leaves them in order is shown by the least index
    at which it would not.
  - Grid store: what the user wants is on its way as long as the server has
    something else (`StoreIInv`, `WellKept`), whichever answer comes first.
  - Ribbon: no section ends before it begins wherever a list of them is, on screen, in
    a gesture, on its way or on the server, and what the user made of a track is
    shown, on its way or on the server, unless it was missed (`SectionsIInv`);
    whatever list is saved outside a gesture has its bars counted (`CountedIInv`).
  - Failures: the list runs from the newest to the oldest, no failure twice
    (`NotifIInv`), and the store has what is listed, empty details excepted
    (`Mirrors`, which has to survive merging, cutting off and writing).  The list is filtered and
    sorted by `Kept` and `newestFirst`, recursive functions of the model: the
    library's `SelectSeq` and `SortSeq` are opaque to the provers.  That sorting
    sorts is proved over ranks, the number of failures that are newer.
  - `StepsKeepWhatWasSet` speaks of two states in a row.  It needs all of the above
    before the step, and that the choice of stems is one of the choices there are.

* `ListsProofs`: `RemovedStaysRemoved` and `ListsInOrder`, for any finite set of
  folders, any tracks, sources and playlists.
  - What is removed: `LibraryIInv`.  What was deleted for good has its tombstone
    in the store before the server is asked, unless that write failed; the page knows
    every tombstone there is (`TombstonesStand`), and a new import
    cannot bring it back because whatever is in the library or about to be
    written to it is a job the server has heard of (`OnlyHeardOf`).  That the
    Trash keeps what it has is a fact about `addTrackToLibrary` (`AddGrows`).
  - Folders: `ListsIInv` adds `InOrder`, that no folder is above itself, the
    Trash and Unsorted are always there, the Trash as a root, and no folder but
    Unsorted hangs on one that is gone.  `FoldersFormAForest` alone is not
    inductive: it speaks of folders that exist, and an act may bring one back.
    `isFolderDescendant` walks up until there is no parent; here that is `Reach`,
    as many steps as there are folders.  `ReachIsClosed` shows that this is
    enough (as long as a step adds something the set reached has at least as many
    members as steps were made), `ReachIsLeast` that nothing more is reached.
    From the two, whatever is closed under "parent of" contains what is above a
    folder (`AboveIsLeast`), and all steps on folders are two cases: hanging a
    folder under one it is not above (`Grafted`) and letting folders go
    (`Pruned`).
  - Orders: appending, leaving out and inserting keep a list without doubles
    (`Appended`, `KeptRanked`, `InsertRanked`), so a folder keeps its one place
    through `reorderFolder`.
  - Tracks: no operation leaves a track loose that was not, but for a job whose
    answer came late (`Tidies` for what becomes of the record, `Ordered` for a
    step).  A track that lies in a folder is drawn, because whatever is above an
    existing folder exists, unless it hangs below Unsorted (`OrderShows`).
  - A sync and a playlist fold `addTrackToLibrary` over a sequence; that the fold
    keeps all this (`EachGrows`, `EachTidies`) is an induction, made as a least
    counterexample (`LeastOfNat`): the library's well-foundedness of the natural
    numbers takes no operator as a parameter, its induction rule does.

What proving corrected in the models: a chunked and a decoded engine of one
track may wait for the same beat grid, and the one that plays must get it,
whichever asked (`Player!beatsThere`, `peaksThere`); an engine that comes up too
late takes down the click of the engine that plays (`undone`, `player.js:1427`,
a hazard of `PROJECT.json` and the exception in `ClickIsThere`); an
answer about a picture is of a track mounted before only if the canplay handlers
still subscribed are counted too (`Visuals!OfMounted`); that the loop of a new
track can be heard needs a track of some length (`LoopAssumption`); and the
truth of the sections button's answers could only be kept with what a lost answer
means, that the button has been told of a failure (`AnswersAreTrue`).  Clearing the failures writes the store
also when the list is empty (`notifications.js:305`): the model had it return
early, and with a list that is not yet loaded the two differ.  And a
property: `TrashedStaysTrashed` excused only a job that is cancelled on the server
when the answer is applied.  The answer may be older: the job was cancelled, then
deleted while the bin was emptied, and the word of its cancelling still evicts the
track from a Trash it was put into meanwhile.  TLC finds this with six acts, one more than
the run has; the exception is now what the code does, the word itself.

What reading the models against the code once more corrected, in the direction of
the code each time: who escalates to SIGKILL, the read that raises under another's
signal, the fields written past `_set`, the split that comes back, the engine that is
deaf or sounds on, the beats of another track, the two answers of the store, the lost
answer of a submit, the tombstone that is not written, the traceback that is dropped,
the extract that stops half-way and the check that hangs.  Each was a step or an
error path the models had easier than the code; the properties now name what it
costs, and the proofs carry it.

What stays with TLC, and why:

* Liveness: `EveryJobGetsItsTurn`, `CancelIsAnswered`, `SeparationEnds`,
  `ChangeReachesClient`, `SlotComesBack`, `ListeningEnds`, `NothingGetsStuck`,
  `PanelsComeBack`.  The provers have no rule for fairness.
* `SoundFollowsTheClock` and `LateFetchesDoNoHarm`: what the engines hand to the
  audio clock is folded from sequences of windows and clicks, and `WavHeader`
  walks a chunk table.  What a fold computes for every sequence needs an
  induction, which can be written as a least counterexample for a recursive
  function, as in `EditsProofs`, but not for a fold of the library, whose
  operator is a parameter.
* `ExportSoundsAsHeard`: the click of an export rests on a median of beat
  distances over sorted sequences.

## 7. Not modelled, and the plan

Proofs that would come next: the part of `LateFetchesDoNoHarm` and
`SoundFollowsTheClock` that needs no induction (tokens, chains and what is pinned
in the chunked engine).

Modules planned, in this order:

1. The queue's own stream (`api/queue.py`), composed with the queue.
2. `FactoryReset`, `Relocation`: composed with the queue, check-then-act over
   queue, registry and directories; a crash during the copy.
3. `VocalSplit`: the pipeline lock shared with imports, the persisted
   "running".
4. `SettingsStore`: file and backup through crashes, lost updates.
5. `MixdownCache`, `DesktopUpdate`: cache eviction; staging, swap and rollback
   with a crash between any two renames.
6. Pure algorithms against a reference definition over bounded inputs: beat-grid
   repair, section snapping, stem presence.

Left out for good: signal processing and model inference (numeric), what is
drawn and how (canvas, markup, drag images), translations, loading phrases and
formatting, the yt-dlp wrapper's options, vendored code, packaging scripts.
