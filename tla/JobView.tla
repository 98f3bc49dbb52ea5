------------------------------ MODULE JobView ------------------------------
(***************************************************************************)
(* The browser's view of imports: src/static/js/job.js, queue.js and       *)
(* playlist.js, with the parts of catalog.js they drive.                   *)
(*                                                                         *)
(* One page shows jobs that live on the server.  At most one of them, the  *)
(* foreground job, owns the studio: it has an event stream of its own,     *)
(* with a probe and a back-off after an error and REST polling when that   *)
(* is used up.  Every other import runs in the background and is followed  *)
(* through one stream of queue snapshots; that a job has ended is inferred *)
(* from its absence in a snapshot, and its final state is then fetched.    *)
(* Every answer of the server is in flight for a while and is applied to   *)
(* whatever the page shows by then.                                        *)
(***************************************************************************)
EXTENDS Naturals, Sequences

CONSTANTS
  Jobs,          \* the imports the user may start
  Splits,        \* those submitted with "Lead + Backing" (jobVocalSplitModes)
  Library,       \* tracks that were in the library before
  None,
  MaxAttempts,   \* reconnects of a stream before it is polled (6 in the code)
  Submissions,   \* what the form may submit: <<kind, sequence of imports>>
  MaxTrouble     \* bound: requests and connections that fail, jobs that fail,
                 \* are cancelled or deleted elsewhere, tracks opened,
                 \* unavailable tracks re-imported and queue refreshes, together

ASSUME SplitsAssumption == Splits \subseteq Jobs
ASSUME NoneAssumption == None \notin Jobs \cup Library /\ Jobs \cap Library = {}
(* Every file or link becomes a job of its own: the server hands out ids.  *)
ASSUME SubmissionsAssumption ==
  /\ Submissions \subseteq {"files", "playlist"} \X (Seq(Jobs) \ {<<>>})
  /\ \A s \in Submissions : \A i, k \in 1..Len(s[2]) : s[2][i] = s[2][k] => i = k
ASSUME BoundsAssumption == MaxAttempts \in Nat /\ MaxTrouble \in Nat

VARIABLES
  srv,           \* the server: status of each job, as the page can ask for it
  \* the form and importFromUrl
  flow,          \* where each of the two submitting flows stands
  processing,    \* the submit button is disabled (setSubmitProcessing)
  \* the foreground job
  foreground,    \* foregroundJobId
  cancelShown,   \* jobCancelBtn is visible
  eventSource,   \* the job whose EventSource the page remembers, or None
  conn,          \* connectEvents of each job: off, open, probing, backoff
  stopped,       \* its `stopped`
  attempt,       \* its `attempt`
  deferred,      \* a frame waiting for its setTimeout(0), or None
  poll,          \* the job of jobPollTimerId, or None
  answers,       \* answers of GET /api/jobs/{id} in flight to probe or tick
  \* what is shown
  row,           \* the library row of each job: none, kept, unavailable
  studio,        \* the track loaded in the studio, or None
  opening,       \* the track loadTrackIntoStudio is fetching, or None
  rendered,      \* renderedJobs
  finishing,     \* finishDoneJob is waiting for the vocal split
  triggered,     \* splitAutoTriggered
  \* the queue
  queueConn,     \* open, backoff or polling
  queueAttempt,
  seen,          \* lastSeenIds
  refreshes,     \* answers of GET /api/queue in flight
  completions,   \* completeSettledJob calls waiting for GET /api/jobs/{id}
  splitting,     \* completeSettledJob is waiting for the vocal split
  \* history and bounds
  yielded,       \* jobs that never claimed the studio or saw it go to another
  posts,         \* POST .../vocal-split sent per job
  trouble        \* how much of MaxTrouble is used up

form     == <<flow, processing>>
stream   == <<eventSource, conn, stopped, attempt, deferred>>
screen   == <<studio, opening>>
queue    == <<queueConn, queueAttempt, seen, refreshes>>
settling == <<completions, splitting>>
vars == <<srv, form, foreground, cancelShown, stream, poll, answers, row,
          screen, rendered, finishing, triggered, queue, settling, yielded,
          posts, trouble>>

TERMINAL_STATUSES == {"done", "error", "cancelled"}
Live == {"running"}   \* queued, downloading, ... : all the page sees is that it is not over
Answered == Live \cup TERMINAL_STATUSES \cup {"gone", "lost"}

Flows == {"form", "import"}
Kinds == {"files", "playlist", "import"}
Idle == [pc |-> "idle", kind |-> "files", rest |-> <<>>, background |-> FALSE, sent |-> 0]

TypeOK ==
  /\ srv \in [Jobs -> {"new"} \cup Live \cup TERMINAL_STATUSES \cup {"gone"}]
  /\ flow \in [Flows -> [pc : {"idle", "posting", "dialog"}, kind : Kinds,
                         rest : Seq(Jobs), background : BOOLEAN, sent : Nat]]
  /\ processing \in BOOLEAN /\ cancelShown \in BOOLEAN
  /\ foreground \in Jobs \cup {None} /\ eventSource \in Jobs \cup {None}
  /\ conn \in [Jobs -> {"off", "open", "probing", "backoff"}]
  /\ stopped \in [Jobs -> BOOLEAN]
  /\ attempt \in [Jobs -> 0..(MaxAttempts + 1)]
  /\ deferred \in [Jobs -> Live \cup TERMINAL_STATUSES \cup {None}]
  /\ poll \in Jobs \cup {None}
  /\ answers \subseteq [job : Jobs, to : {"probe", "tick"}, status : Answered]
  /\ row \in [Jobs -> {"none", "kept", "unavailable"}]
  /\ studio \in Jobs \cup Library \cup {None}
  /\ opening \in Jobs \cup Library \cup {None}
  /\ rendered \subseteq Jobs /\ finishing \subseteq Jobs /\ triggered \subseteq Jobs
  /\ queueConn \in {"open", "backoff", "polling"}
  /\ queueAttempt \in 0..(MaxAttempts + 1)
  /\ seen \subseteq Jobs /\ refreshes \subseteq SUBSET Jobs
  /\ completions \subseteq [job : Jobs, status : Answered]
  /\ splitting \subseteq Jobs /\ yielded \subseteq Jobs
  /\ posts \in [Jobs -> Nat]
  /\ trouble \in 0..MaxTrouble

Init ==
  /\ srv = [j \in Jobs |-> "new"]
  /\ flow = [f \in Flows |-> Idle] /\ processing = FALSE
  /\ foreground = None /\ cancelShown = FALSE
  /\ eventSource = None /\ conn = [j \in Jobs |-> "off"]
  /\ stopped = [j \in Jobs |-> FALSE] /\ attempt = [j \in Jobs |-> 0]
  /\ deferred = [j \in Jobs |-> None] /\ poll = None /\ answers = {}
  /\ row = [j \in Jobs |-> "none"]
  /\ studio = None /\ opening = None
  /\ rendered = {} /\ finishing = {} /\ triggered = {}
  /\ queueConn = "open" /\ queueAttempt = 0 /\ seen = {}
  /\ refreshes = {} /\ completions = {} /\ splitting = {}
  /\ yielded = {} /\ posts = [j \in Jobs |-> 0]
  /\ trouble = 0

Spend == trouble < MaxTrouble /\ trouble' = trouble + 1

----------------------------------------------------------------------------
(* The server: external to the page. *)

CurrentIds == {j \in Jobs : srv[j] \in Live}

ServerEnds(j) ==
  /\ srv[j] \in Live
  /\ \/ srv' = [srv EXCEPT ![j] = "done"] /\ UNCHANGED trouble
     \/ srv' = [srv EXCEPT ![j] = "error"] /\ Spend
  /\ UNCHANGED <<form, foreground, cancelShown, stream, poll, answers, row,
                 screen, rendered, finishing, triggered, queue, settling,
                 yielded, posts>>

(* Deleted from another page, or swept: GET /api/jobs/{id} answers 404. *)
ServerForgets(j) ==
  /\ srv[j] \in Live \cup TERMINAL_STATUSES /\ Spend
  /\ srv' = [srv EXCEPT ![j] = "gone"]
  /\ UNCHANGED <<form, foreground, cancelShown, stream, poll,
                 answers, row, screen, rendered, finishing, triggered, queue,
                 settling, yielded, posts>>

----------------------------------------------------------------------------
(* The studio changes hands. *)

(* Closing an EventSource is what ends a stream: `stopped` stays as it is,  *)
(* and a probe or a scheduled reconnect of the same stream goes on.         *)
CloseRemembered ==
  /\ eventSource' = None
  /\ conn' = IF eventSource # None /\ conn[eventSource] = "open"
             THEN [conn EXCEPT ![eventSource] = "off"] ELSE conn
  /\ UNCHANGED <<stopped, attempt, deferred>>

resetImportUi ==
  /\ CloseRemembered
  /\ poll' = None /\ cancelShown' = FALSE /\ foreground' = None

reset == resetImportUi /\ studio' = None

(* connectEvents(j) after CloseRemembered or on an idle page. *)
Connect(j) ==
  /\ conn' = [conn EXCEPT ![j] = "open"] /\ eventSource' = j
  /\ attempt' = [attempt EXCEPT ![j] = 0] /\ stopped' = [stopped EXCEPT ![j] = FALSE]
  /\ UNCHANGED deferred

detachForegroundJob ==
  IF foreground = None THEN UNCHANGED <<foreground, cancelShown>>
  ELSE foreground' = None /\ cancelShown' = FALSE

(* The user wants x in the studio: not the import in the foreground, nor    *)
(* one that waits for its split to be loaded.                               *)
GivesWayTo(x) == yielded' = yielded \cup ((finishing \cup {foreground}) \ {x, None})

(* loadTrackIntoStudio, up to its first await.  A later call makes the      *)
(* earlier one return (_loadTrackToken).                                    *)
OpenTrack(x) ==
  /\ x \in Jobs => row[x] \notin {"none", "unavailable"}
  /\ Spend
  /\ opening' = x
  /\ IF x # foreground THEN detachForegroundJob ELSE UNCHANGED <<foreground, cancelShown>>
  /\ GivesWayTo(x)
  /\ UNCHANGED <<srv, form, stream, poll, answers, row, studio, rendered,
                 finishing, triggered, queue, settling, posts>>

(* ... and after it: only a track with audio is loaded. *)
TrackOpened ==
  /\ opening # None /\ opening' = None
  /\ \/ /\ opening \in Library \/ (opening \in Jobs /\ srv[opening] = "done")
        /\ studio' = opening
        /\ row' = IF opening \in Jobs THEN [row EXCEPT ![opening] = "kept"] ELSE row
     \/ /\ opening \in Jobs /\ srv[opening] # "done"
        /\ row' = [row EXCEPT ![opening] = IF srv[opening] = "gone"
                                           THEN "unavailable" ELSE "kept"]
        /\ UNCHANGED studio
  /\ UNCHANGED <<srv, form, foreground, cancelShown, stream, poll, answers,
                 rendered, finishing, triggered, queue, settling,
                 yielded, posts, trouble>>

----------------------------------------------------------------------------
(* Submitting. *)

Unsent == {j \in Jobs : /\ srv[j] = "new"
                        /\ \A f \in Flows : \A i \in 1..Len(flow[f].rest) : flow[f].rest[i] # j}

(* The submit handler, up to its first await.  Whether the import may have  *)
(* the studio is decided here, once.                                        *)
Submit(kind, js) ==
  LET background == studio # None \/ foreground # None IN
  /\ ~processing /\ flow["form"].pc = "idle"
  /\ \A i \in 1..Len(js) : js[i] \in Unsent
  /\ processing' = TRUE
  /\ flow' = [flow EXCEPT !["form"] =
                [pc |-> "posting", kind |-> kind, rest |-> js,
                 background |-> background \/ kind = "playlist", sent |-> 0]]
  /\ IF background
     THEN UNCHANGED <<stream, poll, cancelShown, foreground, studio, yielded>>
     ELSE reset /\ GivesWayTo(Head(js))
  /\ UNCHANGED <<srv, answers, row, opening, rendered, finishing,
                 triggered, queue, settling, posts, trouble>>

(* importFromUrl: "Sync again" and a click on an unavailable track. *)
ImportFromUrl(j) ==
  /\ flow["import"].pc = "idle" /\ j \in Unsent
  /\ Spend
  /\ reset /\ GivesWayTo(j)
  /\ processing' = TRUE
  /\ flow' = [flow EXCEPT !["import"] = [pc |-> "posting", kind |-> "import",
                rest |-> <<j>>, background |-> FALSE, sent |-> 0]]
  /\ UNCHANGED <<srv, answers, row, opening, rendered, finishing,
                 triggered, queue, settling, posts>>

(* importPlaylist: the preview was read and the user is asked. *)
Preview ==
  /\ flow["form"].pc = "posting" /\ flow["form"].kind = "playlist"
  /\ flow' = [flow EXCEPT !["form"].pc = "dialog"]
  /\ UNCHANGED <<srv, processing, foreground, cancelShown, stream, poll,
                 answers, row, screen, rendered, finishing, triggered, queue,
                 settling, yielded, posts, trouble>>

(* A flow whose import was taken: the next one, if there is one.            *)
OneSent(c) == IF Len(c.rest) = 1 THEN Idle
              ELSE [c EXCEPT !.rest = Tail(c.rest), !.sent = c.sent + 1]

(* The server takes the file or link at hand: its row appears, and the      *)
(* first import of a flow that found the studio free takes it.              *)
Registered(f) ==
  LET j == Head(flow[f].rest)
      takes == ~flow[f].background /\ flow[f].sent = 0
  IN
  /\ flow[f].pc = "posting" /\ flow[f].kind # "playlist"
  /\ srv' = [srv EXCEPT ![j] = "running"]
  /\ row' = [row EXCEPT ![j] = "kept"]
  /\ flow' = [flow EXCEPT ![f] = OneSent(@)]
  /\ processing' = IF Len(flow[f].rest) = 1 THEN FALSE ELSE processing
  /\ IF takes
     THEN /\ Connect(j) /\ foreground' = j /\ cancelShown' = FALSE
          /\ UNCHANGED yielded
     ELSE /\ yielded' = yielded \cup {j}
          /\ UNCHANGED <<stream, foreground, cancelShown>>
  /\ UNCHANGED <<poll, answers, screen, rendered, finishing, triggered, queue,
                 settling, posts, trouble>>

(* addPlaylistToLibrary: every track at once, none of them in the studio. *)
PlaylistRegistered ==
  LET r == flow["form"].rest
      js == {r[i] : i \in 1..Len(r)}
  IN
  /\ flow["form"].pc = "dialog"
  /\ srv' = [j \in Jobs |-> IF j \in js THEN "running" ELSE srv[j]]
  /\ row' = [j \in Jobs |-> IF j \in js THEN "kept" ELSE row[j]]
  /\ yielded' = yielded \cup js
  /\ flow' = [flow EXCEPT !["form"] = Idle] /\ processing' = FALSE
  /\ UNCHANGED <<foreground, cancelShown, stream, poll, answers,
                 screen, rendered, finishing, triggered, queue,
                 settling, posts, trouble>>

(* The request is refused or the server not reached, or the user declines.  *)
Refused(f) ==
  LET c == flow[f] IN
  /\ \/ c.pc = "posting" /\ Spend
     \/ c.pc = "dialog" /\ UNCHANGED trouble
  /\ flow' = [flow EXCEPT ![f] = Idle] /\ processing' = FALSE
  /\ foreground' = IF c.kind = "files" /\ Len(c.rest) > 1 /\ c.sent = 0 /\ ~c.background
                   THEN None ELSE foreground
  /\ UNCHANGED <<srv, cancelShown, stream, poll, answers, row, screen,
                 rendered, finishing, triggered, queue, settling, yielded, posts>>

----------------------------------------------------------------------------
(* The state of one job arrives. *)

(* A variant without the guard of splitAutoTriggered. *)
WantsSplitAgain(j) == j \in Splits

(* runVocalSplitIfWanted fires for a finished job at most once. *)
WantsSplit(j) == j \in Splits /\ j \notin triggered

TriggerSplit(j) == /\ triggered' = triggered \cup {j}
                   /\ posts' = [posts EXCEPT ![j] = @ + 1]

(* finishDoneJob: the split first, if it is wanted, then wireUpAudio. *)
finishDoneJob(j) ==
  IF WantsSplit(j)
  THEN /\ TriggerSplit(j) /\ finishing' = finishing \cup {j}
       /\ UNCHANGED studio
  ELSE /\ studio' = j
       /\ UNCHANGED <<triggered, posts, finishing>>

(* A variant that lets any job act as the foreground one. *)
applyStateOfAnyJob(j, s) ==
  /\ row' = [row EXCEPT ![j] = "kept"]
  /\ foreground' = IF s \in TERMINAL_STATUSES THEN None ELSE foreground
  /\ cancelShown' = (s \notin TERMINAL_STATUSES)
  /\ IF s = "done" /\ j \notin rendered
     THEN rendered' = rendered \cup {j} /\ finishDoneJob(j)
     ELSE UNCHANGED <<rendered, finishing, triggered, posts, studio>>

(* applyState.  The row is written whoever is in the foreground; the rest   *)
(* belongs to the foreground job.  A terminal state releases it and, the    *)
(* first time a job is done, loads the result.                              *)
applyState(j, s) ==
  LET mine == j = foreground
      final == s \in TERMINAL_STATUSES
  IN
  /\ row' = [row EXCEPT ![j] = "kept"]
  /\ foreground' = IF mine /\ final THEN None ELSE foreground
  /\ cancelShown' = IF mine THEN ~final ELSE cancelShown
  /\ IF mine /\ s = "done" /\ j \notin rendered
     THEN rendered' = rendered \cup {j} /\ finishDoneJob(j)
     ELSE UNCHANGED <<rendered, finishing, triggered, posts, studio>>

(* The split of the foreground job came back, or failed. *)
SplitFinished(j) ==
  /\ j \in finishing /\ finishing' = finishing \ {j}
  /\ studio' = j
  /\ \/ row' = [row EXCEPT ![j] = "kept"]
     \/ UNCHANGED row
  /\ UNCHANGED <<srv, form, foreground, cancelShown, stream, poll, answers,
                 opening, rendered, triggered, queue, settling,
                 yielded, posts, trouble>>

(* es.onmessage: the frame is kept for the next tick of the event loop.  A  *)
(* frame that tells the page nothing new is left out.                       *)
FrameArrives(j) ==
  /\ conn[j] = "open" /\ deferred[j] = None
  /\ \/ srv[j] \in TERMINAL_STATUSES
     \/ srv[j] \in Live /\ (attempt[j] # 0 \/ (j = foreground /\ ~cancelShown) \/ row[j] = "none")
  /\ deferred' = [deferred EXCEPT ![j] = srv[j]]
  /\ attempt' = [attempt EXCEPT ![j] = 0]
  /\ UNCHANGED <<srv, form, foreground, cancelShown, eventSource, conn,
                 stopped, poll, answers, row, screen, rendered, finishing,
                 triggered, queue, settling, yielded, posts, trouble>>

(* ... and applied then, even if the stream was closed in between. *)
FrameApplied(j) ==
  LET s == deferred[j]
      final == s \in TERMINAL_STATUSES
      mine == j = foreground
  IN
  /\ s # None /\ deferred' = [deferred EXCEPT ![j] = None]
  /\ applyState(j, s)
  /\ poll' = IF mine /\ final THEN None ELSE poll
  /\ IF final
     THEN /\ stopped' = [stopped EXCEPT ![j] = TRUE]
          /\ conn' = [conn EXCEPT ![j] = IF @ = "open" THEN "off" ELSE @]
          /\ eventSource' = None
     ELSE UNCHANGED <<stopped, conn, eventSource>>
  /\ UNCHANGED <<srv, form, attempt, answers, opening, queue, settling,
                 yielded, trouble>>

(* probeJob: the answer is what the server knew when it was asked. *)
Ask(j, to, lost) ==
  answers' = answers \cup {[job |-> j, to |-> to,
                            status |-> IF lost THEN "lost" ELSE srv[j]]}

(* es.onerror: close, forget the remembered stream, and probe once. *)
StreamBreaks(j) ==
  /\ conn[j] = "open" /\ ~stopped[j]
  /\ conn' = [conn EXCEPT ![j] = "probing"] /\ eventSource' = None
  /\ \/ Spend /\ \E lost \in BOOLEAN : Ask(j, "probe", lost)
     \/ srv[j] = "gone" /\ Ask(j, "probe", FALSE) /\ UNCHANGED trouble
  /\ UNCHANGED <<srv, form, foreground, cancelShown, stopped, attempt,
                 deferred, poll, row, screen, rendered, finishing, triggered,
                 queue, settling, yielded, posts>>

(* Back off and reconnect, or poll when the attempts are used up. *)
BackOff(j) ==
  /\ attempt' = [attempt EXCEPT ![j] = @ + 1]
  /\ conn' = [conn EXCEPT ![j] = IF attempt'[j] > MaxAttempts THEN "off" ELSE "backoff"]

PollAfter(j, otherwise) == IF attempt'[j] > MaxAttempts THEN j ELSE otherwise

(* The probe after an error is answered. *)
ProbeAnswered(a) ==
  LET j == a.job
      final == a.status \in TERMINAL_STATUSES
  IN
  /\ a.to = "probe" /\ answers' = answers \ {a}
  /\ IF a.status \in {"gone", "lost"}
     THEN UNCHANGED <<row, foreground, cancelShown, rendered, finishing,
                      triggered, posts, studio>>
     ELSE applyState(j, a.status)
  /\ IF final \/ a.status = "gone"
     THEN /\ stopped' = [stopped EXCEPT ![j] = TRUE]
          /\ conn' = [conn EXCEPT ![j] = "off"]
          /\ poll' = IF final /\ j = foreground THEN None ELSE poll
          /\ processing' = IF a.status = "gone" THEN FALSE ELSE processing
          /\ UNCHANGED attempt
     ELSE BackOff(j) /\ poll' = PollAfter(j, poll) /\ UNCHANGED <<stopped, processing>>
  /\ UNCHANGED <<srv, flow, eventSource, deferred, opening, queue, settling,
                 yielded, trouble>>

Reconnects(j) ==
  /\ conn[j] = "backoff"
  /\ IF stopped[j]
     THEN conn' = [conn EXCEPT ![j] = "off"] /\ UNCHANGED eventSource
     ELSE conn' = [conn EXCEPT ![j] = "open"] /\ eventSource' = j
  /\ UNCHANGED <<srv, form, foreground, cancelShown, stopped, attempt,
                 deferred, poll, answers, row, screen, rendered, finishing,
                 triggered, queue, settling, yielded, posts, trouble>>

(* A tick of startJobPolling asks, whether or not the last one was answered. *)
PollTick ==
  /\ poll # None
  /\ \/ Spend /\ Ask(poll, "tick", TRUE)
     \/ Ask(poll, "tick", FALSE) /\ UNCHANGED trouble
  /\ UNCHANGED <<srv, form, foreground, cancelShown, stream, poll, row,
                 screen, rendered, finishing, triggered, queue, settling,
                 yielded, posts>>

(* A variant in which only the foreground job ends its polling. *)
TickAnsweredInForeground(a) ==
  LET final == a.status \in TERMINAL_STATUSES IN
  /\ a.to = "tick" /\ answers' = answers \ {a}
  /\ IF a.status \in {"gone", "lost"}
     THEN UNCHANGED <<row, foreground, cancelShown, rendered, finishing,
                      triggered, posts, studio, poll>>
     ELSE /\ applyState(a.job, a.status)
          /\ poll' = IF final /\ a.job = foreground THEN None ELSE poll
  /\ UNCHANGED <<srv, form, stream, opening, queue, settling, yielded, trouble>>

(* A terminal answer ends the polling: the interval of whichever job has it. *)
TickAnswered(a) ==
  LET final == a.status \in TERMINAL_STATUSES IN
  /\ a.to = "tick" /\ answers' = answers \ {a}
  /\ IF a.status \in {"gone", "lost"}
     THEN UNCHANGED <<row, foreground, cancelShown, rendered, finishing,
                      triggered, posts, studio, poll>>
     ELSE /\ applyState(a.job, a.status)
          /\ poll' = IF final THEN None ELSE poll
  /\ UNCHANGED <<srv, form, stream, opening, queue, settling, yielded, trouble>>

----------------------------------------------------------------------------
(* The queue. *)

(* publish: what was in the last snapshot and is not in this one has ended, *)
(* and completeSettledJob asks for its final state if it has a row.         *)
Publish(ids) ==
  LET settled == {j \in seen \ ids : row[j] # "none"} IN
  /\ seen' = ids
  /\ completions' = completions \cup {[job |-> j, status |-> srv[j]] : j \in settled}

QueueFrame ==
  /\ queueConn = "open"
  /\ seen # CurrentIds \/ queueAttempt # 0
  /\ Publish(CurrentIds) /\ queueAttempt' = 0
  /\ UNCHANGED <<srv, form, foreground, cancelShown, stream, poll, answers,
                 row, screen, rendered, finishing, triggered, queueConn,
                 refreshes, splitting, yielded, posts, trouble>>

QueueBreaks ==
  /\ queueConn = "open" /\ Spend
  /\ queueAttempt' = queueAttempt + 1
  /\ queueConn' = IF queueAttempt' > MaxAttempts THEN "polling" ELSE "backoff"
  /\ UNCHANGED <<srv, form, foreground, cancelShown, stream, poll, answers,
                 row, screen, rendered, finishing, triggered, seen, refreshes,
                 settling, yielded, posts>>

QueueReconnects ==
  /\ queueConn = "backoff" /\ queueConn' = "open"
  /\ UNCHANGED <<srv, form, foreground, cancelShown, stream, poll, answers,
                 row, screen, rendered, finishing, triggered, queueAttempt,
                 seen, refreshes, settling, yielded, posts, trouble>>

(* A poll of the queue, or the answer to a reorder: a snapshot of its own   *)
(* time, which may arrive after a later one.                                *)
RefreshAsked ==
  /\ \/ queueConn = "polling" /\ CurrentIds # seen /\ UNCHANGED trouble
     \/ seen # {} /\ Spend
  /\ refreshes' = refreshes \cup {CurrentIds}
  /\ UNCHANGED <<srv, form, foreground, cancelShown, stream, poll, answers,
                 row, screen, rendered, finishing, triggered, queueConn,
                 queueAttempt, seen, settling, yielded, posts>>

RefreshAnswered(ids) ==
  /\ ids \in refreshes /\ refreshes' = refreshes \ {ids}
  /\ Publish(ids)
  /\ UNCHANGED <<srv, form, foreground, cancelShown, stream, poll, answers,
                 row, screen, rendered, finishing, triggered, queueConn,
                 queueAttempt, splitting, yielded, posts, trouble>>

(* completeSettledJob, when its answer comes: a cancelled import loses its  *)
(* row, a finished one gets it completed, after the split if one is due.    *)
CompletionAnswered(c) ==
  LET j == c.job IN
  /\ completions' = completions \ {c}
  /\ \/ /\ c.status = "done" /\ WantsSplit(j)
        /\ TriggerSplit(j) /\ splitting' = splitting \cup {j}
        /\ UNCHANGED <<row, trouble>>
     \/ /\ ~(c.status = "done" /\ WantsSplit(j))
        /\ row' = [row EXCEPT ![j] = CASE c.status = "cancelled" -> "none"
                                       [] c.status = "gone" -> IF @ = "none" THEN @ ELSE "unavailable"
                                       [] OTHER -> "kept"]
        /\ UNCHANGED <<splitting, triggered, posts, trouble>>
     \/ /\ Spend
        /\ UNCHANGED <<row, splitting, triggered, posts>>
  /\ UNCHANGED <<srv, form, foreground, cancelShown, stream, poll, answers,
                 screen, rendered, finishing, queue, yielded>>

CompletedAfterSplit(j) ==
  /\ j \in splitting /\ splitting' = splitting \ {j}
  /\ row' = [row EXCEPT ![j] = "kept"]
  /\ UNCHANGED <<srv, form, foreground, cancelShown, stream, poll, answers,
                 screen, rendered, finishing, triggered, queue,
                 completions, yielded, posts, trouble>>

(* The Cancel button means the import in the foreground, whatever track the *)
(* studio shows; a row of the queue view means its own job.                 *)
CancelClicked(j) ==
  /\ \/ cancelShown /\ foreground = j
     \/ j \in seen
  /\ srv[j] \in Live /\ srv' = [srv EXCEPT ![j] = "cancelled"]
  /\ Spend
  /\ UNCHANGED <<form, foreground, cancelShown, stream, poll, answers, row,
                 screen, rendered, finishing, triggered, queue, settling,
                 yielded, posts>>

----------------------------------------------------------------------------
Next ==
  \/ \E j \in Jobs : \/ ServerEnds(j) \/ ServerForgets(j)
                     \/ ImportFromUrl(j) \/ SplitFinished(j)
                     \/ FrameArrives(j) \/ FrameApplied(j) \/ StreamBreaks(j)
                     \/ Reconnects(j) \/ CompletedAfterSplit(j) \/ CancelClicked(j)
  \/ \E x \in Jobs \cup Library : OpenTrack(x)
  \/ TrackOpened \/ Preview \/ PlaylistRegistered \/ PollTick
  \/ \E s \in Submissions : Submit(s[1], s[2])
  \/ \E f \in Flows : Registered(f) \/ Refused(f)
  \/ \E a \in answers : ProbeAnswered(a) \/ TickAnswered(a)
  \/ QueueFrame \/ QueueBreaks \/ QueueReconnects \/ RefreshAsked
  \/ \E ids \in refreshes : RefreshAnswered(ids)
  \/ \E c \in completions : CompletionAnswered(c)

(* The event loop runs its timers and callbacks, the server answers, and a *)
(* stream the server keeps open delivers.  Nothing is assumed of the user,  *)
(* nor of a job: it may run for ever.                                       *)
Fairness ==
  /\ \A j \in Jobs : WF_vars(FrameArrives(j) \/ FrameApplied(j) \/ Reconnects(j))
  /\ WF_vars(\E a \in answers : ProbeAnswered(a) \/ TickAnswered(a))
  /\ WF_vars(PollTick) /\ WF_vars(Preview)
  /\ \A f \in Flows : WF_vars(flow[f].pc = "posting" /\ (Registered(f) \/ Refused(f)))

Spec == Init /\ [][Next]_vars /\ Fairness

----------------------------------------------------------------------------
(* An import that was submitted behind a track or another import, or whose  *)
(* studio the user gave to another, never loads itself: only opening it     *)
(* puts it into the studio (job.js: `background`, detachForegroundJob).     *)
(* The one exception is in the code: finishDoneJob asks nothing when it is  *)
(* back from the vocal split, so an import that was in the foreground when  *)
(* it ended takes the studio from whatever was opened during its split.     *)
YieldedNeverTakesStudio ==
  [][studio' # studio /\ studio' \in yielded => studio' = opening \/ studio' \in finishing]_vars

(* However many frames, probes, ticks and snapshots report a job as done,   *)
(* the expensive vocal split is asked for once (splitAutoTriggered).        *)
SplitAskedOnce == TypeOK /\ \A j \in Jobs : posts[j] <= 1

(* What these two rest on: the inductive invariant.                         *)

(* Of an import that is not registered yet the page knows nothing.          *)
NotSeenYet ==
  \A j \in Jobs : srv[j] = "new" =>
    /\ j \notin {foreground, poll} /\ conn[j] = "off"
    /\ j \notin finishing \cup yielded \cup seen
    /\ \A ids \in refreshes : j \notin ids

(* What a flow still has to send is new, and sent by it alone, once.        *)
SentOnce ==
  \A f \in Flows :
    LET rest == flow[f].rest IN
    /\ flow[f].pc # "idle" => rest # <<>>
    /\ \A i \in 1..Len(rest) :
         /\ srv[rest[i]] = "new"
         /\ \A g \in Flows : \A k \in 1..Len(flow[g].rest) :
              rest[i] = flow[g].rest[k] => f = g /\ i = k

(* A stream reconnects while it has attempts left, and one that probes      *)
(* waits for one answer.                                                    *)
InAttempts == \A j \in Jobs : conn[j] # "off" => attempt[j] <= MaxAttempts
InQueueAttempts == queueConn # "polling" => queueAttempt <= MaxAttempts
OneProbe ==
  \A a \in answers : a.to = "probe" =>
    /\ conn[a.job] = "probing"
    /\ \A b \in answers : b.to = "probe" /\ b.job = a.job => b = a

AttemptsCounted == InAttempts /\ InQueueAttempts /\ OneProbe

(* A job that gave the studio up has no way back to the foreground; one     *)
(* that waits for its split has left it.                                    *)
StudioClaims == foreground \notin yielded \cup finishing

SplitsCounted == \A j \in Jobs : posts[j] = IF j \in triggered THEN 1 ELSE 0

IInv == TypeOK /\ NotSeenYet /\ SentOnce /\ AttemptsCounted /\ StudioClaims /\ SplitsCounted

(* Nothing listens for ever to a job that has ended: its stream is closed   *)
(* and its polling stops.  A browser has about six connections to give      *)
(* away, and a closure that outlives its import keeps one of them.          *)
ListeningEnds ==
  \A j \in Jobs : srv[j] \in TERMINAL_STATUSES /\ (conn[j] = "open" \/ poll = j)
                    ~> (conn[j] # "open" /\ poll # j) \/ srv[j] = "gone"
=============================================================================
