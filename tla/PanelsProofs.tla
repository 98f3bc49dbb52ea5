---------------------------- MODULE PanelsProofs -----------------------------
(***************************************************************************)
(* Panels show what is so, for every value of the constants: the proof of  *)
(* PanelsTellTheTruth of MCPanels, part by part.  Each part has its        *)
(* inductive invariant, which is established by its Init, kept by each of  *)
(* its actions and stronger than what the runs check of it.                *)
(***************************************************************************)
EXTENDS MCPanels, FiniteSetTheorems, TLAPS

(* --------------------------- the setup window -------------------------- *)
(* Each listener belongs to the run that fetches the pack.                  *)
Fetching == {"local", "download", "verify", "extract"}
Hears(q) == \A r \in q.listening : r = q.unlisten /\ q.at[r] \in Fetching
(* Runs that have not begun, and a backend that is up has opened the app.   *)
NotBegun == \A r \in Setup!Runs : r > acts + 1 => st.at[r] = "none"

SetupInv == /\ Setup!SetupTypeOK /\ Setup!RunsOK /\ Setup!NeverStartsStale /\ Setup!TickedIsDone
            /\ Setup!NeverLeftAlone /\ (st.handles => st.opened) /\ Hears(st) /\ NotBegun

(* The window opens with the first run, on any disk.                        *)
LEMMA SetupStarts == ASSUME Setup!SetupAssumption, Setup!SetupInit PROVE SetupInv
<1>1. PICK d \in Setup!Disks, a \in {"none", "bad", "good"} :
        st = Setup!begun([disk |-> d, archive |-> a, at |-> [r \in Setup!Runs |-> "none"],
                          sees |-> [r \in Setup!Runs |-> Setup!Unseen],
                    step |-> Setup!Untouched, retry |-> FALSE, opened |-> FALSE, handles |-> FALSE, starting |-> 0,
                    listening |-> {}, unlisten |-> 0], 1)
  BY DEF Setup!SetupInit
<1> DEFINE at0 == [[r \in Setup!Runs |-> "none"] EXCEPT ![1] = "probe"]
           step0 == [Setup!Untouched EXCEPT !["runtime"] = "active"]
<1>2. st = [disk |-> d, archive |-> a, at |-> at0, sees |-> [r \in Setup!Runs |-> Setup!Unseen], step |-> step0,
            retry |-> FALSE, opened |-> FALSE, handles |-> FALSE, starting |-> 0, listening |-> {}, unlisten |-> 0]
  BY <1>1 DEF Setup!begun
<1>3. /\ at0 \in [Setup!Runs -> Setup!Waits] /\ 1 \in Setup!Runs /\ at0[1] = "probe"
      /\ \A r \in Setup!Runs \ {1} : at0[r] = "none"
  BY DEF Setup!Waits, Setup!Runs, Setup!SetupAssumption
<1>4. step0 \in [Setup!Steps -> {"plain", "active", "done", "error"}] /\ \A s \in Setup!Steps : step0[s] # "done"
  BY DEF Setup!Untouched, Setup!Steps
<1>5. [r \in Setup!Runs |-> Setup!Unseen] \in [Setup!Runs -> Setup!Views] BY DEF Setup!Unseen, Setup!Views
<1> HIDE DEF at0, step0
<1>0. acts \in 0..SetupActs /\ acts = 0 /\ 0 \in 0..(SetupActs + 1) BY DEF Setup!SetupInit, Setup!SetupAssumption
<1>6. Setup!SetupTypeOK BY <1>0, <1>2, <1>3, <1>4, <1>5 DEF Setup!SetupTypeOK, Setup!Windows
<1>7. Setup!RunsOK
  <2>1. \A r \in Setup!Runs : Setup!RunOK(st, r)
    BY <1>2, <1>3 DEF Setup!RunOK, Setup!Unseen, Setup!Installing, Setup!AfterRuntime, Setup!AfterFfmpeg
  <2>2. \A r \in Setup!Runs : Setup!Under(st, r) => r = 1 BY <1>2, <1>3 DEF Setup!Under
  <2> QED BY <1>2, <2>1, <2>2 DEF Setup!RunsOK
<1>8. Setup!NeverStartsStale BY <1>2 DEF Setup!NeverStartsStale
<1>9. Setup!TickedIsDone BY <1>2, <1>4 DEF Setup!TickedIsDone, Setup!Steps
<1>10. Setup!NeverLeftAlone BY <1>2, <1>3 DEF Setup!NeverLeftAlone
<1>11. Hears(st) /\ (st.handles => st.opened) BY <1>2 DEF Hears
<1>12. NotBegun BY <1>0, <1>2, <1>3 DEF NotBegun, Setup!Runs
<1> QED BY <1>6, <1>7, <1>8, <1>9, <1>10, <1>11, <1>12 DEF SetupInv

(* What one piece of a run leaves of the window: everything but what it     *)
(* names, and no step it does not name is ticked off.                       *)
Ticks(q, p, S) == \A s \in Setup!Steps \ S : p.step[s] = "done" => q.step[s] = "done"
Quiet(q, p) == p.listening = q.listening /\ p.unlisten = q.unlisten
Same(q, p) == /\ p.disk = q.disk /\ p.sees = q.sees /\ p.handles = q.handles
              /\ p.starting = q.starting /\ p.opened = q.opened
Keeps(q, p) == Same(q, p) /\ Quiet(q, p)
(* The finally of installRuntimePack for run r.                             *)
Ends(q, p, r) == IF r \in q.listening THEN p.listening = q.listening \ {r} /\ p.unlisten = 0 ELSE Quiet(q, p)

(* A run that goes on to its next command changes nothing else.             *)
LEMMA ToFacts ==
  ASSUME NEW q \in Setup!Windows, NEW r \in Setup!Runs, NEW w \in Setup!Waits
  PROVE  /\ Setup!to(q, r, w) \in Setup!Windows /\ Keeps(q, Setup!to(q, r, w))
         /\ Setup!to(q, r, w).at = [q.at EXCEPT ![r] = w] /\ Setup!to(q, r, w).step = q.step
         /\ Setup!to(q, r, w).retry = q.retry
BY DEF Setup!to, Setup!Windows, Keeps, Same, Quiet

(* A step that is painted: nothing else on the window changes.              *)
LEMMA SetStepFacts ==
  ASSUME NEW q \in Setup!Windows, NEW s \in Setup!Steps, NEW c \in {"active", "done", "error"}
  PROVE  /\ Setup!setStep(q, s, c) \in Setup!Windows /\ Keeps(q, Setup!setStep(q, s, c))
         /\ Setup!setStep(q, s, c).at = q.at /\ Setup!setStep(q, s, c).retry = q.retry
         /\ Setup!setStep(q, s, c).step = [q.step EXCEPT ![s] = c]
BY DEF Setup!setStep, Setup!Windows, Keeps, Same, Quiet

(* Ticking off one step ticks off no other.                                 *)
LEMMA TicksOne ==
  ASSUME NEW q \in Setup!Windows, NEW s \in Setup!Steps, NEW c \in {"active", "done", "error"}
  PROVE  Ticks(q, Setup!setStep(q, s, c), IF c = "done" THEN {s} ELSE {})
<1>1. q.step \in [Setup!Steps -> {"plain", "active", "done", "error"}] BY DEF Setup!Windows
<1>2. Setup!setStep(q, s, c).step = [q.step EXCEPT ![s] = c] BY DEF Setup!setStep, Setup!Windows
<1> QED BY <1>1, <1>2 DEF Ticks

(* showError ticks nothing off and offers Retry.                            *)
LEMMA ShowErrorFacts ==
  ASSUME NEW q \in Setup!Windows
  PROVE  /\ Setup!showError(q) \in Setup!Windows /\ Keeps(q, Setup!showError(q)) /\ Setup!showError(q).at = q.at
         /\ Setup!showError(q).retry = TRUE /\ Ticks(q, Setup!showError(q), {})
<1> DEFINE shown == [s \in Setup!Steps |-> IF q.step[s] = "active" THEN "error" ELSE q.step[s]]
<1>1. q.step \in [Setup!Steps -> {"plain", "active", "done", "error"}] BY DEF Setup!Windows
<1>2. shown \in [Setup!Steps -> {"plain", "active", "done", "error"}] BY <1>1
<1>3. Setup!showError(q) = [q EXCEPT !.step = shown, !.retry = TRUE] BY DEF Setup!showError, Setup!Windows
<1>4. \A s \in Setup!Steps : shown[s] = "done" => q.step[s] = "done" OBVIOUS
<1> HIDE DEF shown
<1> QED BY <1>2, <1>3, <1>4 DEF Setup!Windows, Keeps, Same, Quiet, Ticks

(* The finally of installRuntimePack touches only the listeners.            *)
LEMMA UnlistenedFacts ==
  ASSUME Setup!SetupAssumption, NEW q \in Setup!Windows, NEW r \in Setup!Runs
  PROVE  /\ Setup!unlistened(q, r) \in Setup!Windows /\ Same(q, Setup!unlistened(q, r))
         /\ Ends(q, Setup!unlistened(q, r), r) /\ Setup!unlistened(q, r).at = q.at
         /\ Setup!unlistened(q, r).step = q.step /\ Setup!unlistened(q, r).retry = q.retry
<1> 0 \in 0..(SetupActs + 1) BY DEF Setup!SetupAssumption
<1> QED BY DEF Setup!unlistened, Setup!Windows, Same, Quiet, Ends

(* A failed command ends its run with Retry offered and nothing ticked off. *)
LEMMA ThrownFacts ==
  ASSUME Setup!SetupAssumption, NEW q \in Setup!Windows, NEW r \in Setup!Runs
  PROVE  /\ Setup!thrown(q, r) \in Setup!Windows /\ Same(q, Setup!thrown(q, r)) /\ Ends(q, Setup!thrown(q, r), r)
         /\ Setup!thrown(q, r).at = [q.at EXCEPT ![r] = "over"]
         /\ Setup!thrown(q, r).retry = TRUE /\ Ticks(q, Setup!thrown(q, r), {})
<1> DEFINE s == Setup!StepOf[q.at[r]]
           p == Setup!setStep(q, s, "error")
           u == Setup!unlistened(p, r)
           e == Setup!showError(u)
<1>1. s \in Setup!Steps BY DEF Setup!StepOf, Setup!Steps, Setup!Windows, Setup!Waits
<1>2. p \in Setup!Windows /\ Keeps(q, p) /\ p.at = q.at /\ p.step = [q.step EXCEPT ![s] = "error"]
  BY <1>1, SetStepFacts
<1>3. u \in Setup!Windows /\ Same(p, u) /\ Ends(p, u, r) /\ u.at = p.at /\ u.step = p.step
  BY <1>2, UnlistenedFacts
<1>4. e \in Setup!Windows /\ Keeps(u, e) /\ e.at = u.at /\ e.retry = TRUE /\ Ticks(u, e, {})
  BY <1>3, ShowErrorFacts
<1>5. Setup!thrown(q, r) = Setup!to(e, r, "over") BY DEF Setup!thrown
<1>6. "over" \in Setup!Waits BY DEF Setup!Waits
<1> HIDE DEF s, p, u, e
<1>7. q.step \in [Setup!Steps -> {"plain", "active", "done", "error"}] BY DEF Setup!Windows
<1>8. Ticks(q, e, {}) BY <1>2, <1>3, <1>4, <1>7 DEF Ticks
<1> DEFINE t == Setup!to(e, r, "over")
<1>9. /\ t \in Setup!Windows /\ Keeps(e, t) /\ t.at = [e.at EXCEPT ![r] = "over"]
      /\ t.step = e.step /\ t.retry = e.retry
  BY <1>4, <1>6, ToFacts
<1> HIDE DEF t
<1>10. Same(q, t) BY <1>2, <1>3, <1>4, <1>9 DEF Keeps, Same
<1>11. Ends(q, t, r) BY <1>2, <1>3, <1>4, <1>9 DEF Keeps, Quiet, Ends
<1>12. Ticks(q, t, {}) BY <1>8, <1>9 DEF Ticks
<1>13. t.at = [q.at EXCEPT ![r] = "over"] /\ t.retry = TRUE BY <1>2, <1>3, <1>4, <1>9
<1> QED BY <1>5, <1>9, <1>10, <1>11, <1>12, <1>13 DEF t

(* What a run paints when it goes on to its next step.                      *)
Middle == {"workspace", "ffmpeg", "gpu", "model"}
LEMMA RunStepFacts ==
  ASSUME NEW q \in Setup!Windows, NEW r \in Setup!Runs, NEW s \in Middle
  PROVE  /\ Setup!runStep(q, r, s) \in Setup!Windows /\ Keeps(q, Setup!runStep(q, r, s))
         /\ Setup!runStep(q, r, s).at = [q.at EXCEPT ![r] = s] /\ Setup!runStep(q, r, s).retry = q.retry
         /\ Ticks(q, Setup!runStep(q, r, s), {})
<1> DEFINE p == Setup!setStep(q, s, "active")
<1>1. s \in Setup!Steps /\ s \in Setup!Waits BY DEF Middle, Setup!Steps, Setup!Waits
<1>2. p \in Setup!Windows /\ Keeps(q, p) /\ p.at = q.at /\ p.retry = q.retry
  BY <1>1, SetStepFacts
<1>3. Ticks(q, p, {})
  <2>1. Ticks(q, p, IF "active" = "done" THEN {s} ELSE {}) BY <1>1, TicksOne
  <2> QED BY <2>1
<1>4. Setup!runStep(q, r, s) = Setup!to(p, r, s) BY DEF Setup!runStep
<1> HIDE DEF p
<1> DEFINE t == Setup!to(p, r, s)
<1>5. /\ t \in Setup!Windows /\ Keeps(p, t) /\ t.at = [p.at EXCEPT ![r] = s] /\ t.step = p.step /\ t.retry = p.retry
  BY <1>1, <1>2, ToFacts
<1> HIDE DEF t
<1>6. Ticks(q, t, {}) BY <1>3, <1>5 DEF Ticks
<1>7. Keeps(q, t) BY <1>2, <1>5 DEF Keeps, Same, Quiet
<1>8. t.at = [q.at EXCEPT ![r] = s] /\ t.retry = q.retry BY <1>2, <1>5
<1> QED BY <1>4, <1>5, <1>6, <1>7, <1>8 DEF t

(* A step that is ticked off, and the next one that is painted as under way *)
(* by run r.                                                                *)
LEMMA DoneAndOn ==
  ASSUME NEW q \in Setup!Windows, NEW r \in Setup!Runs, NEW s \in Setup!Steps,
         NEW w \in Middle
  PROVE  LET p == Setup!runStep(Setup!setStep(q, s, "done"), r, w)
         IN /\ p \in Setup!Windows /\ Keeps(q, p) /\ p.at = [q.at EXCEPT ![r] = w] /\ p.retry = q.retry
            /\ Ticks(q, p, {s})
<1> DEFINE e == Setup!setStep(q, s, "done")
           p == Setup!runStep(e, r, w)
<1>1. e \in Setup!Windows /\ Keeps(q, e) /\ e.at = q.at /\ e.retry = q.retry BY SetStepFacts
<1>2. Ticks(q, e, {s})
  <2>1. Ticks(q, e, IF "done" = "done" THEN {s} ELSE {}) BY TicksOne
  <2> QED BY <2>1
<1> HIDE DEF e
<1>3. p \in Setup!Windows /\ Keeps(e, p) /\ p.at = [e.at EXCEPT ![r] = w] /\ p.retry = e.retry /\ Ticks(e, p, {})
  BY <1>1, RunStepFacts
<1> HIDE DEF p
<1>4. Keeps(q, p) BY <1>1, <1>3 DEF Keeps, Same, Quiet
<1>5. Ticks(q, p, {s}) BY <1>2, <1>3 DEF Ticks
<1>6. p.at = [q.at EXCEPT ![r] = w] /\ p.retry = q.retry BY <1>1, <1>3
<1> QED BY <1>3, <1>4, <1>5, <1>6 DEF p, e

(* Commands that move directories move them to where they may be, and leave *)
(* ffmpeg and the device alone; a runtime that is there is not recovered.   *)
LEMMA RecoveredFacts ==
  ASSUME NEW d \in Setup!Disks, NEW e \in Setup!recovered(d)
  PROVE  e \in Setup!Disks /\ e.ffmpeg = d.ffmpeg /\ (d.runtime = "current" => e = d)
BY DEF Setup!recovered, Setup!Disks
LEMMA RemovingFacts == ASSUME NEW k \in Setup!Kinds, NEW a \in Setup!removing(k) PROVE a \in Setup!Kinds
BY DEF Setup!removing, Setup!Kinds
LEMMA HalfwayFacts ==
  ASSUME NEW d \in Setup!Disks, NEW e \in Setup!halfway(d)
  PROVE  e \in Setup!Disks /\ e.ffmpeg = d.ffmpeg
<1>1. d.aside \in Setup!Kinds /\ "none" \in Setup!Kinds /\ d.runtime \in Setup!Kinds BY DEF Setup!Disks, Setup!Kinds
<1>2. CASE \E a \in Setup!removing(d.aside) : e = [d EXCEPT !.aside = a]
  BY <1>1, <1>2, RemovingFacts DEF Setup!Disks
<1>3. CASE e = [d EXCEPT !.runtime = "none", !.aside = d.runtime] BY <1>1, <1>3 DEF Setup!Disks
<1> QED BY <1>2, <1>3 DEF Setup!halfway
LEMMA SwappedFacts ==
  ASSUME NEW d \in Setup!Disks, NEW e \in Setup!swapped(d)
  PROVE  e \in Setup!Disks /\ e.ffmpeg = d.ffmpeg /\ e.runtime \in {"current", "broken"}
<1>1. d.runtime \in Setup!Kinds BY DEF Setup!Disks
<1>2. \A a \in Setup!removing(d.runtime) : a \in Setup!Kinds BY <1>1, RemovingFacts
<1> QED BY <1>2 DEF Setup!swapped, Setup!Disks, Setup!Kinds
LEMMA LeftFacts ==
  ASSUME NEW d \in Setup!Disks, NEW where \in Setup!Waits, NEW e \in Setup!left(d, where)
  PROVE  /\ e \in Setup!Disks /\ e.ffmpeg = d.ffmpeg
         /\ e.runtime = d.runtime \/ where \in Setup!Installing \/ d.runtime # "current"
<1>1. CASE where \in {"ensure", "workspace"} BY <1>1, RecoveredFacts DEF Setup!left
<1>2. CASE where = "extract"
  <2>1. PICK f \in Setup!recovered(d) : e \in Setup!halfway(f) BY <1>2 DEF Setup!left
  <2>2. f \in Setup!Disks /\ f.ffmpeg = d.ffmpeg BY <2>1, RecoveredFacts
  <2> QED BY <1>2, <2>1, <2>2, HalfwayFacts DEF Setup!Installing
<1>3. CASE where \notin {"ensure", "workspace", "extract"} BY <1>3 DEF Setup!left
<1> QED BY <1>1, <1>2, <1>3
LEMMA ViewFacts ==
  ASSUME NEW d \in Setup!Disks
  PROVE  Setup!view(d) \in Setup!Views /\ (Setup!view(d).ffmpeg => d.ffmpeg)
         /\ (Setup!view(d).python <=> d.runtime \in {"stale", "current"})
<1> DEFINE python == d.runtime \in {"stale", "current"}
           current == d.runtime = "current"
<1>1. python \in BOOLEAN /\ current \in BOOLEAN /\ d.ffmpeg \in BOOLEAN /\ d.settled \in BOOLEAN BY DEF Setup!Disks
<1>2. Setup!view(d) = [python |-> python, current |-> current, ffmpeg |-> d.ffmpeg, settled |-> d.settled]
  BY DEF Setup!view
<1> HIDE DEF python, current
<1>3. Setup!view(d) \in Setup!Views /\ Setup!view(d).ffmpeg = d.ffmpeg BY <1>1, <1>2 DEF Setup!Views
<1>4. Setup!view(d).python = python BY <1>2
<1> QED BY <1>3, <1>4 DEF python

(* ----------------------------- moves of a run --------------------------- *)
(* What a window has to show for the invariant after run r went to w.       *)
Fresh(p) == p.handles \/ p.starting # 0 => Setup!Ready(p) /\ p.disk.ffmpeg
Ticked(p) == /\ p.step["runtime"] = "done" => Setup!Ready(p)
             /\ p.step["ffmpeg"] = "done" => p.disk.ffmpeg
             /\ p.step["backend"] = "done" => p.handles
Goes(p, r, w) ==
  /\ p.at = [st.at EXCEPT ![r] = w] /\ Setup!Under(st, r) /\ w # "none"
  /\ \A x \in Setup!Runs \ {r} : p.sees[x] = st.sees[x]
  /\ st.disk.ffmpeg => p.disk.ffmpeg
  /\ p.disk.runtime = st.disk.runtime \/ st.at[r] \in Setup!Installing
  /\ w = "over" => p.opened \/ p.retry
  /\ p.retry => st.retry \/ w = "over" \/ Setup!Ready(p)
  /\ \/ p.starting = 0 \/ (p.starting = r /\ w = "health")
     \/ p.starting = st.starting /\ (st.at[r] # "health" \/ p.starting # r)
  /\ p.handles => p.opened
Alone(r) == \A x \in Setup!Runs \ {r} : ~Setup!Under(st, x)
Arrives(p, r, w) ==
  /\ p.sees[r].ffmpeg => p.disk.ffmpeg
  /\ w = "status" /\ Setup!Ready(p) => p.sees[r].python
  /\ w \in Setup!Installing => ~p.retry /\ p.step["runtime"] # "done" /\ Alone(r)
  /\ w = "again" => p.disk.runtime \in {"current", "broken"}
  /\ w \in Setup!AfterRuntime => Setup!Ready(p)
  /\ w \in Setup!AfterFfmpeg => p.disk.ffmpeg

(* The moves of one run that keep the invariant.  Where a second run is     *)
(* under way no directory is moved, so that what it knows stays so.         *)
LEMMA RunMoves ==
  ASSUME Setup!SetupAssumption, SetupInv, NEW p \in Setup!Windows, NEW r \in Setup!Runs, NEW w \in Setup!Waits,
         st' = p, acts' \in 0..SetupActs, acts' >= acts,
         Goes(p, r, w), Arrives(p, r, w), Fresh(p), Ticked(p), Hears(p)
  PROVE  SetupInv'
<1>1. st \in Setup!Windows /\ Setup!RunsOK BY DEF SetupInv, Setup!SetupTypeOK
<1>2. st.at \in [Setup!Runs -> Setup!Waits] BY <1>1 DEF Setup!Windows
<1>3. p.at[r] = w /\ \A x \in Setup!Runs \ {r} : p.at[x] = st.at[x] BY <1>2 DEF Goes
<1>4. Setup!SetupTypeOK' BY DEF Setup!SetupTypeOK
<1>5. \A x \in Setup!Runs \ {r} : Setup!Under(p, x) => Setup!Under(st, x) BY <1>3 DEF Setup!Under
<1>6. ASSUME NEW x \in Setup!Runs \ {r}, Setup!Under(st, x)
      PROVE  /\ Setup!Ready(st) /\ Setup!Ready(p) /\ p.disk.runtime = st.disk.runtime
             /\ st.at[x] \notin Setup!Installing /\ st.at[r] \notin Setup!Installing
  <2>1. Setup!RunOK(st, r) /\ Setup!RunOK(st, x) /\ Setup!Under(st, r) BY <1>1 DEF Setup!RunsOK, Goes
  <2>2. st.at[r] \notin Setup!Installing /\ st.at[x] \notin Setup!Installing BY <1>6, <2>1 DEF Setup!RunOK
  <2>3. Setup!Ready(st) BY <1>1, <1>6, <2>1 DEF Setup!RunsOK
  <2> QED BY <2>2, <2>3 DEF Goes, Setup!Ready
<1>7. ASSUME NEW x \in Setup!Runs PROVE Setup!RunOK(p, x)
  <2>1. CASE x = r
    <3>1. ASSUME w \in Setup!Installing PROVE \A y \in Setup!Runs \ {r} : ~Setup!Under(p, y)
      BY <1>5, <3>1 DEF Arrives, Alone
    <3> QED BY <1>3, <2>1, <3>1 DEF Setup!RunOK, Arrives
  <2>2. CASE x # r
    <3>1. Setup!RunOK(st, x) /\ p.at[x] = st.at[x] /\ p.sees[x] = st.sees[x] BY <1>1, <1>3, <2>2 DEF Setup!RunsOK, Goes
    <3>2. CASE Setup!Under(st, x)
      <4>1. /\ Setup!Ready(st) /\ Setup!Ready(p) /\ p.disk.runtime = st.disk.runtime
            /\ st.at[x] \notin Setup!Installing
        BY <1>6, <2>2, <3>2
      <4>2. "again" \in Setup!Installing BY DEF Setup!Installing
      <4> QED BY <3>1, <4>1, <4>2 DEF Setup!RunOK, Goes
    <3>3. CASE ~Setup!Under(st, x)
      BY <3>1, <3>3 DEF Setup!RunOK, Goes, Setup!Under, Setup!Installing, Setup!AfterRuntime, Setup!AfterFfmpeg
    <3> QED BY <3>2, <3>3
  <2> QED BY <2>1, <2>2
<1>8. ASSUME NEW x \in Setup!Runs, Setup!Under(p, x), p.retry \/ \E y \in Setup!Runs \ {x} : Setup!Under(p, y)
      PROVE  Setup!Ready(p)
  <2>1. CASE \E y \in Setup!Runs \ {r} : Setup!Under(p, y) BY <1>5, <1>6, <2>1
  <2>2. CASE x = r /\ p.retry
    <3>1. w # "over" BY <1>3, <1>8, <2>2 DEF Setup!Under
    <3>2. CASE Setup!Ready(p) BY <3>2
    <3>3. CASE st.retry
      <4>1. Setup!RunOK(st, r) /\ Setup!Ready(st) BY <1>1, <3>3 DEF Setup!RunsOK, Goes
      <4>2. st.at[r] \notin Setup!Installing BY <3>3, <4>1 DEF Setup!RunOK
      <4> QED BY <4>1, <4>2 DEF Goes, Setup!Ready
    <3> QED BY <2>2, <3>1, <3>2, <3>3 DEF Goes
  <2> QED BY <1>8, <2>1, <2>2
<1>9. p.starting # 0 => p.starting \in Setup!Runs /\ p.at[p.starting] = "health"
  <2>1. st.starting # 0 => st.starting \in Setup!Runs /\ st.at[st.starting] = "health" BY <1>1 DEF Setup!RunsOK
  <2>2. CASE p.starting = r /\ w = "health" BY <1>3, <2>2
  <2>3. CASE p.starting = st.starting /\ (st.at[r] # "health" \/ p.starting # r) BY <1>3, <2>1, <2>3
  <2> QED BY <2>2, <2>3 DEF Goes
<1>10. Setup!RunsOK'
  <2>1. \A x \in Setup!Runs : Setup!RunOK(st', x) BY <1>7
  <2>2. \A x \in Setup!Runs : Setup!Under(st', x) /\ (st'.retry \/ \E y \in Setup!Runs \ {x} : Setup!Under(st', y))
          => Setup!Ready(st')
    BY <1>8
  <2> QED BY <1>9, <2>1, <2>2 DEF Setup!RunsOK
<1>11. Setup!NeverStartsStale' BY DEF Setup!NeverStartsStale, Fresh, Setup!Ready
<1>12. Setup!TickedIsDone' BY DEF Setup!TickedIsDone, Ticked, Setup!Ready
<1>13. Setup!NeverLeftAlone' BY <1>3 DEF Setup!NeverLeftAlone, Goes
<1>14. (st.handles => st.opened)' /\ Hears(st)' BY DEF Goes, Hears
<1>15. NotBegun'
  <2>1. acts \in 0..SetupActs /\ r <= acts + 1
    BY <1>1 DEF SetupInv, NotBegun, Setup!SetupTypeOK, Goes, Setup!Under, Setup!Runs, Setup!SetupAssumption
  <2> QED BY <1>3, <2>1 DEF NotBegun, SetupInv, Setup!Runs, Setup!SetupAssumption
<1> QED BY <1>4, <1>10, <1>11, <1>12, <1>13, <1>14, <1>15 DEF SetupInv

(* Steps ticked off on the way are rightly so when the disk vouches for     *)
(* them.                                                                    *)
LEMMA VouchedFor ==
  ASSUME SetupInv, NEW p \in Setup!Windows, NEW S, Ticks(st, p, S), st.handles => p.handles,
         st.disk.ffmpeg => p.disk.ffmpeg, st.step["runtime"] = "done" => Setup!Ready(p),
         "runtime" \in S => Setup!Ready(p), "ffmpeg" \in S => p.disk.ffmpeg, "backend" \in S => p.handles
  PROVE  Ticked(p)
BY DEF SetupInv, Setup!TickedIsDone, Ticked, Ticks, Setup!Ready, Setup!Steps

(* The moves that leave the disk and the backend as they are and tick off   *)
(* no step whose work is not done.                                          *)
LEMMA PlainMoves ==
  ASSUME Setup!SetupAssumption, SetupInv, NEW p \in Setup!Windows, NEW r \in Setup!Runs, NEW w \in Setup!Waits, NEW S,
         st' = p, acts' \in 0..SetupActs, acts' >= acts, Setup!Under(st, r),
         p.at = [st.at EXCEPT ![r] = w], Same(st, p), Ticks(st, p, S), st.at[r] # "health",
         w \notin {"none", "status", "again"}, w \notin Setup!Installing, w = "over" => p.retry,
         p.retry => st.retry \/ w = "over" \/ Setup!Ready(st),
         w \in Setup!AfterRuntime => Setup!Ready(st), w \in Setup!AfterFfmpeg => st.disk.ffmpeg,
         "runtime" \in S => Setup!Ready(st), "ffmpeg" \in S => st.disk.ffmpeg, "backend" \notin S, Hears(p)
  PROVE  SetupInv'
<1>1. Goes(p, r, w) BY DEF Goes, Same, Setup!Ready, SetupInv
<1>2. Arrives(p, r, w)
  <2>1. st.sees[r].ffmpeg => st.disk.ffmpeg BY DEF SetupInv, Setup!RunsOK, Setup!RunOK
  <2> QED BY <2>1 DEF Arrives, Same, Setup!Ready
<1>3. Fresh(p) BY DEF Fresh, Same, SetupInv, Setup!NeverStartsStale, Setup!Ready
<1>4. Ticked(p)
  <2>1. st.step["runtime"] = "done" => Setup!Ready(p) BY DEF SetupInv, Setup!TickedIsDone, Same, Setup!Ready
  <2>2. "runtime" \in S => Setup!Ready(p) BY DEF Same, Setup!Ready
  <2> QED BY <2>1, <2>2, VouchedFor DEF Same
<1> QED BY <1>1, <1>2, <1>3, <1>4, RunMoves

(* A run that installs is alone, and nothing rests on the runtime.          *)
LEMMA InstallsAlone ==
  ASSUME SetupInv, NEW r \in Setup!Runs, st.at[r] \in Setup!Installing, ~st.opened
  PROVE  /\ Alone(r) /\ ~st.retry /\ st.step["runtime"] # "done" /\ st.starting = 0 /\ ~st.handles
         /\ Setup!Under(st, r) /\ \A x \in st.listening : x \in Setup!Runs => x = r
<1>1. Setup!RunOK(st, r) BY DEF SetupInv, Setup!RunsOK
<1>2. Alone(r) /\ ~st.retry /\ st.step["runtime"] # "done" BY <1>1 DEF Setup!RunOK, Alone
<1>3. st.starting = 0
  <2> SUFFICES ASSUME st.starting # 0 PROVE FALSE OBVIOUS
  <2>1. st.starting \in Setup!Runs /\ st.at[st.starting] = "health" BY DEF SetupInv, Setup!RunsOK
  <2>2. st.starting # r BY <2>1 DEF Setup!Installing
  <2> QED BY <1>2, <2>1, <2>2 DEF Alone, Setup!Under
<1>4. \A x \in st.listening : x \in Setup!Runs => x = r
  BY <1>2 DEF SetupInv, Hears, Alone, Setup!Under, Fetching
<1>5. Setup!Under(st, r) BY DEF Setup!Under, Setup!Installing
<1> QED BY <1>2, <1>3, <1>4, <1>5 DEF SetupInv

(* The moves of a run that goes on installing: it may move directories.     *)
LEMMA InstallMoves ==
  ASSUME Setup!SetupAssumption, SetupInv, NEW p \in Setup!Windows, NEW r \in Setup!Runs, NEW w \in Setup!Waits,
         st' = p, acts' \in 0..SetupActs, acts' >= acts, st.at[r] \in Setup!Installing, ~st.opened,
         p.at = [st.at EXCEPT ![r] = w], w \in Setup!Installing, p.step = st.step, p.retry = st.retry,
         p.sees = st.sees, p.handles = st.handles, p.starting = st.starting, p.disk.ffmpeg = st.disk.ffmpeg,
         w = "again" => p.disk.runtime \in {"current", "broken"}, Hears(p)
  PROVE  SetupInv'
<1>1. /\ Alone(r) /\ ~st.retry /\ st.step["runtime"] # "done" /\ st.starting = 0 /\ ~st.handles
      /\ Setup!Under(st, r)
  BY InstallsAlone
<1>2. /\ w # "none" /\ w # "over" /\ w # "status" /\ w \notin Setup!AfterRuntime /\ w \notin Setup!AfterFfmpeg
  BY DEF Setup!Installing, Setup!AfterRuntime, Setup!AfterFfmpeg
<1>3. Goes(p, r, w) BY <1>1, <1>2 DEF Goes
<1>4. Arrives(p, r, w)
  <2>1. st.sees[r].ffmpeg => st.disk.ffmpeg BY DEF SetupInv, Setup!RunsOK, Setup!RunOK
  <2> QED BY <1>1, <1>2, <2>1 DEF Arrives
<1>5. Fresh(p) BY <1>1 DEF Fresh
<1>6. Ticked(p) BY <1>1 DEF Ticked, SetupInv, Setup!TickedIsDone
<1> QED BY <1>3, <1>4, <1>5, <1>6, RunMoves

(* A listener is heard of while its run fetches, and gone when it ends.     *)
LEMMA StillHears ==
  ASSUME SetupInv, NEW p \in Setup!Windows, NEW r \in Setup!Runs, NEW w \in Setup!Waits, p.at = [st.at EXCEPT ![r] = w],
         Quiet(st, p), st.at[r] \in Fetching => w \in Fetching
  PROVE  Hears(p)
BY DEF SetupInv, Setup!SetupTypeOK, Hears, Quiet, Setup!Windows
LEMMA NoneHears ==
  ASSUME SetupInv, NEW p \in Setup!Windows, NEW r \in Setup!Runs, NEW w \in Setup!Waits, p.at = [st.at EXCEPT ![r] = w],
         Ends(st, p, r)
  PROVE  Hears(p)
BY DEF SetupInv, Setup!SetupTypeOK, Hears, Ends, Quiet, Setup!Windows

(* ------------------------- one lemma per group of commands -------------- *)
(* From the workspace to the pack on the disk: the run is alone.            *)
LEMMA Installs ==
  ASSUME Setup!SetupAssumption, SetupInv, NEW r \in Setup!Runs,
         \/ Setup!Ensured(r) \/ Setup!PackKnown(r) \/ Setup!Listening(r) \/ Setup!LocalVerified(r)
         \/ Setup!Downloaded(r) \/ Setup!Verified(r) \/ Setup!Extracted(r)
  PROVE  SetupInv'
<1>0. /\ st \in Setup!Windows /\ acts' \in 0..SetupActs /\ acts' >= acts /\ ~st.opened
      /\ st.at[r] \in Setup!Installing \ {"again"}
  <2>1. acts' = acts /\ ~st.opened /\ st.at[r] \in Setup!Installing \ {"again"}
    BY DEF Setup!Waiting, Setup!Installing, Setup!Ensured, Setup!PackKnown, Setup!Listening, Setup!LocalVerified,
       Setup!Downloaded, Setup!Verified, Setup!Extracted
  <2>2. st \in Setup!Windows /\ acts \in 0..SetupActs BY DEF SetupInv, Setup!SetupTypeOK
  <2> QED BY <2>1, <2>2 DEF Setup!SetupAssumption
<1>1. Setup!Installing \subseteq Setup!Waits BY DEF Setup!Installing, Setup!Waits
<1>2. st.disk \in Setup!Disks BY <1>0 DEF Setup!Windows
<1>3. SUFFICES ASSUME TRUE
      PROVE \E p \in Setup!Windows, w \in Setup!Installing :
        /\ st' = p /\ p.at = [st.at EXCEPT ![r] = w] /\ p.step = st.step /\ p.retry = st.retry /\ p.sees = st.sees
        /\ p.handles = st.handles /\ p.starting = st.starting /\ p.disk.ffmpeg = st.disk.ffmpeg
        /\ (w = "again" => p.disk.runtime \in {"current", "broken"}) /\ Hears(p)
  BY <1>0, <1>1, InstallMoves
<1>4. ASSUME NEW p \in Setup!Windows, NEW w \in Setup!Installing \ {"again"}, st' = p, p.step = st.step,
             p.at = [st.at EXCEPT ![r] = w], p.retry = st.retry, Same(st, p), Hears(p)
      PROVE  \E u \in Setup!Installing :
        /\ st' = p /\ p.at = [st.at EXCEPT ![r] = u] /\ p.step = st.step /\ p.retry = st.retry /\ p.sees = st.sees
        /\ p.handles = st.handles /\ p.starting = st.starting /\ p.disk.ffmpeg = st.disk.ffmpeg
        /\ (u = "again" => p.disk.runtime \in {"current", "broken"}) /\ Hears(p)
  BY <1>4 DEF Same
<1>5. CASE Setup!Ensured(r)
  <2>1. PICK d \in Setup!recovered(st.disk) : st' = [Setup!to(st, r, "pack") EXCEPT !.disk = d]
    BY <1>5 DEF Setup!Ensured
  <2>2. st.at[r] = "ensure" BY <1>5 DEF Setup!Ensured, Setup!Waiting
  <2>3. d \in Setup!Disks /\ d.ffmpeg = st.disk.ffmpeg BY <1>2, RecoveredFacts
  <2> DEFINE q == Setup!to(st, r, "pack")
             p == [q EXCEPT !.disk = d]
  <2>4. q \in Setup!Windows /\ Keeps(st, q) /\ q.at = [st.at EXCEPT ![r] = "pack"] /\ q.step = st.step
        /\ q.retry = st.retry
    BY <1>0, ToFacts DEF Setup!Waits
  <2>5. st' = p BY <2>1
  <2> HIDE DEF q
  <2>6. /\ p \in Setup!Windows /\ p.disk = d /\ p.at = q.at /\ p.step = q.step /\ p.retry = q.retry /\ p.sees = q.sees
        /\ p.handles = q.handles /\ p.starting = q.starting /\ Quiet(q, p)
    BY <2>3, <2>4 DEF Setup!Windows, Quiet
  <2> HIDE DEF p
  <2>7. Quiet(st, p) /\ p.at = [st.at EXCEPT ![r] = "pack"] BY <2>4, <2>6 DEF Keeps, Quiet
  <2>8. Hears(p) BY <2>2, <2>6, <2>7, StillHears DEF Fetching, Setup!Waits
  <2> QED BY <2>3, <2>4, <2>5, <2>6, <2>7, <2>8 DEF Keeps, Same, Setup!Installing
<1>6. CASE Setup!PackKnown(r)
  <2> DEFINE q == Setup!dropLeft(st)
             p == Setup!to(q, r, "listen")
  <2>1. q \in Setup!Windows /\ Same(st, q) /\ q.at = st.at /\ q.step = st.step /\ q.retry = st.retry
    <3> 0 \in 0..(SetupActs + 1) BY DEF Setup!SetupAssumption
    <3> QED BY <1>0 DEF Setup!dropLeft, Setup!Windows, Same
  <2>2. q.listening = {}
    <3>1. \A x \in st.listening : x = st.unlisten BY DEF SetupInv, Hears
    <3>2. st.listening \subseteq Setup!Runs /\ 0 \notin Setup!Runs BY <1>0 DEF Setup!Windows, Setup!Runs
    <3> QED BY <1>0, <3>1, <3>2 DEF Setup!dropLeft, Setup!Windows
  <2>3. st' = p BY <1>6 DEF Setup!PackKnown
  <2> HIDE DEF q
  <2>4. /\ p \in Setup!Windows /\ Keeps(q, p) /\ p.at = [q.at EXCEPT ![r] = "listen"] /\ p.step = q.step
        /\ p.retry = q.retry
    BY <2>1, ToFacts DEF Setup!Waits
  <2> HIDE DEF p
  <2>5. Same(st, p) BY <2>1, <2>4 DEF Keeps, Same
  <2>6. Hears(p) BY <2>2, <2>4 DEF Keeps, Quiet, Hears
  <2> QED BY <1>4, <2>1, <2>3, <2>4, <2>5, <2>6 DEF Setup!Installing
<1>7. CASE Setup!Listening(r)
  <2> DEFINE w == IF st.archive = "none" THEN "download" ELSE "local"
             q == Setup!to(st, r, w)
             p == [q EXCEPT !.listening = @ \cup {r}, !.unlisten = r]
  <2>1. w \in {"download", "local"} OBVIOUS
  <2>2. st' = p /\ st.at[r] = "listen" BY <1>7 DEF Setup!Listening, Setup!Waiting
  <2> HIDE DEF w
  <2>3. w \in Setup!Waits /\ w \in Fetching /\ w \in Setup!Installing \ {"again"}
    BY <2>1 DEF Setup!Waits, Fetching, Setup!Installing
  <2>4. q \in Setup!Windows /\ Keeps(st, q) /\ q.at = [st.at EXCEPT ![r] = w] /\ q.step = st.step
        /\ q.retry = st.retry
    BY <1>0, <2>3, ToFacts
  <2> HIDE DEF q
  <2>5. r \in 0..(SetupActs + 1) BY DEF Setup!Runs, Setup!SetupAssumption
  <2>6. p \in Setup!Windows /\ Same(q, p) /\ p.at = q.at /\ p.step = q.step /\ p.retry = q.retry
        /\ p.listening = q.listening \cup {r} /\ p.unlisten = r
    BY <2>4, <2>5 DEF Setup!Windows, Same
  <2> HIDE DEF p
  <2>7. st.listening \subseteq Setup!Runs /\ st.at \in [Setup!Runs -> Setup!Waits] BY <1>0 DEF Setup!Windows
  <2>8. \A x \in st.listening : x = r BY <1>0, <2>7, InstallsAlone
  <2>9. p.at[r] = w /\ p.listening = {r} BY <2>4, <2>6, <2>7, <2>8 DEF Keeps, Quiet
  <2>10. Hears(p) BY <2>3, <2>6, <2>9 DEF Hears
  <2>11. Same(st, p) BY <2>4, <2>6 DEF Keeps, Same
  <2>12. p.at = [st.at EXCEPT ![r] = w] /\ p.step = st.step /\ p.retry = st.retry BY <2>4, <2>6
  <2> QED BY <1>4, <2>2, <2>3, <2>6, <2>10, <2>11, <2>12
<1>8. CASE Setup!LocalVerified(r)
  <2>1. st.at[r] = "local" BY <1>8 DEF Setup!LocalVerified, Setup!Waiting
  <2>2. PICK w \in {"extract", "download"}, a \in {"none", st.archive} : st' = [Setup!to(st, r, w) EXCEPT !.archive = a]
    <3>1. CASE st.archive = "good"
      <4>1. Setup!to(st, r, "extract") = [Setup!to(st, r, "extract") EXCEPT !.archive = st.archive]
        BY <1>0 DEF Setup!to, Setup!Windows
      <4> QED BY <1>8, <3>1, <4>1 DEF Setup!LocalVerified
    <3> QED BY <1>8, <3>1 DEF Setup!LocalVerified
  <2> DEFINE q == Setup!to(st, r, w)
             p == [q EXCEPT !.archive = a]
  <2>3. w \in Setup!Waits /\ w \in Fetching /\ w \in Setup!Installing \ {"again"}
    BY DEF Setup!Waits, Fetching, Setup!Installing
  <2>4. q \in Setup!Windows /\ Keeps(st, q) /\ q.at = [st.at EXCEPT ![r] = w] /\ q.step = st.step
        /\ q.retry = st.retry
    BY <1>0, <2>3, ToFacts
  <2>5. a \in {"none", "bad", "good"} BY <1>0 DEF Setup!Windows
  <2> HIDE DEF q
  <2>6. p \in Setup!Windows /\ Keeps(q, p) /\ p.at = q.at /\ p.step = q.step /\ p.retry = q.retry
    BY <2>4, <2>5 DEF Setup!Windows, Keeps, Same, Quiet
  <2>7. st' = p BY <2>2 DEF q
  <2> HIDE DEF p
  <2>8. Same(st, p) /\ Quiet(st, p) BY <2>4, <2>6 DEF Keeps, Same, Quiet
  <2>9. Hears(p) BY <2>3, <2>4, <2>6, <2>8, StillHears
  <2> QED BY <1>4, <2>3, <2>4, <2>6, <2>7, <2>8, <2>9
<1>9. CASE Setup!Downloaded(r) \/ Setup!Verified(r)
  <2>1. PICK w \in {"verify", "extract"} : st' = [Setup!to(st, r, w) EXCEPT !.archive = "good"]
    <3>1. CASE Setup!Downloaded(r) BY <3>1 DEF Setup!Downloaded
    <3>2. CASE Setup!Verified(r)
      <4>1. Setup!to(st, r, "extract") = [Setup!to(st, r, "extract") EXCEPT !.archive = "good"]
        BY <1>0, <3>2 DEF Setup!Verified, Setup!to, Setup!Windows
      <4> QED BY <3>2, <4>1 DEF Setup!Verified
    <3> QED BY <1>9, <3>1, <3>2
  <2> DEFINE q == Setup!to(st, r, w)
             p == [q EXCEPT !.archive = "good"]
  <2>3. w \in Setup!Waits /\ w \in Fetching /\ w \in Setup!Installing \ {"again"}
    BY DEF Setup!Waits, Fetching, Setup!Installing
  <2>4. q \in Setup!Windows /\ Keeps(st, q) /\ q.at = [st.at EXCEPT ![r] = w] /\ q.step = st.step
        /\ q.retry = st.retry
    BY <1>0, <2>3, ToFacts
  <2> HIDE DEF q
  <2>6. p \in Setup!Windows /\ Keeps(q, p) /\ p.at = q.at /\ p.step = q.step /\ p.retry = q.retry
    BY <2>4 DEF Setup!Windows, Keeps, Same, Quiet
  <2>7. st' = p BY <2>1 DEF q
  <2> HIDE DEF p
  <2>8. Same(st, p) /\ Quiet(st, p) BY <2>4, <2>6 DEF Keeps, Same, Quiet
  <2>9. Hears(p) BY <2>3, <2>4, <2>6, <2>8, StillHears
  <2> QED BY <1>4, <2>3, <2>4, <2>6, <2>7, <2>8, <2>9
<1>10. CASE Setup!Extracted(r)
  <2>0. PICK e \in Setup!recovered(st.disk) : \E d \in Setup!swapped(e) :
          st' = Setup!to(Setup!unlistened([st EXCEPT !.disk = d, !.archive = "none"], r), r, "again")
    BY <1>10 DEF Setup!Extracted
  <2>1. PICK d \in Setup!swapped(e) :
          st' = Setup!to(Setup!unlistened([st EXCEPT !.disk = d, !.archive = "none"], r), r, "again")
    BY <2>0
  <2>2. e \in Setup!Disks /\ e.ffmpeg = st.disk.ffmpeg BY <1>2, RecoveredFacts
  <2>3. d \in Setup!Disks /\ d.ffmpeg = st.disk.ffmpeg /\ d.runtime \in {"current", "broken"} BY <2>2, SwappedFacts
  <2> DEFINE q == [st EXCEPT !.disk = d, !.archive = "none"]
             u == Setup!unlistened(q, r)
             p == Setup!to(u, r, "again")
  <2>4. /\ q \in Setup!Windows /\ q.disk = d /\ q.at = st.at /\ q.step = st.step /\ q.sees = st.sees
        /\ q.handles = st.handles /\ q.starting = st.starting /\ q.retry = st.retry /\ Quiet(st, q)
    BY <1>0, <2>3 DEF Setup!Windows, Quiet
  <2> HIDE DEF q
  <2>5. u \in Setup!Windows /\ Same(q, u) /\ Ends(q, u, r) /\ u.at = q.at /\ u.step = q.step /\ u.retry = q.retry
    BY <2>4, UnlistenedFacts
  <2> HIDE DEF u
  <2>6. /\ p \in Setup!Windows /\ Keeps(u, p) /\ p.at = [u.at EXCEPT ![r] = "again"] /\ p.step = u.step
        /\ p.retry = u.retry
    BY <2>5, ToFacts DEF Setup!Waits
  <2>7. st' = p BY <2>1 DEF q, u
  <2> HIDE DEF p
  <2>8. /\ p.disk = d /\ p.sees = st.sees /\ p.handles = st.handles /\ p.starting = st.starting
        /\ p.at = [st.at EXCEPT ![r] = "again"] /\ p.step = st.step /\ p.retry = st.retry
    BY <2>4, <2>5, <2>6 DEF Keeps, Same
  <2>9. Ends(st, p, r) BY <2>4, <2>5, <2>6 DEF Keeps, Quiet, Ends
  <2>10. Hears(p) BY <2>6, <2>8, <2>9, NoneHears DEF Setup!Waits
  <2> QED BY <2>3, <2>6, <2>7, <2>8, <2>10 DEF Setup!Installing
<1> QED BY <1>5, <1>6, <1>7, <1>8, <1>9, <1>10

(* The probe: the run knows what is on the disk now.                        *)
LEMMA Probes ==
  ASSUME Setup!SetupAssumption, SetupInv, NEW r \in Setup!Runs, Setup!Probed(r)
  PROVE  SetupInv'
<1> DEFINE v == Setup!view(st.disk)
           q == Setup!to(st, r, "status")
           p == [q EXCEPT !.sees[r] = v]
<1>0. /\ st \in Setup!Windows /\ acts' \in 0..SetupActs /\ acts' >= acts /\ "status" \in Setup!Waits
      /\ st.at[r] = "probe" /\ st' = p
  BY DEF SetupInv, Setup!SetupTypeOK, Setup!SetupAssumption, Setup!Probed, Setup!Waiting, Setup!Waits
<1>1. st.disk \in Setup!Disks /\ st.sees \in [Setup!Runs -> Setup!Views] BY <1>0 DEF Setup!Windows
<1>2. v \in Setup!Views /\ (v.ffmpeg => st.disk.ffmpeg) /\ (v.python <=> st.disk.runtime \in {"stale", "current"})
  BY <1>1, ViewFacts
<1> HIDE DEF v
<1>3. q \in Setup!Windows /\ Keeps(st, q) /\ q.at = [st.at EXCEPT ![r] = "status"] /\ q.step = st.step
      /\ q.retry = st.retry
  BY <1>0, ToFacts
<1> HIDE DEF q
<1>4. /\ p \in Setup!Windows /\ p.at = q.at /\ p.step = q.step /\ p.disk = q.disk /\ p.handles = q.handles
      /\ p.starting = q.starting /\ p.sees = [q.sees EXCEPT ![r] = v] /\ p.opened = q.opened /\ p.retry = q.retry
      /\ Quiet(q, p)
  BY <1>2, <1>3 DEF Setup!Windows, Quiet
<1> HIDE DEF p
<1>5. /\ p.disk = st.disk /\ p.handles = st.handles /\ p.starting = st.starting /\ p.opened = st.opened
      /\ p.sees = [st.sees EXCEPT ![r] = v] /\ p.at = [st.at EXCEPT ![r] = "status"] /\ p.step = st.step
      /\ p.retry = st.retry /\ Quiet(st, p)
  BY <1>3, <1>4 DEF Keeps, Same, Quiet
<1>6. p.sees[r] = v /\ \A x \in Setup!Runs \ {r} : p.sees[x] = st.sees[x] BY <1>1, <1>5
<1>7. Goes(p, r, "status") BY <1>0, <1>5, <1>6 DEF Goes, Setup!Under, SetupInv
<1>8. Arrives(p, r, "status")
  BY <1>2, <1>5, <1>6 DEF Arrives, Setup!Ready, Setup!Installing, Setup!AfterRuntime, Setup!AfterFfmpeg
<1>9. Fresh(p) /\ Ticked(p)
  BY <1>5 DEF Fresh, Ticked, SetupInv, Setup!NeverStartsStale, Setup!TickedIsDone, Setup!Ready
<1>10. Hears(p) BY <1>0, <1>4, <1>5, StillHears DEF Fetching
<1> QED BY <1>0, <1>4, <1>7, <1>8, <1>9, <1>10, RunMoves

(* The version is known: straight to the backend, to the install, or on.    *)
LEMMA KnowsStatus ==
  ASSUME Setup!SetupAssumption, SetupInv, NEW r \in Setup!Runs, Setup!StatusKnown(r)
  PROVE  SetupInv'
<1> DEFINE c == st.disk.runtime = "current"
           seen == [st.sees[r] EXCEPT !.current = c]
           q == [st EXCEPT !.sees = [st.sees EXCEPT ![r] = seen]]
<1>0. /\ st \in Setup!Windows /\ acts' \in 0..SetupActs /\ acts' >= acts /\ st.at[r] = "status"
  BY DEF SetupInv, Setup!SetupTypeOK, Setup!SetupAssumption, Setup!StatusKnown, Setup!Waiting
<1>1. st.sees \in [Setup!Runs -> Setup!Views] /\ st.disk \in Setup!Disks BY <1>0 DEF Setup!Windows
<1>2. c \in BOOLEAN /\ (c <=> Setup!Ready(st)) BY DEF Setup!Ready
<1>4. \A b : [st EXCEPT !.sees[r].current = b] = [st EXCEPT !.sees = [st.sees EXCEPT ![r] = [@ EXCEPT !.current = b]]]
  BY <1>0, <1>1 DEF Setup!Windows, Setup!Views
<1>3. [st EXCEPT !.sees[r].current = st.disk.runtime = "current"] = q BY <1>1, <1>4
<1>5. \/ Setup!early(q, r) /\ st' = Setup!allButBackend(q, r)
      \/ ~Setup!early(q, r) /\ ~(q.sees[r].python /\ q.sees[r].current) /\ st' = Setup!to(q, r, "ensure")
      \/ q.sees[r].python /\ q.sees[r].current /\ st' = Setup!to(Setup!setStep(q, "runtime", "done"), r, "pause")
  BY <1>3 DEF Setup!StatusKnown
<1> HIDE DEF c
<1>6. /\ seen \in Setup!Views /\ seen.python = st.sees[r].python /\ seen.ffmpeg = st.sees[r].ffmpeg
      /\ seen.current = c
  BY <1>1, <1>2 DEF Setup!Views
<1> HIDE DEF seen
<1>7. /\ q \in Setup!Windows /\ q.at = st.at /\ q.step = st.step /\ q.disk = st.disk /\ q.handles = st.handles
      /\ q.starting = st.starting /\ q.opened = st.opened /\ q.retry = st.retry /\ Quiet(st, q)
      /\ q.sees = [st.sees EXCEPT ![r] = seen]
  <2>1. [st.sees EXCEPT ![r] = seen] \in [Setup!Runs -> Setup!Views] BY <1>1, <1>6
  <2> QED BY <1>0, <2>1 DEF Setup!Windows, Quiet
<1> HIDE DEF q
<1>8. q.sees[r] = seen /\ \A x \in Setup!Runs \ {r} : q.sees[x] = st.sees[x] BY <1>1, <1>7
<1>9. /\ Setup!RunOK(st, r) /\ (q.sees[r].ffmpeg => st.disk.ffmpeg) /\ (Setup!Ready(st) => q.sees[r].python)
      /\ (q.sees[r].current => Setup!Ready(st)) /\ (Setup!Ready(st) => q.sees[r].current)
  <2>1. Setup!RunOK(st, r) BY DEF SetupInv, Setup!RunsOK
  <2> QED BY <1>0, <1>2, <1>6, <1>8, <2>1 DEF Setup!RunOK
<1>10. ASSUME NEW p \in Setup!Windows, NEW w \in Setup!Waits, st' = p, p.at = [st.at EXCEPT ![r] = w], Keeps(q, p),
              p.retry = q.retry, Ticked(p), w \in {"start", "ensure", "pause"},
              w = "ensure" => ~Setup!Ready(st) /\ p.step = q.step,
              w # "ensure" => Setup!Ready(st), w = "start" => st.disk.ffmpeg
       PROVE  SetupInv'
  <2>1. /\ p.disk = st.disk /\ p.handles = st.handles /\ p.starting = st.starting /\ p.opened = st.opened
        /\ p.sees = q.sees /\ Quiet(st, p) /\ p.retry = st.retry
    BY <1>7, <1>10 DEF Keeps, Same, Quiet
  <2>2. Goes(p, r, w) BY <1>0, <1>8, <1>10, <2>1 DEF Goes, Setup!Under, SetupInv
  <2>3. w = "ensure" => ~p.retry /\ p.step["runtime"] # "done" /\ Alone(r)
    <3> SUFFICES ASSUME w = "ensure" PROVE ~p.retry /\ p.step["runtime"] # "done" /\ Alone(r) OBVIOUS
    <3>1. ~Setup!Ready(st) /\ p.step = st.step BY <1>7, <1>10
    <3>2. Setup!Under(st, r) BY <1>0 DEF Setup!Under
    <3>3. ~st.retry /\ Alone(r) BY <3>1, <3>2 DEF SetupInv, Setup!RunsOK, Alone
    <3>4. st.step["runtime"] # "done" BY <3>1 DEF SetupInv, Setup!TickedIsDone, Setup!Ready
    <3> QED BY <2>1, <3>1, <3>3, <3>4
  <2>4. Arrives(p, r, w)
    BY <1>9, <1>10, <2>1, <2>3
    DEF Arrives, Setup!Ready, Setup!Installing, Setup!AfterRuntime, Setup!AfterFfmpeg
  <2>5. Fresh(p) BY <2>1 DEF Fresh, SetupInv, Setup!NeverStartsStale, Setup!Ready
  <2>6. Hears(p) BY <1>0, <1>10, <2>1, StillHears DEF Fetching
  <2> QED BY <1>0, <1>10, <2>2, <2>4, <2>5, <2>6, RunMoves
<1>11. CASE Setup!early(q, r) /\ st' = Setup!allButBackend(q, r)
  <2> DEFINE all == [s \in Setup!Steps |-> IF s = "backend" THEN "active" ELSE "done"]
             e == [q EXCEPT !.step = all]
             p == Setup!to(e, r, "start")
  <2>1. all \in [Setup!Steps -> {"plain", "active", "done", "error"}] /\ all["backend"] # "done" BY DEF Setup!Steps
  <2>2. st' = p BY <1>11 DEF Setup!allButBackend
  <2> HIDE DEF all
  <2>3. e \in Setup!Windows /\ Keeps(q, e) /\ e.at = q.at /\ e.step = all /\ e.retry = q.retry
    BY <1>7, <2>1 DEF Setup!Windows, Keeps, Same, Quiet
  <2> HIDE DEF e
  <2>4. /\ p \in Setup!Windows /\ Keeps(e, p) /\ p.at = [e.at EXCEPT ![r] = "start"] /\ p.step = e.step
        /\ p.retry = e.retry
    BY <2>3, ToFacts DEF Setup!Waits
  <2> HIDE DEF p
  <2>5. Keeps(q, p) BY <2>3, <2>4 DEF Keeps, Same, Quiet
  <2>6. Setup!Ready(st) /\ st.disk.ffmpeg BY <1>9, <1>11 DEF Setup!early
  <2>7. p.disk = st.disk BY <1>7, <2>5 DEF Keeps, Same
  <2>8. Ticked(p) BY <2>1, <2>3, <2>4, <2>6, <2>7 DEF Ticked, Setup!Ready
  <2> QED BY <1>7, <1>10, <2>2, <2>3, <2>4, <2>5, <2>6, <2>8 DEF Setup!Waits
<1>12. CASE ~(q.sees[r].python /\ q.sees[r].current) /\ st' = Setup!to(q, r, "ensure")
  <2> DEFINE p == Setup!to(q, r, "ensure")
  <2>1. /\ p \in Setup!Windows /\ Keeps(q, p) /\ p.at = [q.at EXCEPT ![r] = "ensure"] /\ p.step = q.step
        /\ p.retry = q.retry /\ st' = p
    BY <1>7, <1>12, ToFacts DEF Setup!Waits
  <2> HIDE DEF p
  <2>2. ~Setup!Ready(st) BY <1>9, <1>12
  <2>3. Ticked(p) BY <1>7, <2>1 DEF Ticked, SetupInv, Setup!TickedIsDone, Setup!Ready, Keeps, Same
  <2> QED BY <1>7, <1>10, <2>1, <2>2, <2>3 DEF Setup!Waits
<1>13. CASE q.sees[r].python /\ q.sees[r].current /\ st' = Setup!to(Setup!setStep(q, "runtime", "done"), r, "pause")
  <2> DEFINE e == Setup!setStep(q, "runtime", "done")
             p == Setup!to(e, r, "pause")
  <2>1. e \in Setup!Windows /\ Keeps(q, e) /\ e.at = q.at /\ e.retry = q.retry
    BY <1>7, SetStepFacts DEF Setup!Steps
  <2>2. Ticks(q, e, {"runtime"})
    <3>1. Ticks(q, e, IF "done" = "done" THEN {"runtime"} ELSE {}) BY <1>7, TicksOne DEF Setup!Steps
    <3> QED BY <3>1
  <2>3. st' = p BY <1>13
  <2> HIDE DEF e
  <2>4. /\ p \in Setup!Windows /\ Keeps(e, p) /\ p.at = [e.at EXCEPT ![r] = "pause"] /\ p.step = e.step
        /\ p.retry = e.retry
    BY <2>1, ToFacts DEF Setup!Waits
  <2> HIDE DEF p
  <2>5. Keeps(q, p) BY <2>1, <2>4 DEF Keeps, Same, Quiet
  <2>6. Setup!Ready(st) BY <1>9, <1>13
  <2>7. p.disk = st.disk /\ p.handles = st.handles BY <1>7, <2>5 DEF Keeps, Same
  <2>8. Ticks(st, p, {"runtime"}) BY <1>7, <2>2, <2>4 DEF Ticks
  <2>9. Ticked(p) BY <2>4, <2>6, <2>7, <2>8, VouchedFor DEF Setup!Ready
  <2> QED BY <1>7, <1>10, <2>1, <2>3, <2>4, <2>5, <2>6, <2>9 DEF Setup!Waits
<1> QED BY <1>5, <1>11, <1>12, <1>13

(* A command fails or gives up: the run is over, and the window offers      *)
(* Retry.  What an install has moved meanwhile only it knows of.            *)
LEMMA EndMoves ==
  ASSUME Setup!SetupAssumption, SetupInv, NEW q \in Setup!Windows, NEW r \in Setup!Runs, Setup!Under(st, r),
         st' = Setup!thrown(q, r), acts' \in 0..SetupActs, acts' >= acts, ~st.opened,
         q.at = st.at, q.step = st.step, q.sees = st.sees, q.handles = st.handles, q.opened = st.opened, Quiet(st, q),
         q.starting = (IF st.starting = r THEN 0 ELSE st.starting),
         q.disk.ffmpeg = st.disk.ffmpeg, q.disk.runtime = st.disk.runtime \/ st.at[r] \in Setup!Installing
  PROVE  SetupInv'
<1> DEFINE p == Setup!thrown(q, r)
<1>1. /\ p \in Setup!Windows /\ Same(q, p) /\ Ends(q, p, r) /\ p.at = [q.at EXCEPT ![r] = "over"]
      /\ p.retry = TRUE /\ Ticks(q, p, {}) /\ st' = p
  BY ThrownFacts
<1> HIDE DEF p
<1>2. /\ p.disk = q.disk /\ p.sees = st.sees /\ p.handles = st.handles /\ p.opened = st.opened
      /\ p.starting = (IF st.starting = r THEN 0 ELSE st.starting) /\ p.at = [st.at EXCEPT ![r] = "over"]
      /\ p.disk.ffmpeg = st.disk.ffmpeg /\ p.disk.runtime = q.disk.runtime
  BY <1>1 DEF Same
<1>3. "over" \in Setup!Waits BY DEF Setup!Waits
<1>4. p.starting = 0 \/ (p.starting = st.starting /\ p.starting # r) BY <1>2
<1>5. Goes(p, r, "over") BY <1>1, <1>2, <1>4 DEF Goes, SetupInv
<1>6. Arrives(p, r, "over")
  <2>1. st.sees[r].ffmpeg => st.disk.ffmpeg BY DEF SetupInv, Setup!RunsOK, Setup!RunOK
  <2> QED BY <1>2, <2>1 DEF Arrives, Setup!Installing, Setup!AfterRuntime, Setup!AfterFfmpeg
<1>7. CASE st.at[r] \in Setup!Installing
  <2>1. st.step["runtime"] # "done" /\ st.starting = 0 /\ ~st.handles BY <1>7, InstallsAlone
  <2>2. Fresh(p) BY <1>2, <2>1 DEF Fresh, Setup!Runs
  <2>3. Ticks(st, p, {}) BY <1>1 DEF Ticks
  <2>4. Ticked(p) BY <1>1, <1>2, <2>1, <2>3, VouchedFor
  <2>5. Hears(p) BY <1>1, <1>2, <1>3, NoneHears DEF Ends, Quiet
  <2> QED BY <1>1, <1>3, <1>5, <1>6, <2>2, <2>4, <2>5, RunMoves
<1>8. CASE st.at[r] \notin Setup!Installing
  <2>1. Setup!Ready(st) => Setup!Ready(p) BY <1>2, <1>8 DEF Setup!Ready
  <2>2. Fresh(p) BY <1>2, <2>1 DEF Fresh, SetupInv, Setup!NeverStartsStale, Setup!Ready
  <2>3. Ticks(st, p, {}) BY <1>1 DEF Ticks
  <2>4. Ticked(p) BY <1>1, <1>2, <2>1, <2>3, VouchedFor DEF SetupInv, Setup!TickedIsDone, Setup!Ready
  <2>5. Hears(p) BY <1>1, <1>2, <1>3, NoneHears DEF Ends, Quiet
  <2> QED BY <1>1, <1>3, <1>5, <1>6, <2>2, <2>4, <2>5, RunMoves
<1> QED BY <1>7, <1>8

(* ProbedAgain: the pack is usable, and the runtime ticked off, or not.     *)
LEMMA ProbesAgain ==
  ASSUME Setup!SetupAssumption, SetupInv, NEW r \in Setup!Runs, Setup!ProbedAgain(r)
  PROVE  SetupInv'
<1>0. /\ st \in Setup!Windows /\ acts' \in 0..SetupActs /\ acts' >= acts /\ st.at[r] = "again" /\ ~st.opened
  BY DEF SetupInv, Setup!SetupTypeOK, Setup!SetupAssumption, Setup!ProbedAgain, Setup!Waiting
<1>1. st.disk \in Setup!Disks /\ st.sees \in [Setup!Runs -> Setup!Views] BY <1>0 DEF Setup!Windows
<1> DEFINE v == Setup!view(st.disk)
<1>2. v \in Setup!Views /\ (v.ffmpeg => st.disk.ffmpeg) /\ (v.python <=> st.disk.runtime \in {"stale", "current"})
  BY <1>1, ViewFacts
<1>3. IF v.python THEN st' = Setup!to([Setup!setStep(st, "runtime", "done") EXCEPT !.sees[r] = v], r, "pause")
      ELSE st' = Setup!thrown(st, r)
  BY DEF Setup!ProbedAgain
<1>4. Setup!RunOK(st, r) /\ Setup!Under(st, r) BY <1>0 DEF SetupInv, Setup!RunsOK, Setup!Under
<1> HIDE DEF v
<1>5. CASE v.python
  <2> DEFINE e == Setup!setStep(st, "runtime", "done")
             q == [e EXCEPT !.sees[r] = v]
             p == Setup!to(q, r, "pause")
  <2>1. e \in Setup!Windows /\ Keeps(st, e) /\ e.at = st.at /\ e.retry = st.retry
    BY <1>0, SetStepFacts DEF Setup!Steps
  <2>2. Ticks(st, e, {"runtime"})
    <3>1. Ticks(st, e, IF "done" = "done" THEN {"runtime"} ELSE {}) BY <1>0, TicksOne DEF Setup!Steps
    <3> QED BY <3>1
  <2>3. st' = p BY <1>3, <1>5
  <2> HIDE DEF e
  <2>4. /\ q \in Setup!Windows /\ q.at = e.at /\ q.step = e.step /\ q.disk = e.disk /\ q.handles = e.handles
        /\ q.starting = e.starting /\ q.sees = [e.sees EXCEPT ![r] = v] /\ q.opened = e.opened
        /\ q.retry = e.retry /\ Quiet(e, q)
    BY <1>2, <2>1 DEF Setup!Windows, Quiet
  <2> HIDE DEF q
  <2>5. /\ p \in Setup!Windows /\ Keeps(q, p) /\ p.at = [q.at EXCEPT ![r] = "pause"] /\ p.step = q.step
        /\ p.retry = q.retry
    BY <2>4, ToFacts DEF Setup!Waits
  <2> HIDE DEF p
  <2>6. /\ p.disk = st.disk /\ p.handles = st.handles /\ p.starting = st.starting /\ p.opened = st.opened
        /\ p.sees = [st.sees EXCEPT ![r] = v] /\ p.at = [st.at EXCEPT ![r] = "pause"]
        /\ p.step = e.step /\ p.retry = st.retry /\ Quiet(st, p)
    BY <2>1, <2>4, <2>5 DEF Keeps, Same, Quiet
  <2>7. p.sees[r] = v /\ \A x \in Setup!Runs \ {r} : p.sees[x] = st.sees[x] BY <1>1, <2>6
  <2>8. Setup!Ready(st) BY <1>0, <1>2, <1>4, <1>5 DEF Setup!RunOK, Setup!Ready
  <2>9. Goes(p, r, "pause") BY <1>0, <1>4, <2>6, <2>7 DEF Goes, SetupInv
  <2>10. Arrives(p, r, "pause")
    BY <1>2, <2>6, <2>7, <2>8 DEF Arrives, Setup!Ready, Setup!Installing, Setup!AfterRuntime, Setup!AfterFfmpeg
  <2>11. Fresh(p) BY <2>6 DEF Fresh, SetupInv, Setup!NeverStartsStale, Setup!Ready
  <2>12. Ticks(st, p, {"runtime"}) BY <2>2, <2>6 DEF Ticks
  <2>13. Ticked(p) BY <2>5, <2>6, <2>8, <2>12, VouchedFor DEF Setup!Ready
  <2>14. Hears(p) BY <1>0, <2>5, <2>6, StillHears DEF Fetching, Setup!Waits
  <2> QED BY <1>0, <2>3, <2>5, <2>9, <2>10, <2>11, <2>13, <2>14, RunMoves DEF Setup!Waits
<1>6. CASE ~v.python
  <2>1. st' = Setup!thrown(st, r) BY <1>3, <1>6
  <2>2. st.starting = (IF st.starting = r THEN 0 ELSE st.starting)
    <3>1. "again" \in Setup!Installing BY DEF Setup!Installing
    <3> QED BY <1>0, <3>1, InstallsAlone
  <2> QED BY <1>0, <1>4, <2>1, <2>2, EndMoves DEF Quiet
<1> QED BY <1>5, <1>6

(* From the pause to the workspace.                                         *)
LEMMA Pauses ==
  ASSUME Setup!SetupAssumption, SetupInv, NEW r \in Setup!Runs, Setup!PauseOver(r)
  PROVE  SetupInv'
<1> DEFINE p == Setup!runStep(st, r, "workspace")
<1>0. /\ st \in Setup!Windows /\ acts' \in 0..SetupActs /\ acts' >= acts /\ st.at[r] = "pause" /\ ~st.opened
      /\ st' = p
  BY DEF SetupInv, Setup!SetupTypeOK, Setup!SetupAssumption, Setup!PauseOver, Setup!Waiting
<1>1. p \in Setup!Windows /\ Keeps(st, p) /\ p.at = [st.at EXCEPT ![r] = "workspace"] /\ p.retry = st.retry
      /\ Ticks(st, p, {})
  BY <1>0, RunStepFacts DEF Middle
<1> HIDE DEF p
<1>2. Same(st, p) /\ Quiet(st, p) BY <1>1 DEF Keeps
<1>3. Setup!Ready(st) /\ Setup!Under(st, r)
  BY <1>0 DEF SetupInv, Setup!RunsOK, Setup!RunOK, Setup!AfterRuntime, Setup!Under
<1>4. Hears(p) BY <1>0, <1>1, <1>2, StillHears DEF Fetching, Setup!Waits
<1>5. "workspace" \in Setup!Waits /\ "workspace" \notin Setup!Installing /\ "workspace" \notin Setup!AfterFfmpeg
  BY DEF Setup!Waits, Setup!Installing, Setup!AfterFfmpeg
<1> QED BY <1>0, <1>1, <1>2, <1>3, <1>4, <1>5, PlainMoves

(* The step ffmpeg is skipped only by a run that saw ffmpeg in place.       *)
LEMMA Workspaces ==
  ASSUME Setup!SetupAssumption, SetupInv, NEW r \in Setup!Runs, Setup!WorkspaceDone(r)
  PROVE  SetupInv'
<1>0. /\ st \in Setup!Windows /\ acts' \in 0..SetupActs /\ acts' >= acts /\ st.at[r] = "workspace" /\ ~st.opened
  BY DEF SetupInv, Setup!SetupTypeOK, Setup!SetupAssumption, Setup!WorkspaceDone, Setup!Waiting
<1>1. /\ Setup!Ready(st) /\ Setup!Under(st, r) /\ (st.sees[r].ffmpeg => st.disk.ffmpeg)
  BY <1>0 DEF SetupInv, Setup!RunsOK, Setup!RunOK, Setup!AfterRuntime, Setup!Under
<1>2. st.disk \in Setup!Disks BY <1>0 DEF Setup!Windows
<1>3. PICK d \in Setup!recovered(st.disk) :
        LET q == Setup!setStep([st EXCEPT !.disk = d], "workspace", "done")
        IN st' = IF q.sees[r].ffmpeg THEN Setup!runStep(Setup!setStep(q, "ffmpeg", "done"), r, "gpu")
                 ELSE Setup!runStep(q, r, "ffmpeg")
  BY DEF Setup!WorkspaceDone
<1>4. d = st.disk BY <1>1, <1>2, RecoveredFacts DEF Setup!Ready
<1>5. [st EXCEPT !.disk = d] = st BY <1>0, <1>4 DEF Setup!Windows
<1> DEFINE q == Setup!setStep(st, "workspace", "done")
<1>6. st' = IF q.sees[r].ffmpeg THEN Setup!runStep(Setup!setStep(q, "ffmpeg", "done"), r, "gpu")
            ELSE Setup!runStep(q, r, "ffmpeg")
  BY <1>3, <1>5
<1>7. q \in Setup!Windows /\ Keeps(st, q) /\ q.at = st.at /\ q.retry = st.retry
  BY <1>0, SetStepFacts DEF Setup!Steps
<1>8. Ticks(st, q, {"workspace"})
  <2>1. Ticks(st, q, IF "done" = "done" THEN {"workspace"} ELSE {}) BY <1>0, TicksOne DEF Setup!Steps
  <2> QED BY <2>1
<1> HIDE DEF q
<1>9. ASSUME NEW p \in Setup!Windows, NEW w \in {"gpu", "ffmpeg"}, st' = p, Keeps(q, p), p.at = [q.at EXCEPT ![r] = w],
             p.retry = q.retry, Ticks(q, p, {"ffmpeg"}), w = "gpu" => st.disk.ffmpeg,
             w = "ffmpeg" => Ticks(q, p, {})
      PROVE  SetupInv'
  <2> DEFINE S == IF w = "gpu" THEN {"workspace", "ffmpeg"} ELSE {"workspace"}
  <2>1. Same(st, p) /\ Quiet(st, p) BY <1>7, <1>9 DEF Keeps, Same, Quiet
  <2>2. Ticks(st, p, S) BY <1>8, <1>9 DEF Ticks
  <2>3. w \in Setup!Waits /\ w \notin Setup!Installing BY DEF Setup!Waits, Setup!Installing
  <2>4. "runtime" \notin S /\ "backend" \notin S /\ ("ffmpeg" \in S => st.disk.ffmpeg) BY <1>9
  <2>5. w \in Setup!AfterFfmpeg => st.disk.ffmpeg BY <1>9 DEF Setup!AfterFfmpeg
  <2>6. p.at = [st.at EXCEPT ![r] = w] /\ p.retry = st.retry BY <1>7, <1>9
  <2> HIDE DEF S
  <2>7. Hears(p) BY <1>0, <2>1, <2>3, <2>6, StillHears DEF Fetching
  <2> QED BY <1>0, <1>1, <1>9, <2>1, <2>2, <2>3, <2>4, <2>5, <2>6, <2>7, PlainMoves
<1>10. CASE q.sees[r].ffmpeg
  <2> DEFINE p == Setup!runStep(Setup!setStep(q, "ffmpeg", "done"), r, "gpu")
  <2>1. /\ p \in Setup!Windows /\ Keeps(q, p) /\ p.at = [q.at EXCEPT ![r] = "gpu"] /\ p.retry = q.retry
        /\ Ticks(q, p, {"ffmpeg"})
    BY <1>7, DoneAndOn DEF Middle, Setup!Steps
  <2>2. st' = p BY <1>6, <1>10
  <2> HIDE DEF p
  <2>3. st.disk.ffmpeg BY <1>1, <1>7, <1>10 DEF Keeps, Same
  <2> QED BY <1>9, <2>1, <2>2, <2>3
<1>11. CASE ~q.sees[r].ffmpeg
  <2> DEFINE p == Setup!runStep(q, r, "ffmpeg")
  <2>1. /\ p \in Setup!Windows /\ Keeps(q, p) /\ p.at = [q.at EXCEPT ![r] = "ffmpeg"] /\ p.retry = q.retry
        /\ Ticks(q, p, {})
    BY <1>7, RunStepFacts DEF Middle
  <2>2. st' = p BY <1>6, <1>11
  <2> HIDE DEF p
  <2>3. Ticks(q, p, {"ffmpeg"}) BY <2>1 DEF Ticks
  <2> QED BY <1>9, <2>1, <2>2, <2>3
<1> QED BY <1>10, <1>11

(* ffmpeg is in place now, or the device is settled or not: the step is     *)
(* ticked off, and the next one is under way.                               *)
LEMMA StepsOn ==
  ASSUME Setup!SetupAssumption, SetupInv, NEW r \in Setup!Runs, NEW d \in Setup!Disks, NEW q \in Setup!Windows,
         NEW s \in {"ffmpeg", "gpu"}, NEW w \in {"gpu", "model"}, acts' \in 0..SetupActs, acts' >= acts, ~st.opened,
         Setup!Under(st, r), st.at[r] \in {"ffmpeg", "gpu"}, Setup!Ready(st),
         q.disk = d, d.runtime = st.disk.runtime, d.ffmpeg, q.at = st.at, q.sees = st.sees,
         q.handles = st.handles, q.starting = st.starting, q.opened = st.opened, Quiet(st, q), Ticks(st, q, {}),
         st' = Setup!runStep(Setup!setStep(q, s, "done"), r, w)
  PROVE  SetupInv'
<1> DEFINE p == Setup!runStep(Setup!setStep(q, s, "done"), r, w)
<1>1. /\ p \in Setup!Windows /\ Keeps(q, p) /\ p.at = [q.at EXCEPT ![r] = w] /\ p.retry = q.retry
      /\ Ticks(q, p, {s}) /\ st' = p
  <2>1. s \in Setup!Steps /\ w \in Middle BY DEF Setup!Steps, Middle
  <2> QED BY <2>1, DoneAndOn
<1> HIDE DEF p
<1>2. /\ p.disk = d /\ p.sees = st.sees /\ p.handles = st.handles /\ p.starting = st.starting /\ p.opened = st.opened
      /\ p.at = [st.at EXCEPT ![r] = w] /\ Quiet(st, p)
  BY <1>1 DEF Keeps, Same, Quiet
<1>3. Setup!Ready(p) /\ p.disk.ffmpeg BY <1>2 DEF Setup!Ready
<1>4. Goes(p, r, w) BY <1>2, <1>3 DEF Goes, SetupInv
<1>5. Arrives(p, r, w) BY <1>3 DEF Arrives, Setup!Installing
<1>6. Fresh(p) BY <1>3 DEF Fresh
<1>7. Ticks(st, p, {s}) BY <1>1 DEF Ticks
<1>8. Ticked(p) BY <1>1, <1>2, <1>3, <1>7, VouchedFor
<1>9. w \in Setup!Waits /\ st.at[r] \notin Fetching BY DEF Setup!Waits, Fetching
<1>10. Hears(p) BY <1>1, <1>2, <1>9, StillHears
<1> QED BY <1>1, <1>4, <1>5, <1>6, <1>8, <1>9, <1>10, RunMoves

LEMMA Ffmpegs ==
  ASSUME Setup!SetupAssumption, SetupInv, NEW r \in Setup!Runs, Setup!FfmpegDone(r)
  PROVE  SetupInv'
<1> DEFINE d == [st.disk EXCEPT !.ffmpeg = TRUE]
           q == [st EXCEPT !.disk = d]
<1>0. /\ st \in Setup!Windows /\ acts' \in 0..SetupActs /\ acts' >= acts /\ st.at[r] = "ffmpeg" /\ ~st.opened
  BY DEF SetupInv, Setup!SetupTypeOK, Setup!SetupAssumption, Setup!FfmpegDone, Setup!Waiting
<1>1. st.disk \in Setup!Disks BY <1>0 DEF Setup!Windows
<1>2. d \in Setup!Disks /\ d.ffmpeg /\ d.runtime = st.disk.runtime BY <1>1 DEF Setup!Disks
<1>3. [st EXCEPT !.disk.ffmpeg = TRUE] = q BY <1>0, <1>1 DEF Setup!Windows, Setup!Disks
<1>4. st' = Setup!runStep(Setup!setStep(q, "ffmpeg", "done"), r, "gpu") BY <1>3 DEF Setup!FfmpegDone
<1>5. Setup!Ready(st) /\ Setup!Under(st, r)
  BY <1>0 DEF SetupInv, Setup!RunsOK, Setup!RunOK, Setup!AfterRuntime, Setup!Under
<1> HIDE DEF d
<1>6. /\ q \in Setup!Windows /\ q.disk = d /\ q.at = st.at /\ q.step = st.step /\ q.sees = st.sees
      /\ q.handles = st.handles /\ q.starting = st.starting /\ q.opened = st.opened /\ Quiet(st, q)
  BY <1>0, <1>2 DEF Setup!Windows, Quiet
<1> HIDE DEF q
<1>7. Ticks(st, q, {}) BY <1>6 DEF Ticks
<1> QED BY <1>0, <1>2, <1>4, <1>5, <1>6, <1>7, StepsOn

(* The GPU step settles the device or not, and may show an error.           *)
LEMMA Gpus ==
  ASSUME Setup!SetupAssumption, SetupInv, NEW r \in Setup!Runs, Setup!GpuDone(r)
  PROVE  SetupInv'
<1>0. /\ st \in Setup!Windows /\ acts' \in 0..SetupActs /\ acts' >= acts /\ st.at[r] = "gpu" /\ ~st.opened
  BY DEF SetupInv, Setup!SetupTypeOK, Setup!SetupAssumption, Setup!GpuDone, Setup!Waiting
<1>1. PICK settled \in BOOLEAN, unverified \in BOOLEAN :
        st' = Setup!runStep(Setup!setStep(IF unverified THEN Setup!showError([st EXCEPT !.disk.settled = settled])
                              ELSE [st EXCEPT !.disk.settled = settled], "gpu", "done"), r, "model")
  BY DEF Setup!GpuDone
<1> DEFINE d == [st.disk EXCEPT !.settled = settled]
           q == [st EXCEPT !.disk = d]
           g == IF unverified THEN Setup!showError(q) ELSE q
<1>2. st.disk \in Setup!Disks BY <1>0 DEF Setup!Windows
<1>3. d \in Setup!Disks /\ d.ffmpeg = st.disk.ffmpeg /\ d.runtime = st.disk.runtime BY <1>2 DEF Setup!Disks
<1>4. [st EXCEPT !.disk.settled = settled] = q BY <1>0, <1>2 DEF Setup!Windows, Setup!Disks
<1>5. st' = Setup!runStep(Setup!setStep(g, "gpu", "done"), r, "model") BY <1>1, <1>4
<1>6. Setup!Ready(st) /\ Setup!Under(st, r) /\ st.disk.ffmpeg
  BY <1>0 DEF SetupInv, Setup!RunsOK, Setup!RunOK, Setup!AfterRuntime, Setup!AfterFfmpeg, Setup!Under
<1> HIDE DEF d
<1>7. /\ q \in Setup!Windows /\ q.disk = d /\ q.at = st.at /\ q.step = st.step /\ q.sees = st.sees
      /\ q.handles = st.handles /\ q.starting = st.starting /\ q.opened = st.opened /\ Quiet(st, q)
  BY <1>0, <1>3 DEF Setup!Windows, Quiet
<1> HIDE DEF q
<1>8. g \in Setup!Windows /\ Keeps(q, g) /\ g.at = q.at /\ Ticks(q, g, {})
  <2>1. CASE unverified BY <2>1, <1>7, ShowErrorFacts
  <2>2. CASE ~unverified BY <2>2, <1>7 DEF Keeps, Same, Quiet, Ticks
  <2> QED BY <2>1, <2>2
<1> HIDE DEF g
<1>9. /\ g.disk = d /\ g.at = st.at /\ g.sees = st.sees /\ g.handles = st.handles /\ g.starting = st.starting
      /\ g.opened = st.opened /\ Quiet(st, g)
  BY <1>7, <1>8 DEF Keeps, Same, Quiet
<1>10. Ticks(st, g, {}) BY <1>7, <1>8 DEF Ticks
<1> QED BY <1>0, <1>3, <1>5, <1>6, <1>8, <1>9, <1>10, StepsOn

(* The models are there, or left for later.                                 *)
LEMMA Models ==
  ASSUME Setup!SetupAssumption, SetupInv, NEW r \in Setup!Runs, Setup!ModelDone(r)
  PROVE  SetupInv'
<1> DEFINE q == Setup!setStep(st, "model", "done")
           e == Setup!setStep(q, "backend", "active")
           p == Setup!to(e, r, "start")
<1>0. /\ st \in Setup!Windows /\ acts' \in 0..SetupActs /\ acts' >= acts /\ st.at[r] = "model" /\ ~st.opened /\ st' = p
  BY DEF SetupInv, Setup!SetupTypeOK, Setup!SetupAssumption, Setup!ModelDone, Setup!Waiting
<1>1. q \in Setup!Windows /\ Keeps(st, q) /\ q.at = st.at /\ q.retry = st.retry
  BY <1>0, SetStepFacts DEF Setup!Steps
<1>2. Ticks(st, q, {"model"})
  <2>1. Ticks(st, q, IF "done" = "done" THEN {"model"} ELSE {}) BY <1>0, TicksOne DEF Setup!Steps
  <2> QED BY <2>1
<1> HIDE DEF q
<1>3. e \in Setup!Windows /\ Keeps(q, e) /\ e.at = q.at /\ e.retry = q.retry
  BY <1>1, SetStepFacts DEF Setup!Steps
<1>4. Ticks(q, e, {})
  <2>1. Ticks(q, e, IF "active" = "done" THEN {"backend"} ELSE {}) BY <1>1, TicksOne DEF Setup!Steps
  <2> QED BY <2>1
<1> HIDE DEF e
<1>5. p \in Setup!Windows /\ Keeps(e, p) /\ p.at = [e.at EXCEPT ![r] = "start"] /\ p.step = e.step /\ p.retry = e.retry
  BY <1>3, ToFacts DEF Setup!Waits
<1> HIDE DEF p
<1>6. Same(st, p) /\ Quiet(st, p) BY <1>1, <1>3, <1>5 DEF Keeps, Same, Quiet
<1>7. p.at = [st.at EXCEPT ![r] = "start"] /\ p.retry = st.retry BY <1>1, <1>3, <1>5
<1>8. Ticks(st, p, {"model"}) BY <1>2, <1>4, <1>5 DEF Ticks
<1>9. Setup!Ready(st) /\ Setup!Under(st, r) /\ st.disk.ffmpeg
  BY <1>0 DEF SetupInv, Setup!RunsOK, Setup!RunOK, Setup!AfterRuntime, Setup!AfterFfmpeg, Setup!Under
<1>10. "start" \in Setup!Waits /\ "start" \notin Setup!Installing BY DEF Setup!Waits, Setup!Installing
<1>11. Hears(p) BY <1>0, <1>5, <1>6, <1>7, <1>10, StillHears DEF Fetching
<1> QED BY <1>0, <1>5, <1>6, <1>7, <1>8, <1>9, <1>10, <1>11, PlainMoves

(* A run that is past ffmpeg starts the backend, or fails as another does.  *)
LEMMA Starts ==
  ASSUME Setup!SetupAssumption, SetupInv, NEW r \in Setup!Runs, Setup!StartBackend(r)
  PROVE  SetupInv'
<1>0. /\ st \in Setup!Windows /\ acts' \in 0..SetupActs /\ acts' >= acts /\ st.at[r] = "start" /\ ~st.opened
  BY DEF SetupInv, Setup!SetupTypeOK, Setup!SetupAssumption, Setup!StartBackend, Setup!Waiting
<1>1. Setup!Ready(st) /\ Setup!Under(st, r) /\ st.disk.ffmpeg
  BY <1>0 DEF SetupInv, Setup!RunsOK, Setup!RunOK, Setup!AfterRuntime, Setup!AfterFfmpeg, Setup!Under
<1>2. ~st.handles BY <1>0 DEF SetupInv
<1>3. CASE st.starting # 0
  <2>1. st' = Setup!thrown(st, r) BY <1>2, <1>3 DEF Setup!StartBackend
  <2>2. st.starting # r BY <1>0, <1>3 DEF SetupInv, Setup!RunsOK
  <2> QED BY <1>0, <1>1, <2>1, <2>2, EndMoves DEF Quiet
<1>4. CASE st.starting = 0
  <2> DEFINE e == Setup!to(st, r, "health")
             p == [e EXCEPT !.starting = r]
  <2>1. st' = p BY <1>2, <1>4 DEF Setup!StartBackend
  <2>2. e \in Setup!Windows /\ Keeps(st, e) /\ e.at = [st.at EXCEPT ![r] = "health"] /\ e.step = st.step
        /\ e.retry = st.retry
    BY <1>0, ToFacts DEF Setup!Waits
  <2> HIDE DEF e
  <2>3. r \in 0..(SetupActs + 1) BY DEF Setup!Runs, Setup!SetupAssumption
  <2>4. /\ p \in Setup!Windows /\ p.at = e.at /\ p.step = e.step /\ p.disk = e.disk /\ p.sees = e.sees
        /\ p.handles = e.handles /\ p.starting = r /\ p.opened = e.opened /\ p.retry = e.retry /\ Quiet(e, p)
    BY <2>2, <2>3 DEF Setup!Windows, Quiet
  <2> HIDE DEF p
  <2>5. /\ p.disk = st.disk /\ p.sees = st.sees /\ p.handles = st.handles /\ p.opened = st.opened /\ Quiet(st, p)
        /\ p.at = [st.at EXCEPT ![r] = "health"] /\ p.step = st.step /\ p.retry = st.retry
    BY <2>2, <2>4 DEF Keeps, Same, Quiet
  <2>6. Setup!Ready(p) /\ p.disk.ffmpeg BY <1>1, <2>5 DEF Setup!Ready
  <2>7. Goes(p, r, "health") BY <1>1, <2>4, <2>5 DEF Goes, SetupInv
  <2>8. Arrives(p, r, "health") BY <2>6 DEF Arrives, Setup!Installing
  <2>9. Fresh(p) BY <2>6 DEF Fresh
  <2>10. Ticks(st, p, {}) BY <2>5 DEF Ticks
  <2>11. Ticked(p) BY <2>4, <2>5, <2>6, <2>10, VouchedFor
  <2>12. Hears(p) BY <1>0, <2>4, <2>5, StillHears DEF Fetching, Setup!Waits
  <2> QED BY <1>0, <2>1, <2>4, <2>7, <2>8, <2>9, <2>11, <2>12, RunMoves DEF Setup!Waits
<1> QED BY <1>3, <1>4

(* The backend answers its health request: the app opens.                   *)
LEMMA ComesUp ==
  ASSUME Setup!SetupAssumption, SetupInv, NEW r \in Setup!Runs, Setup!BackendUp(r)
  PROVE  SetupInv'
<1> DEFINE q == Setup!setStep(st, "backend", "done")
           e == Setup!to(q, r, "over")
           p == [e EXCEPT !.starting = 0, !.handles = TRUE, !.opened = TRUE]
<1>0. /\ st \in Setup!Windows /\ acts' \in 0..SetupActs /\ acts' >= acts /\ st.at[r] = "health" /\ ~st.opened /\ st' = p
  BY DEF SetupInv, Setup!SetupTypeOK, Setup!SetupAssumption, Setup!BackendUp, Setup!Waiting
<1>1. Setup!Ready(st) /\ Setup!Under(st, r) /\ st.disk.ffmpeg /\ (st.sees[r].ffmpeg => st.disk.ffmpeg)
  BY <1>0 DEF SetupInv, Setup!RunsOK, Setup!RunOK, Setup!AfterRuntime, Setup!AfterFfmpeg, Setup!Under
<1>2. q \in Setup!Windows /\ Keeps(st, q) /\ q.at = st.at /\ q.retry = st.retry
  BY <1>0, SetStepFacts DEF Setup!Steps
<1>3. Ticks(st, q, {"backend"})
  <2>1. Ticks(st, q, IF "done" = "done" THEN {"backend"} ELSE {}) BY <1>0, TicksOne DEF Setup!Steps
  <2> QED BY <2>1
<1> HIDE DEF q
<1>4. e \in Setup!Windows /\ Keeps(q, e) /\ e.at = [q.at EXCEPT ![r] = "over"] /\ e.step = q.step /\ e.retry = q.retry
  BY <1>2, ToFacts DEF Setup!Waits
<1> HIDE DEF e
<1>5. 0 \in 0..(SetupActs + 1) BY DEF Setup!SetupAssumption
<1>6. /\ p \in Setup!Windows /\ p.at = e.at /\ p.step = e.step /\ p.disk = e.disk /\ p.sees = e.sees /\ p.handles
      /\ p.opened /\ p.starting = 0 /\ p.retry = e.retry /\ Quiet(e, p)
  BY <1>4, <1>5 DEF Setup!Windows, Quiet
<1> HIDE DEF p
<1>7. /\ p.disk = st.disk /\ p.sees = st.sees /\ p.at = [st.at EXCEPT ![r] = "over"] /\ p.retry = st.retry
      /\ Quiet(st, p)
  BY <1>2, <1>4, <1>6 DEF Keeps, Same, Quiet
<1>8. Setup!Ready(p) /\ p.disk.ffmpeg BY <1>1, <1>7 DEF Setup!Ready
<1>9. Goes(p, r, "over") BY <1>1, <1>6, <1>7 DEF Goes
<1>10. Arrives(p, r, "over") BY <1>8 DEF Arrives, Setup!Installing
<1>11. Fresh(p) BY <1>8 DEF Fresh
<1>12. Ticks(st, p, {"backend"}) BY <1>3, <1>4, <1>6 DEF Ticks
<1>13. Ticked(p) BY <1>6, <1>8, <1>12, VouchedFor
<1>14. Hears(p) BY <1>0, <1>6, <1>7, StillHears DEF Fetching, Setup!Waits
<1> QED BY <1>0, <1>6, <1>9, <1>10, <1>11, <1>13, <1>14, RunMoves DEF Setup!Waits

(* A command fails, on the disk it leaves.                                  *)
LEMMA Fails ==
  ASSUME Setup!SetupAssumption, SetupInv, NEW r \in Setup!Runs, Setup!CommandFails(r)
  PROVE  SetupInv'
<1>0. st \in Setup!Windows /\ acts \in 0..SetupActs BY DEF SetupInv, Setup!SetupTypeOK
<1>1. acts' \in 0..SetupActs /\ acts' >= acts /\ ~st.opened /\ Setup!Under(st, r)
  BY <1>0 DEF Setup!CommandFails, Setup!Act, Setup!SetupAssumption, Setup!Under
<1>2. PICK d \in Setup!left(st.disk, st.at[r]), a \in {"none", st.archive} :
        st' = Setup!thrown([st EXCEPT !.starting = IF @ = r THEN 0 ELSE @, !.disk = d, !.archive = a], r)
  BY DEF Setup!CommandFails
<1>3. st.disk \in Setup!Disks /\ st.at[r] \in Setup!Waits /\ a \in {"none", "bad", "good"} BY <1>0 DEF Setup!Windows
<1>4. /\ d \in Setup!Disks /\ d.ffmpeg = st.disk.ffmpeg
      /\ d.runtime = st.disk.runtime \/ st.at[r] \in Setup!Installing \/ st.disk.runtime # "current"
  BY <1>3, LeftFacts
<1>5. d.runtime = st.disk.runtime \/ st.at[r] \in Setup!Installing
  <2>1. CASE st.disk.runtime # "current" /\ st.at[r] \notin Setup!Installing
    <3>1. st.at[r] # "workspace"
      BY <2>1 DEF SetupInv, Setup!RunsOK, Setup!RunOK, Setup!AfterRuntime, Setup!Ready
    <3>2. st.at[r] # "ensure" /\ st.at[r] # "extract" BY <2>1 DEF Setup!Installing
    <3>3. d = st.disk BY <3>1, <3>2 DEF Setup!left
    <3> QED BY <3>3
  <2> QED BY <1>4, <2>1
<1> DEFINE n == IF st.starting = r THEN 0 ELSE st.starting
           q == [st EXCEPT !.starting = n, !.disk = d, !.archive = a]
<1>6. st' = Setup!thrown(q, r) BY <1>2
<1>7. n \in 0..(SetupActs + 1) /\ n = (IF st.starting = r THEN 0 ELSE st.starting)
  BY <1>0 DEF Setup!Windows, Setup!SetupAssumption
<1> HIDE DEF n
<1>8. /\ q \in Setup!Windows /\ q.at = st.at /\ q.step = st.step /\ q.disk = d /\ q.sees = st.sees
      /\ q.handles = st.handles /\ q.starting = n /\ q.opened = st.opened /\ Quiet(st, q)
  BY <1>0, <1>3, <1>4, <1>7 DEF Setup!Windows, Quiet
<1> HIDE DEF q
<1> QED BY <1>1, <1>4, <1>5, <1>6, <1>7, <1>8, EndMoves

(* A Python that never comes back: its run waits for good.                  *)
LEMMA HangsOn ==
  ASSUME Setup!SetupAssumption, SetupInv, NEW r \in Setup!Runs, Setup!Hangs(r)
  PROVE  SetupInv'
<1> DEFINE p == Setup!to(st, r, "hung")
<1>0. st \in Setup!Windows /\ acts \in 0..SetupActs BY DEF SetupInv, Setup!SetupTypeOK
<1>1. /\ acts' \in 0..SetupActs /\ acts' >= acts /\ ~st.opened /\ Setup!Under(st, r) /\ st' = p
      /\ st.at[r] \in {"probe", "again", "gpu"}
  BY <1>0 DEF Setup!Hangs, Setup!Act, Setup!SetupAssumption, Setup!Under
<1>2. p \in Setup!Windows /\ Keeps(st, p) /\ p.at = [st.at EXCEPT ![r] = "hung"] /\ p.step = st.step
      /\ p.retry = st.retry
  BY <1>0, ToFacts DEF Setup!Waits
<1> HIDE DEF p
<1>3. Same(st, p) /\ Quiet(st, p) /\ Ticks(st, p, {}) BY <1>2 DEF Keeps, Ticks
<1>4. /\ "hung" \in Setup!Waits /\ "hung" \notin Setup!Installing /\ "hung" \notin Setup!AfterRuntime
      /\ "hung" \notin Setup!AfterFfmpeg
  BY DEF Setup!Waits, Setup!Installing, Setup!AfterRuntime, Setup!AfterFfmpeg
<1>5. Hears(p) BY <1>1, <1>2, <1>3, <1>4, StillHears DEF Fetching
<1> QED BY <1>1, <1>2, <1>3, <1>4, <1>5, PlainMoves

(* Retry: another run, whatever the others wait for.                        *)
LEMMA Retries ==
  ASSUME Setup!SetupAssumption, SetupInv, Setup!RetryClicked
  PROVE  SetupInv'
<1> DEFINE r == acts + 2
           fresh == [Setup!Untouched EXCEPT !["runtime"] = "active"]
           at == [st.at EXCEPT ![r] = "probe"]
           p == [st EXCEPT !.retry = FALSE, !.step = fresh, !.at = at]
<1>0. /\ st \in Setup!Windows /\ acts \in 0..SetupActs /\ acts < SetupActs /\ acts' = acts + 1 /\ st.retry
  BY DEF SetupInv, Setup!SetupTypeOK, Setup!RetryClicked, Setup!Act
<1>1. r \in Setup!Runs /\ acts' \in 0..SetupActs /\ "probe" \in Setup!Waits
  BY <1>0 DEF Setup!Runs, Setup!SetupAssumption, Setup!Waits
<1>2. st' = p BY <1>0 DEF Setup!RetryClicked, Setup!begun, Setup!Windows
<1>3. fresh \in [Setup!Steps -> {"plain", "active", "done", "error"}] /\ \A s \in Setup!Steps : fresh[s] # "done"
  BY DEF Setup!Untouched, Setup!Steps
<1>4. r > acts + 1 /\ \A x \in Setup!Runs : x > acts' + 1 => x > acts + 1 /\ x # r
  BY <1>0 DEF Setup!Runs, Setup!SetupAssumption
<1> HIDE DEF r, fresh
<1>5. st.at \in [Setup!Runs -> Setup!Waits] BY <1>0 DEF Setup!Windows
<1>6. at \in [Setup!Runs -> Setup!Waits] /\ at[r] = "probe" /\ \A x \in Setup!Runs \ {r} : at[x] = st.at[x]
  BY <1>1, <1>5
<1> HIDE DEF at
<1>7. p \in Setup!Windows /\ Same(st, p) /\ Quiet(st, p) /\ p.at = at /\ p.step = fresh /\ p.retry = FALSE
  BY <1>0, <1>3, <1>6 DEF Setup!Windows, Same, Quiet
<1> HIDE DEF p
<1>8. st.at[r] = "none" BY <1>1, <1>4 DEF SetupInv, NotBegun
<1>9. Setup!RunsOK BY DEF SetupInv
<1>10. Setup!SetupTypeOK' BY <1>1, <1>2, <1>7 DEF Setup!SetupTypeOK
<1>11. ASSUME NEW x \in Setup!Runs PROVE Setup!RunOK(p, x)
  <2>1. Setup!RunOK(st, x) BY <1>9 DEF Setup!RunsOK
  <2>2. CASE x = r
    BY <1>6, <1>7, <2>1, <2>2
    DEF Setup!RunOK, Same, Setup!Installing, Setup!AfterRuntime, Setup!AfterFfmpeg
  <2>3. CASE x # r
    <3>1. p.at[x] = st.at[x] /\ p.sees[x] = st.sees[x] /\ p.disk = st.disk BY <1>6, <1>7, <2>3 DEF Same
    <3>2. st.at[x] \notin Setup!Installing BY <1>0, <2>1 DEF Setup!RunOK
    <3>3. "again" \in Setup!Installing BY DEF Setup!Installing
    <3> QED BY <2>1, <3>1, <3>2, <3>3 DEF Setup!RunOK, Setup!Ready
  <2> QED BY <2>2, <2>3
<1>12. ASSUME NEW x \in Setup!Runs, NEW y \in Setup!Runs \ {x}, Setup!Under(p, x), Setup!Under(p, y)
       PROVE  Setup!Ready(p)
  <2>1. PICK z \in {x, y} : z # r OBVIOUS
  <2>2. Setup!Under(st, z) BY <1>6, <1>7, <1>12, <2>1 DEF Setup!Under
  <2>3. Setup!Ready(st) BY <1>0, <1>9, <2>2 DEF Setup!RunsOK
  <2> QED BY <1>7, <2>3 DEF Setup!Ready, Same
<1>13. p.starting # 0 => p.starting \in Setup!Runs /\ p.at[p.starting] = "health"
  BY <1>6, <1>7, <1>8, <1>9 DEF Same, Setup!RunsOK
<1>14. Setup!RunsOK'
  <2>1. \A x \in Setup!Runs : Setup!RunOK(st', x) BY <1>2, <1>11
  <2>2. \A x \in Setup!Runs : Setup!Under(st', x) /\ (st'.retry \/ \E y \in Setup!Runs \ {x} : Setup!Under(st', y))
          => Setup!Ready(st')
    BY <1>2, <1>7, <1>12
  <2> QED BY <1>2, <1>13, <2>1, <2>2 DEF Setup!RunsOK
<1>15. Setup!NeverStartsStale' BY <1>2, <1>7 DEF SetupInv, Setup!NeverStartsStale, Same
<1>16. Setup!TickedIsDone' BY <1>2, <1>3, <1>7 DEF Setup!TickedIsDone, Setup!Steps
<1>17. Setup!NeverLeftAlone' BY <1>1, <1>2, <1>6, <1>7 DEF Setup!NeverLeftAlone
<1>18. (st.handles => st.opened)' BY <1>2, <1>7 DEF SetupInv, Same
<1>19. Hears(st)'
  <2>1. st.listening \subseteq Setup!Runs BY <1>0 DEF Setup!Windows
  <2>2. r \notin st.listening BY <1>8 DEF SetupInv, Hears, Fetching
  <2> QED BY <1>2, <1>6, <1>7, <2>1, <2>2 DEF SetupInv, Hears, Quiet
<1>20. NotBegun' BY <1>2, <1>4, <1>6, <1>7 DEF SetupInv, NotBegun
<1> QED BY <1>10, <1>14, <1>15, <1>16, <1>17, <1>18, <1>19, <1>20 DEF SetupInv

(* ------------------------------- theorems ------------------------------- *)
LEMMA SetupStep ==
  ASSUME Setup!SetupAssumption, SetupInv, Setup!SetupNext
  PROVE  SetupInv'
<1>1. CASE Setup!Answers
  <2>1. PICK r \in Setup!Runs :
          \/ Setup!Probed(r) \/ Setup!StatusKnown(r) \/ Setup!Ensured(r) \/ Setup!PackKnown(r)
          \/ Setup!Listening(r) \/ Setup!LocalVerified(r) \/ Setup!Downloaded(r) \/ Setup!Verified(r)
          \/ Setup!Extracted(r) \/ Setup!ProbedAgain(r) \/ Setup!PauseOver(r) \/ Setup!WorkspaceDone(r)
          \/ Setup!FfmpegDone(r) \/ Setup!GpuDone(r) \/ Setup!ModelDone(r) \/ Setup!StartBackend(r)
          \/ Setup!BackendUp(r)
    BY <1>1 DEF Setup!Answers
  <2> QED BY <2>1, Probes, KnowsStatus, Installs, ProbesAgain, Pauses, Workspaces, Ffmpegs, Gpus, Models, Starts,
             ComesUp
<1>2. CASE \E r \in Setup!Runs : Setup!CommandFails(r) BY <1>2, Fails
<1>3. CASE \E r \in Setup!Runs : Setup!Hangs(r) BY <1>3, HangsOn
<1>4. CASE Setup!RetryClicked BY <1>4, Retries
<1> QED BY <1>1, <1>2, <1>3, <1>4 DEF Setup!SetupNext

LEMMA SetupStutters ==
  ASSUME SetupInv, st' = st, acts' = acts
  PROVE  SetupInv'
BY DEF SetupInv, Setup!SetupTypeOK, Setup!RunsOK, Setup!NeverStartsStale, Setup!TickedIsDone, Setup!NeverLeftAlone,
       Hears, NotBegun

(* Each part counts with the one library.                                   *)
LEMMA SameCount ==
  ASSUME NEW S
  PROVE  Setup!Cardinality(S) = Cardinality(S)
BY DEF Setup!Cardinality, Cardinality

(* The window shows what is so: what the runs of the model check of it.     *)
LEMMA SetupShows ==
  ASSUME Setup!SetupAssumption, SetupInv
  PROVE  /\ Setup!SetupTypeOK /\ Setup!NeverStartsStale /\ Setup!TickedIsDone
         /\ Setup!OneProgressListener /\ Setup!NeverLeftAlone
<1>1. Hears(st) BY DEF SetupInv
<1>2. st.listening \subseteq {st.unlisten} BY <1>1 DEF Hears
<1>3. st.listening = {} \/ st.listening = {st.unlisten} BY <1>2
<1>4. Setup!Cardinality(st.listening) = Cardinality(st.listening) BY SameCount
<1>5. Cardinality({}) = 0 BY FS_EmptySet
<1>6. Cardinality({st.unlisten}) = 1 BY FS_Singleton
<1>7. Setup!Cardinality(st.listening) <= 1 BY <1>3, <1>4, <1>5, <1>6
<1> QED BY <1>1, <1>2, <1>7 DEF SetupInv, Setup!OneProgressListener

(* ---------------------------- the search box --------------------------- *)
LEMMA FinderCounts ==
  ASSUME NEW S
  PROVE  Finder!Cardinality(S) = Cardinality(S) /\ Finder!IsFiniteSet(S) = IsFiniteSet(S)
BY DEF Finder!Cardinality, Cardinality, Finder!IsFiniteSet, IsFiniteSet

(* There is a number left for one more search.                              *)
LEMMA FreshIsFree ==
  ASSUME SearchActs \in Nat, NEW s, NEW n \in Nat, n < SearchActs,
         s.flights \in SUBSET [n : 1..SearchActs, of : Finder!Asked],
         IsFiniteSet(s.flights), Cardinality(s.flights) <= n
  PROVE  Finder!Fresh(s) \in 1..SearchActs /\ \A f \in s.flights : f.n # Finder!Fresh(s)
<1> DEFINE numbers == {f.n : f \in s.flights}
<1>1. IsFiniteSet(numbers) /\ Cardinality(numbers) <= n
  <2> DEFINE number == [f \in s.flights |-> f.n]
  <2>1. number \in Surjection(s.flights, numbers) BY DEF Surjection
  <2>2. IsFiniteSet(numbers) /\ Cardinality(numbers) <= Cardinality(s.flights) BY <2>1, FS_Surjection
  <2>3. Cardinality(s.flights) \in Nat /\ Cardinality(numbers) \in Nat BY <2>2, FS_CardinalityType
  <2> HIDE DEF numbers, number
  <2> QED BY <2>2, <2>3
<1>2. numbers \subseteq 1..SearchActs OBVIOUS
<1>3. Cardinality(1..SearchActs) = SearchActs BY FS_Interval
<1> HIDE DEF numbers
<1>4. numbers # 1..SearchActs BY <1>1, <1>3
<1>5. \E k \in 1..SearchActs : k \notin numbers BY <1>2, <1>4
<1>6. Finder!Fresh(s) = CHOOSE k \in 1..SearchActs : k \notin numbers BY DEF Finder!Fresh, numbers
<1>7. Finder!Fresh(s) \in 1..SearchActs /\ Finder!Fresh(s) \notin numbers BY <1>5, <1>6
<1> QED BY <1>7 DEF numbers
(* What an operation returns is a search box again.                         *)
LEMMA SilentTyped ==
  ASSUME NEW q \in Finder!SearchRecords
  PROVE  Finder!stopPreview(q) \in Finder!SearchRecords
BY DEF Finder!stopPreview, Finder!SearchRecords

LEMMA CloseTyped ==
  ASSUME SearchActs \in Nat, NEW q \in Finder!SearchRecords
  PROVE  Finder!close(q) \in Finder!SearchRecords
<1> DEFINE p == Finder!stopPreview(q)
<1>1. p \in Finder!SearchRecords BY SilentTyped
<1>2. Finder!close(q) = [p EXCEPT !.timer = Finder!None, !.mine = 0, !.items = Finder!Nothing, !.cursor = -1,
                                  !.lastQuery = Finder!None, !.open = FALSE]
  BY DEF Finder!close
<1> HIDE DEF p
<1>3. 0 \in 0..SearchActs OBVIOUS
<1> QED BY <1>1, <1>2, <1>3 DEF Finder!SearchRecords

LEMMA ScheduleTyped ==
  ASSUME SearchActs \in Nat, NEW q \in Finder!SearchRecords, NEW force
  PROVE  Finder!schedule(q, force) \in Finder!SearchRecords
<1>1. Finder!close(q) \in Finder!SearchRecords BY CloseTyped
<1>2. CASE q.text = Finder!None BY <1>1, <1>2 DEF Finder!schedule
<1>3. CASE q.text # Finder!None /\ ~force /\ q.text = q.lastQuery BY <1>3 DEF Finder!schedule, Finder!SearchRecords
<1>4. CASE q.text # Finder!None /\ ~(~force /\ q.text = q.lastQuery)
  BY <1>4 DEF Finder!schedule, Finder!SearchRecords
<1> QED BY <1>2, <1>3, <1>4

LEMMA FinderType ==
  ASSUME Finder!SearchAssumption, Finder!SearchIInv, Finder!Type
  PROVE  Finder!SearchIInv'
<1>0. /\ st \in Finder!SearchRecords /\ acts \in 0..SearchActs /\ SearchActs \in Nat /\ Finder!None \notin Queries
      /\ Finder!FlightsCounted
  BY DEF Finder!SearchIInv, Finder!SearchTypeOK, Finder!SearchAssumption
<1>1. Finder!SearchTypeOK'
  <2>1. acts' \in 0..SearchActs BY <1>0 DEF Finder!Type, Finder!Act
  <2>2. PICK text \in Queries \cup {Finder!None} : st' = Finder!schedule([st EXCEPT !.text = text], FALSE)
    BY DEF Finder!Type
  <2>3. [st EXCEPT !.text = text] \in Finder!SearchRecords BY <1>0 DEF Finder!SearchRecords
  <2> QED BY <1>0, <2>1, <2>2, <2>3, ScheduleTyped DEF Finder!SearchTypeOK
<1>2. Finder!TimerHasTheBox'
  BY <1>0 DEF Finder!SearchIInv, Finder!Type, Finder!Act, Finder!schedule, Finder!close, Finder!stopPreview,
     Finder!TimerHasTheBox
<1>3. Finder!MineIsLast'
  BY <1>0 DEF Finder!SearchIInv, Finder!Type, Finder!Act, Finder!schedule, Finder!close, Finder!stopPreview,
     Finder!MineIsLast, Finder!AskedLast
<1>4. Finder!ItemsAreShown'
  BY <1>0 DEF Finder!SearchIInv, Finder!Type, Finder!Act, Finder!schedule, Finder!close, Finder!stopPreview,
     Finder!ItemsAreShown
<1>5. Finder!ClosedIsSilent'
  BY <1>0 DEF Finder!SearchIInv, Finder!Type, Finder!Act, Finder!schedule, Finder!close, Finder!stopPreview,
     Finder!ClosedIsSilent
<1>6. Finder!NumbersApart'
  BY <1>0 DEF Finder!SearchIInv, Finder!Type, Finder!Act, Finder!schedule, Finder!close, Finder!stopPreview,
     Finder!NumbersApart
<1>7. Finder!FlightsCounted'
  <2>1. /\ st'.flights = st.flights /\ acts' \in Nat /\ acts' >= acts
        /\ st'.timer = Finder!None \/ st.timer # Finder!None \/ acts' = acts + 1
    BY <1>0 DEF Finder!Type, Finder!Act, Finder!schedule, Finder!close, Finder!stopPreview, Finder!SearchRecords
  <2>2. IsFiniteSet(st.flights) /\ Cardinality(st.flights) \in Nat
    BY <1>0, FinderCounts, FS_CardinalityType DEF Finder!FlightsCounted
  <2>3. Cardinality(st.flights) + (IF st.timer = Finder!None THEN 0 ELSE 1) <= acts
    BY <1>0, FinderCounts DEF Finder!FlightsCounted
  <2>4. Cardinality(st'.flights) + (IF st'.timer = Finder!None THEN 0 ELSE 1) <= acts'
    BY <1>0, <2>1, <2>2, <2>3
  <2> QED BY <2>1, <2>2, <2>4, FinderCounts DEF Finder!FlightsCounted
<1>8. Finder!RowsAnswerTheBox'
  BY <1>0 DEF Finder!SearchIInv, Finder!Type, Finder!Act, Finder!schedule, Finder!close, Finder!stopPreview,
     Finder!SearchRecords, Finder!Nothing, Finder!Silent, Finder!None, Finder!Asked, Finder!Tabs, Finder!Rows, Finder!TimerHasTheBox, Finder!MineIsLast, Finder!AskedLast, Finder!ItemsAreShown, Finder!ClosedIsSilent, Finder!NumbersApart, Finder!FlightsCounted, Finder!RowsAnswerTheBox, Finder!PreviewHasItsRow, Finder!EnterTakesAShownRow
<1>9. Finder!PreviewHasItsRow'
  BY <1>0 DEF Finder!SearchIInv, Finder!Type, Finder!Act, Finder!schedule, Finder!close, Finder!stopPreview,
     Finder!PreviewHasItsRow
<1>10. Finder!EnterTakesAShownRow'
  BY <1>0 DEF Finder!SearchIInv, Finder!Type, Finder!Act, Finder!schedule, Finder!close, Finder!stopPreview,
     Finder!EnterTakesAShownRow
<1> QED BY <1>1, <1>2, <1>3, <1>4, <1>5, <1>6, <1>7, <1>8, <1>9, <1>10 DEF Finder!SearchIInv

LEMMA FinderClickTab ==
  ASSUME Finder!SearchAssumption, Finder!SearchIInv, Finder!ClickTab
  PROVE  Finder!SearchIInv'
<1>0. /\ st \in Finder!SearchRecords /\ acts \in 0..SearchActs /\ SearchActs \in Nat /\ Finder!None \notin Queries
      /\ Finder!FlightsCounted
  BY DEF Finder!SearchIInv, Finder!SearchTypeOK, Finder!SearchAssumption
<1>1. Finder!SearchTypeOK'
  <2>1. acts' \in 0..SearchActs BY <1>0 DEF Finder!ClickTab, Finder!Act
  <2>2. PICK tab \in Finder!Tabs : st' = Finder!schedule([st EXCEPT !.tab = tab, !.items = Finder!Nothing,
       !.lastQuery = Finder!None], TRUE) BY DEF Finder!ClickTab
  <2>3. [st EXCEPT !.tab = tab, !.items = Finder!Nothing, !.lastQuery = Finder!None] \in Finder!SearchRecords
    BY <1>0 DEF Finder!SearchRecords
  <2> QED BY <1>0, <2>1, <2>2, <2>3, ScheduleTyped DEF Finder!SearchTypeOK
<1>2. Finder!TimerHasTheBox'
  BY <1>0 DEF Finder!SearchIInv, Finder!ClickTab, Finder!Act, Finder!schedule, Finder!close, Finder!stopPreview,
     Finder!TimerHasTheBox
<1>3. Finder!MineIsLast'
  BY <1>0 DEF Finder!SearchIInv, Finder!ClickTab, Finder!Act, Finder!schedule, Finder!close, Finder!stopPreview,
     Finder!MineIsLast, Finder!AskedLast
<1>4. Finder!ItemsAreShown'
  BY <1>0 DEF Finder!SearchIInv, Finder!ClickTab, Finder!Act, Finder!schedule, Finder!close, Finder!stopPreview,
     Finder!ItemsAreShown
<1>5. Finder!ClosedIsSilent'
  BY <1>0 DEF Finder!SearchIInv, Finder!ClickTab, Finder!Act, Finder!schedule, Finder!close, Finder!stopPreview,
     Finder!ClosedIsSilent
<1>6. Finder!NumbersApart'
  BY <1>0 DEF Finder!SearchIInv, Finder!ClickTab, Finder!Act, Finder!schedule, Finder!close, Finder!stopPreview,
     Finder!NumbersApart
<1>7. Finder!FlightsCounted'
  <2>1. /\ st'.flights = st.flights /\ acts' \in Nat /\ acts' >= acts
        /\ st'.timer = Finder!None \/ st.timer # Finder!None \/ acts' = acts + 1
    BY <1>0 DEF Finder!ClickTab, Finder!Act, Finder!schedule, Finder!close, Finder!stopPreview, Finder!SearchRecords
  <2>2. IsFiniteSet(st.flights) /\ Cardinality(st.flights) \in Nat
    BY <1>0, FinderCounts, FS_CardinalityType DEF Finder!FlightsCounted
  <2>3. Cardinality(st.flights) + (IF st.timer = Finder!None THEN 0 ELSE 1) <= acts
    BY <1>0, FinderCounts DEF Finder!FlightsCounted
  <2>4. Cardinality(st'.flights) + (IF st'.timer = Finder!None THEN 0 ELSE 1) <= acts'
    BY <1>0, <2>1, <2>2, <2>3
  <2> QED BY <2>1, <2>2, <2>4, FinderCounts DEF Finder!FlightsCounted
<1>8. Finder!RowsAnswerTheBox'
  BY <1>0 DEF Finder!SearchIInv, Finder!ClickTab, Finder!Act, Finder!schedule, Finder!close, Finder!stopPreview,
     Finder!RowsAnswerTheBox
<1>9. Finder!PreviewHasItsRow'
  BY <1>0 DEF Finder!SearchIInv, Finder!ClickTab, Finder!Act, Finder!schedule, Finder!close, Finder!stopPreview,
     Finder!PreviewHasItsRow
<1>10. Finder!EnterTakesAShownRow'
  BY <1>0 DEF Finder!SearchIInv, Finder!ClickTab, Finder!Act, Finder!schedule, Finder!close, Finder!stopPreview,
     Finder!EnterTakesAShownRow
<1> QED BY <1>1, <1>2, <1>3, <1>4, <1>5, <1>6, <1>7, <1>8, <1>9, <1>10 DEF Finder!SearchIInv

LEMMA FinderDismiss ==
  ASSUME Finder!SearchAssumption, Finder!SearchIInv, Finder!Dismiss
  PROVE  Finder!SearchIInv'
<1>0. /\ st \in Finder!SearchRecords /\ acts \in 0..SearchActs /\ SearchActs \in Nat /\ Finder!None \notin Queries
      /\ Finder!FlightsCounted
  BY DEF Finder!SearchIInv, Finder!SearchTypeOK, Finder!SearchAssumption
<1>1. Finder!SearchTypeOK'
  <2>1. acts' \in 0..SearchActs BY <1>0 DEF Finder!Dismiss, Finder!Act
  <2>2. st' = Finder!close(st) BY DEF Finder!Dismiss
  <2>3. st \in Finder!SearchRecords BY <1>0 DEF Finder!SearchRecords
  <2> QED BY <1>0, <2>1, <2>2, <2>3, CloseTyped DEF Finder!SearchTypeOK
<1>2. Finder!TimerHasTheBox'
  BY <1>0 DEF Finder!SearchIInv, Finder!Dismiss, Finder!Act, Finder!close, Finder!stopPreview, Finder!TimerHasTheBox
<1>3. Finder!MineIsLast'
  BY <1>0 DEF Finder!SearchIInv, Finder!Dismiss, Finder!Act, Finder!close, Finder!stopPreview, Finder!MineIsLast,
     Finder!AskedLast
<1>4. Finder!ItemsAreShown'
  BY <1>0 DEF Finder!SearchIInv, Finder!Dismiss, Finder!Act, Finder!close, Finder!stopPreview, Finder!ItemsAreShown
<1>5. Finder!ClosedIsSilent'
  BY <1>0 DEF Finder!SearchIInv, Finder!Dismiss, Finder!Act, Finder!close, Finder!stopPreview, Finder!ClosedIsSilent
<1>6. Finder!NumbersApart'
  BY <1>0 DEF Finder!SearchIInv, Finder!Dismiss, Finder!Act, Finder!close, Finder!stopPreview, Finder!NumbersApart
<1>7. Finder!FlightsCounted'
  <2>1. /\ st'.flights = st.flights /\ acts' \in Nat /\ acts' >= acts
        /\ st'.timer = Finder!None \/ st.timer # Finder!None \/ acts' = acts + 1
    BY <1>0 DEF Finder!Dismiss, Finder!Act, Finder!close, Finder!stopPreview, Finder!SearchRecords
  <2>2. IsFiniteSet(st.flights) /\ Cardinality(st.flights) \in Nat
    BY <1>0, FinderCounts, FS_CardinalityType DEF Finder!FlightsCounted
  <2>3. Cardinality(st.flights) + (IF st.timer = Finder!None THEN 0 ELSE 1) <= acts
    BY <1>0, FinderCounts DEF Finder!FlightsCounted
  <2>4. Cardinality(st'.flights) + (IF st'.timer = Finder!None THEN 0 ELSE 1) <= acts'
    BY <1>0, <2>1, <2>2, <2>3
  <2> QED BY <2>1, <2>2, <2>4, FinderCounts DEF Finder!FlightsCounted
<1>8. Finder!RowsAnswerTheBox'
  BY <1>0 DEF Finder!SearchIInv, Finder!Dismiss, Finder!Act, Finder!close, Finder!stopPreview, Finder!RowsAnswerTheBox
<1>9. Finder!PreviewHasItsRow'
  BY <1>0 DEF Finder!SearchIInv, Finder!Dismiss, Finder!Act, Finder!close, Finder!stopPreview, Finder!PreviewHasItsRow
<1>10. Finder!EnterTakesAShownRow'
  BY <1>0 DEF Finder!SearchIInv, Finder!Dismiss, Finder!Act, Finder!close, Finder!stopPreview,
     Finder!EnterTakesAShownRow
<1> QED BY <1>1, <1>2, <1>3, <1>4, <1>5, <1>6, <1>7, <1>8, <1>9, <1>10 DEF Finder!SearchIInv

LEMMA FinderHighlight ==
  ASSUME Finder!SearchAssumption, Finder!SearchIInv, Finder!highlight
  PROVE  Finder!SearchIInv'
<1>0. /\ st \in Finder!SearchRecords /\ acts \in 0..SearchActs /\ SearchActs \in Nat /\ Finder!None \notin Queries
      /\ Finder!FlightsCounted
  BY DEF Finder!SearchIInv, Finder!SearchTypeOK, Finder!SearchAssumption
<1>1. Finder!SearchTypeOK'
  BY <1>0 DEF Finder!highlight, Finder!Act, Finder!SearchTypeOK, Finder!SearchRecords, Finder!Nothing, Finder!Silent,
     Finder!None, Finder!Asked, Finder!Tabs, Finder!Rows
<1>2. Finder!TimerHasTheBox' BY <1>0 DEF Finder!SearchIInv, Finder!highlight, Finder!Act, Finder!TimerHasTheBox
<1>3. Finder!MineIsLast'
  BY <1>0 DEF Finder!SearchIInv, Finder!highlight, Finder!Act, Finder!MineIsLast, Finder!AskedLast
<1>4. Finder!ItemsAreShown' BY <1>0 DEF Finder!SearchIInv, Finder!highlight, Finder!Act, Finder!ItemsAreShown
<1>5. Finder!ClosedIsSilent' BY <1>0 DEF Finder!SearchIInv, Finder!highlight, Finder!Act, Finder!ClosedIsSilent
<1>6. Finder!NumbersApart' BY <1>0 DEF Finder!SearchIInv, Finder!highlight, Finder!Act, Finder!NumbersApart
<1>7. Finder!FlightsCounted'
  <2>1. /\ st'.flights = st.flights /\ acts' \in Nat /\ acts' >= acts
        /\ st'.timer = Finder!None \/ st.timer # Finder!None \/ acts' = acts + 1
    BY <1>0 DEF Finder!highlight, Finder!Act, Finder!SearchRecords
  <2>2. IsFiniteSet(st.flights) /\ Cardinality(st.flights) \in Nat
    BY <1>0, FinderCounts, FS_CardinalityType DEF Finder!FlightsCounted
  <2>3. Cardinality(st.flights) + (IF st.timer = Finder!None THEN 0 ELSE 1) <= acts
    BY <1>0, FinderCounts DEF Finder!FlightsCounted
  <2>4. Cardinality(st'.flights) + (IF st'.timer = Finder!None THEN 0 ELSE 1) <= acts'
    BY <1>0, <2>1, <2>2, <2>3
  <2> QED BY <2>1, <2>2, <2>4, FinderCounts DEF Finder!FlightsCounted
<1>8. Finder!RowsAnswerTheBox' BY <1>0 DEF Finder!SearchIInv, Finder!highlight, Finder!Act, Finder!RowsAnswerTheBox
<1>9. Finder!PreviewHasItsRow' BY <1>0 DEF Finder!SearchIInv, Finder!highlight, Finder!Act, Finder!PreviewHasItsRow
<1>10. Finder!EnterTakesAShownRow'
  BY <1>0 DEF Finder!SearchIInv, Finder!highlight, Finder!Act, Finder!SearchRecords, Finder!Nothing, Finder!Silent,
     Finder!None, Finder!Asked, Finder!Tabs, Finder!Rows, Finder!TimerHasTheBox, Finder!MineIsLast, Finder!AskedLast, Finder!ItemsAreShown, Finder!ClosedIsSilent, Finder!NumbersApart, Finder!FlightsCounted, Finder!RowsAnswerTheBox, Finder!PreviewHasItsRow, Finder!EnterTakesAShownRow
<1> QED BY <1>1, <1>2, <1>3, <1>4, <1>5, <1>6, <1>7, <1>8, <1>9, <1>10 DEF Finder!SearchIInv

LEMMA FinderStartPreview ==
  ASSUME Finder!SearchAssumption, Finder!SearchIInv, Finder!startPreview
  PROVE  Finder!SearchIInv'
<1>0. /\ st \in Finder!SearchRecords /\ acts \in 0..SearchActs /\ SearchActs \in Nat /\ Finder!None \notin Queries
      /\ Finder!FlightsCounted
  BY DEF Finder!SearchIInv, Finder!SearchTypeOK, Finder!SearchAssumption
<1>1. Finder!SearchTypeOK'
  BY <1>0 DEF Finder!startPreview, Finder!Act, Finder!stopPreview, Finder!SearchTypeOK, Finder!SearchRecords
<1>2. Finder!TimerHasTheBox'
  BY <1>0 DEF Finder!SearchIInv, Finder!startPreview, Finder!Act, Finder!stopPreview, Finder!TimerHasTheBox
<1>3. Finder!MineIsLast'
  BY <1>0 DEF Finder!SearchIInv, Finder!startPreview, Finder!Act, Finder!stopPreview, Finder!MineIsLast,
     Finder!AskedLast
<1>4. Finder!ItemsAreShown'
  BY <1>0 DEF Finder!SearchIInv, Finder!startPreview, Finder!Act, Finder!stopPreview, Finder!ItemsAreShown
<1>5. Finder!ClosedIsSilent'
  BY <1>0 DEF Finder!SearchIInv, Finder!startPreview, Finder!Act, Finder!stopPreview, Finder!ClosedIsSilent
<1>6. Finder!NumbersApart'
  BY <1>0 DEF Finder!SearchIInv, Finder!startPreview, Finder!Act, Finder!stopPreview, Finder!NumbersApart
<1>7. Finder!FlightsCounted'
  <2>1. /\ st'.flights = st.flights /\ acts' \in Nat /\ acts' >= acts
        /\ st'.timer = Finder!None \/ st.timer # Finder!None \/ acts' = acts + 1
    BY <1>0 DEF Finder!startPreview, Finder!Act, Finder!stopPreview, Finder!SearchRecords
  <2>2. IsFiniteSet(st.flights) /\ Cardinality(st.flights) \in Nat
    BY <1>0, FinderCounts, FS_CardinalityType DEF Finder!FlightsCounted
  <2>3. Cardinality(st.flights) + (IF st.timer = Finder!None THEN 0 ELSE 1) <= acts
    BY <1>0, FinderCounts DEF Finder!FlightsCounted
  <2>4. Cardinality(st'.flights) + (IF st'.timer = Finder!None THEN 0 ELSE 1) <= acts'
    BY <1>0, <2>1, <2>2, <2>3
  <2> QED BY <2>1, <2>2, <2>4, FinderCounts DEF Finder!FlightsCounted
<1>8. Finder!RowsAnswerTheBox'
  BY <1>0 DEF Finder!SearchIInv, Finder!startPreview, Finder!Act, Finder!stopPreview, Finder!RowsAnswerTheBox
<1>9. Finder!PreviewHasItsRow'
  BY <1>0 DEF Finder!SearchIInv, Finder!startPreview, Finder!Act, Finder!stopPreview, Finder!SearchRecords,
     Finder!Nothing, Finder!Silent, Finder!None, Finder!Asked, Finder!Tabs, Finder!Rows, Finder!TimerHasTheBox, Finder!MineIsLast, Finder!AskedLast, Finder!ItemsAreShown, Finder!ClosedIsSilent, Finder!NumbersApart, Finder!FlightsCounted, Finder!RowsAnswerTheBox, Finder!PreviewHasItsRow, Finder!EnterTakesAShownRow
<1>10. Finder!EnterTakesAShownRow'
  BY <1>0 DEF Finder!SearchIInv, Finder!startPreview, Finder!Act, Finder!stopPreview, Finder!EnterTakesAShownRow
<1> QED BY <1>1, <1>2, <1>3, <1>4, <1>5, <1>6, <1>7, <1>8, <1>9, <1>10 DEF Finder!SearchIInv

LEMMA FinderClickRow ==
  ASSUME Finder!SearchAssumption, Finder!SearchIInv, Finder!ClickRow
  PROVE  Finder!SearchIInv'
<1>0. /\ st \in Finder!SearchRecords /\ acts \in 0..SearchActs /\ SearchActs \in Nat /\ Finder!None \notin Queries
      /\ Finder!FlightsCounted
  BY DEF Finder!SearchIInv, Finder!SearchTypeOK, Finder!SearchAssumption
<1>1. Finder!SearchTypeOK'
  <2>1. acts' \in 0..SearchActs BY <1>0 DEF Finder!ClickRow, Finder!Act
  <2>2. st' = Finder!close([st EXCEPT !.text = Finder!None]) BY DEF Finder!ClickRow
  <2>3. [st EXCEPT !.text = Finder!None] \in Finder!SearchRecords BY <1>0 DEF Finder!SearchRecords
  <2> QED BY <1>0, <2>1, <2>2, <2>3, CloseTyped DEF Finder!SearchTypeOK
<1>2. Finder!TimerHasTheBox'
  BY <1>0 DEF Finder!SearchIInv, Finder!ClickRow, Finder!Act, Finder!close, Finder!stopPreview, Finder!TimerHasTheBox
<1>3. Finder!MineIsLast'
  BY <1>0 DEF Finder!SearchIInv, Finder!ClickRow, Finder!Act, Finder!close, Finder!stopPreview, Finder!MineIsLast,
     Finder!AskedLast
<1>4. Finder!ItemsAreShown'
  BY <1>0 DEF Finder!SearchIInv, Finder!ClickRow, Finder!Act, Finder!close, Finder!stopPreview, Finder!ItemsAreShown
<1>5. Finder!ClosedIsSilent'
  BY <1>0 DEF Finder!SearchIInv, Finder!ClickRow, Finder!Act, Finder!close, Finder!stopPreview, Finder!ClosedIsSilent
<1>6. Finder!NumbersApart'
  BY <1>0 DEF Finder!SearchIInv, Finder!ClickRow, Finder!Act, Finder!close, Finder!stopPreview, Finder!NumbersApart
<1>7. Finder!FlightsCounted'
  <2>1. /\ st'.flights = st.flights /\ acts' \in Nat /\ acts' >= acts
        /\ st'.timer = Finder!None \/ st.timer # Finder!None \/ acts' = acts + 1
    BY <1>0 DEF Finder!ClickRow, Finder!Act, Finder!close, Finder!stopPreview, Finder!SearchRecords
  <2>2. IsFiniteSet(st.flights) /\ Cardinality(st.flights) \in Nat
    BY <1>0, FinderCounts, FS_CardinalityType DEF Finder!FlightsCounted
  <2>3. Cardinality(st.flights) + (IF st.timer = Finder!None THEN 0 ELSE 1) <= acts
    BY <1>0, FinderCounts DEF Finder!FlightsCounted
  <2>4. Cardinality(st'.flights) + (IF st'.timer = Finder!None THEN 0 ELSE 1) <= acts'
    BY <1>0, <2>1, <2>2, <2>3
  <2> QED BY <2>1, <2>2, <2>4, FinderCounts DEF Finder!FlightsCounted
<1>8. Finder!RowsAnswerTheBox'
  BY <1>0 DEF Finder!SearchIInv, Finder!ClickRow, Finder!Act, Finder!close, Finder!stopPreview,
     Finder!RowsAnswerTheBox
<1>9. Finder!PreviewHasItsRow'
  BY <1>0 DEF Finder!SearchIInv, Finder!ClickRow, Finder!Act, Finder!close, Finder!stopPreview,
     Finder!PreviewHasItsRow
<1>10. Finder!EnterTakesAShownRow'
  BY <1>0 DEF Finder!SearchIInv, Finder!ClickRow, Finder!Act, Finder!close, Finder!stopPreview,
     Finder!EnterTakesAShownRow
<1> QED BY <1>1, <1>2, <1>3, <1>4, <1>5, <1>6, <1>7, <1>8, <1>9, <1>10 DEF Finder!SearchIInv

LEMMA FinderPressEnter ==
  ASSUME Finder!SearchAssumption, Finder!SearchIInv, Finder!PressEnter
  PROVE  Finder!SearchIInv'
<1>0. /\ st \in Finder!SearchRecords /\ acts \in 0..SearchActs /\ SearchActs \in Nat /\ Finder!None \notin Queries
      /\ Finder!FlightsCounted
  BY DEF Finder!SearchIInv, Finder!SearchTypeOK, Finder!SearchAssumption
<1>1. Finder!SearchTypeOK'
  <2>1. acts' \in 0..SearchActs BY <1>0 DEF Finder!PressEnter, Finder!Act
  <2>2. st' = Finder!close([st EXCEPT !.text = Finder!None]) BY DEF Finder!PressEnter
  <2>3. [st EXCEPT !.text = Finder!None] \in Finder!SearchRecords BY <1>0 DEF Finder!SearchRecords
  <2> QED BY <1>0, <2>1, <2>2, <2>3, CloseTyped DEF Finder!SearchTypeOK
<1>2. Finder!TimerHasTheBox'
  BY <1>0 DEF Finder!SearchIInv, Finder!PressEnter, Finder!Act, Finder!close, Finder!stopPreview,
     Finder!TimerHasTheBox
<1>3. Finder!MineIsLast'
  BY <1>0 DEF Finder!SearchIInv, Finder!PressEnter, Finder!Act, Finder!close, Finder!stopPreview, Finder!MineIsLast,
     Finder!AskedLast
<1>4. Finder!ItemsAreShown'
  BY <1>0 DEF Finder!SearchIInv, Finder!PressEnter, Finder!Act, Finder!close, Finder!stopPreview, Finder!ItemsAreShown
<1>5. Finder!ClosedIsSilent'
  BY <1>0 DEF Finder!SearchIInv, Finder!PressEnter, Finder!Act, Finder!close, Finder!stopPreview,
     Finder!ClosedIsSilent
<1>6. Finder!NumbersApart'
  BY <1>0 DEF Finder!SearchIInv, Finder!PressEnter, Finder!Act, Finder!close, Finder!stopPreview, Finder!NumbersApart
<1>7. Finder!FlightsCounted'
  <2>1. /\ st'.flights = st.flights /\ acts' \in Nat /\ acts' >= acts
        /\ st'.timer = Finder!None \/ st.timer # Finder!None \/ acts' = acts + 1
    BY <1>0 DEF Finder!PressEnter, Finder!Act, Finder!close, Finder!stopPreview, Finder!SearchRecords
  <2>2. IsFiniteSet(st.flights) /\ Cardinality(st.flights) \in Nat
    BY <1>0, FinderCounts, FS_CardinalityType DEF Finder!FlightsCounted
  <2>3. Cardinality(st.flights) + (IF st.timer = Finder!None THEN 0 ELSE 1) <= acts
    BY <1>0, FinderCounts DEF Finder!FlightsCounted
  <2>4. Cardinality(st'.flights) + (IF st'.timer = Finder!None THEN 0 ELSE 1) <= acts'
    BY <1>0, <2>1, <2>2, <2>3
  <2> QED BY <2>1, <2>2, <2>4, FinderCounts DEF Finder!FlightsCounted
<1>8. Finder!RowsAnswerTheBox'
  BY <1>0 DEF Finder!SearchIInv, Finder!PressEnter, Finder!Act, Finder!close, Finder!stopPreview,
     Finder!RowsAnswerTheBox
<1>9. Finder!PreviewHasItsRow'
  BY <1>0 DEF Finder!SearchIInv, Finder!PressEnter, Finder!Act, Finder!close, Finder!stopPreview,
     Finder!PreviewHasItsRow
<1>10. Finder!EnterTakesAShownRow'
  BY <1>0 DEF Finder!SearchIInv, Finder!PressEnter, Finder!Act, Finder!close, Finder!stopPreview,
     Finder!EnterTakesAShownRow
<1> QED BY <1>1, <1>2, <1>3, <1>4, <1>5, <1>6, <1>7, <1>8, <1>9, <1>10 DEF Finder!SearchIInv

(* The pause is over: a search under a number of its own.                   *)
LEMMA FinderTimerDue ==
  ASSUME Finder!SearchAssumption, Finder!SearchIInv, Finder!TimerDue
  PROVE  Finder!SearchIInv'
<1> DEFINE q == [st EXCEPT !.timer = Finder!None, !.lastQuery = st.timer]
           n == Finder!Fresh(q)
           f == [n |-> n, of |-> [query |-> st.timer, tab |-> st.tab]]
<1>0. /\ st \in Finder!SearchRecords /\ acts \in 0..SearchActs /\ SearchActs \in Nat /\ Finder!None \notin Queries
      /\ Finder!FlightsCounted /\ st.timer # Finder!None /\ acts' = acts
  BY DEF Finder!SearchIInv, Finder!SearchTypeOK, Finder!SearchAssumption, Finder!TimerDue
<1>1. /\ q \in Finder!SearchRecords /\ q.flights = st.flights /\ q.tab = st.tab /\ q.timer = Finder!None
      /\ q.lastQuery = st.timer
      /\ q.items = st.items /\ q.cursor = st.cursor /\ q.text = st.text /\ q.buttons = st.buttons
  BY <1>0 DEF Finder!SearchRecords
<1>2. IsFiniteSet(st.flights) /\ Cardinality(st.flights) \in Nat /\ Cardinality(st.flights) + 1 <= acts
  <2>1. IsFiniteSet(st.flights) BY <1>0, FinderCounts DEF Finder!FlightsCounted
  <2>2. Cardinality(st.flights) + (IF st.timer = Finder!None THEN 0 ELSE 1) <= acts
    BY <1>0, FinderCounts DEF Finder!FlightsCounted
  <2> QED BY <1>0, <2>1, <2>2, FS_CardinalityType
<1>3. n \in 1..SearchActs /\ \A g \in st.flights : g.n # n
  <2>1. q.flights \in SUBSET [n : 1..SearchActs, of : Finder!Asked] BY <1>1 DEF Finder!SearchRecords
  <2>2. acts - 1 \in Nat /\ acts - 1 < SearchActs /\ Cardinality(q.flights) <= acts - 1 BY <1>0, <1>1, <1>2
  <2> HIDE DEF q
  <2> QED BY <1>0, <1>1, <1>2, <2>1, <2>2, FreshIsFree
<1>4. f \in [n : 1..SearchActs, of : Finder!Asked] /\ f \notin st.flights
  BY <1>0, <1>3 DEF Finder!SearchRecords, Finder!Asked
<1>5. st' = Finder!run(q, st.timer) BY DEF Finder!TimerDue
<1> HIDE DEF q, n
<1>6. /\ st' \in Finder!SearchRecords
      /\ st'.timer = Finder!None /\ st'.lastQuery = st.timer /\ st'.mine = n /\ st'.open = TRUE
      /\ st'.flights = st.flights \cup {f} /\ st'.rows = Finder!Nothing /\ st'.status = "searching"
      /\ st'.preview = Finder!Silent /\ st'.text = st.text /\ st'.tab = st.tab /\ st'.items = st.items
  <2> DEFINE p == Finder!setStatus(q, "searching")
  <2>1. /\ p \in Finder!SearchRecords /\ p.timer = q.timer /\ p.lastQuery = q.lastQuery /\ p.flights = q.flights
        /\ p.rows = Finder!Nothing /\ p.status = "searching" /\ p.preview = Finder!Silent /\ p.text = q.text
        /\ p.tab = q.tab /\ p.items = q.items
    BY <1>1 DEF Finder!setStatus, Finder!stopPreview, Finder!SearchRecords
  <2>2. st' = [p EXCEPT !.mine = n, !.open = TRUE, !.flights = p.flights \cup {f}]
    BY <1>1, <1>5, <2>1 DEF Finder!run, n, Finder!SearchRecords
  <2> HIDE DEF p, f
  <2>3. p.flights \cup {f} \in SUBSET [n : 1..SearchActs, of : Finder!Asked]
    BY <1>1, <1>4, <2>1 DEF Finder!SearchRecords
  <2>4. n \in 0..SearchActs BY <1>3
  <2> QED BY <1>1, <2>1, <2>2, <2>3, <2>4 DEF Finder!SearchRecords
<1>7. Finder!SearchTypeOK' BY <1>0, <1>6 DEF Finder!SearchTypeOK
<1>8. Finder!TimerHasTheBox' BY <1>6 DEF Finder!TimerHasTheBox
<1>9. Finder!MineIsLast'
  BY <1>0, <1>3, <1>6 DEF Finder!MineIsLast, Finder!AskedLast, Finder!SearchIInv, Finder!TimerHasTheBox
<1>10. Finder!ItemsAreShown' BY <1>6 DEF Finder!ItemsAreShown
<1>11. Finder!ClosedIsSilent' BY <1>6 DEF Finder!ClosedIsSilent
<1>12. Finder!NumbersApart' BY <1>3, <1>6 DEF Finder!NumbersApart, Finder!SearchIInv
<1>13. Finder!FlightsCounted'
  <2> HIDE DEF f
  <2>0. IsFiniteSet(st.flights \cup {f}) /\ Cardinality(st.flights \cup {f}) = Cardinality(st.flights) + 1
    BY <1>2, <1>4, FS_AddElement
  <2>1. IsFiniteSet(st'.flights) /\ Cardinality(st'.flights) = Cardinality(st.flights) + 1 BY <1>6, <2>0
  <2>2. Cardinality(st'.flights) + (IF st'.timer = Finder!None THEN 0 ELSE 1) <= acts'
    BY <1>0, <1>2, <1>6, <2>1
  <2> QED BY <2>1, <2>2, FinderCounts DEF Finder!FlightsCounted
<1>14. Finder!RowsAnswerTheBox' BY <1>6 DEF Finder!RowsAnswerTheBox
<1>15. Finder!PreviewHasItsRow' BY <1>6 DEF Finder!PreviewHasItsRow
<1>16. Finder!EnterTakesAShownRow' BY <1>6 DEF Finder!EnterTakesAShownRow
<1> QED BY <1>7, <1>8, <1>9, <1>10, <1>11, <1>12, <1>13, <1>14, <1>15, <1>16 DEF Finder!SearchIInv

(* An answer: what it leaves on its way, and the rows or the status line.   *)
LEMMA FinderAnswered ==
  ASSUME Finder!SearchAssumption, Finder!SearchIInv, Finder!Answered
  PROVE  Finder!SearchIInv'
<1>0. /\ st \in Finder!SearchRecords /\ acts \in 0..SearchActs /\ SearchActs \in Nat /\ Finder!None \notin Queries
      /\ Finder!FlightsCounted /\ acts' = acts
  BY DEF Finder!SearchIInv, Finder!SearchTypeOK, Finder!SearchAssumption, Finder!Answered
<1>1. PICK f \in st.flights :
        LET q == [st EXCEPT !.flights = @ \ {f}]
        IN \/ ~Finder!lands(st, f) /\ st' = q
           \/ Finder!lands(st, f) /\ st' = Finder!rendered(q, f.of)
           \/ Finder!lands(st, f) /\ st' = [Finder!setStatus(q, "none") EXCEPT !.items = Finder!Nothing]
           \/ Finder!lands(st, f) /\ st' = Finder!failed(q)
  BY DEF Finder!Answered
<1> DEFINE q == [st EXCEPT !.flights = @ \ {f}]
<1>2. f.n \in 1..SearchActs /\ f.of \in Finder!Asked /\ f.of # Finder!Nothing
  BY <1>0 DEF Finder!SearchRecords, Finder!Asked, Finder!Nothing
<1>3. /\ q \in Finder!SearchRecords /\ q.flights = st.flights \ {f} /\ q.timer = st.timer
      /\ q.lastQuery = st.lastQuery
      /\ q.text = st.text /\ q.tab = st.tab /\ q.mine = st.mine /\ q.open = st.open /\ q.items = st.items
      /\ q.rows = st.rows /\ q.status = st.status /\ q.cursor = st.cursor /\ q.preview = st.preview
  BY <1>0 DEF Finder!SearchRecords
<1>4. Finder!lands(st, f) => st.open /\ f.n = st.mine /\ \A g \in st.flights \ {f} : g.n # st.mine
  BY <1>0, <1>2 DEF Finder!lands, Finder!SearchIInv, Finder!ClosedIsSilent, Finder!NumbersApart, Finder!SearchRecords
<1>5. /\ st'.flights = st.flights \ {f} /\ st'.timer = st.timer /\ st'.text = st.text
      /\ st' \in Finder!SearchRecords
  <2> HIDE DEF q
  <2>1. CASE st' = q BY <1>3, <2>1
  <2>2. CASE st' = Finder!rendered(q, f.of)
    <3> DEFINE p == Finder!stopPreview(q)
               songs == q.tab = "songs"
    <3>1. p \in Finder!SearchRecords /\ p.flights = q.flights /\ p.timer = q.timer /\ p.text = q.text
      BY <1>3 DEF Finder!stopPreview, Finder!SearchRecords
    <3>2. st' = [p EXCEPT !.items = f.of, !.rows = f.of, !.status = "clear", !.cursor = -1, !.buttons = songs]
      BY <2>2 DEF Finder!rendered
    <3>3. songs \in BOOLEAN OBVIOUS
    <3> HIDE DEF p, songs
    <3> QED BY <1>2, <1>3, <3>1, <3>2, <3>3 DEF Finder!SearchRecords
  <2>3. CASE st' = [Finder!setStatus(q, "none") EXCEPT !.items = Finder!Nothing]
    BY <1>3, <2>3 DEF Finder!setStatus, Finder!stopPreview, Finder!SearchRecords
  <2>4. CASE st' = Finder!failed(q)
    BY <1>3, <2>4 DEF Finder!failed, Finder!setStatus, Finder!stopPreview, Finder!SearchRecords
  <2> QED BY <1>1, <2>1, <2>2, <2>3, <2>4 DEF q
<1>6. Finder!SearchTypeOK' BY <1>0, <1>5 DEF Finder!SearchTypeOK
<1>7. Finder!FlightsCounted'
  <2>1. IsFiniteSet(st.flights) BY <1>0, FinderCounts DEF Finder!FlightsCounted
  <2>2. Cardinality(st.flights) + (IF st.timer = Finder!None THEN 0 ELSE 1) <= acts
    BY <1>0, FinderCounts DEF Finder!FlightsCounted
  <2>3. IsFiniteSet(st'.flights) /\ Cardinality(st'.flights) = Cardinality(st.flights) - 1
    BY <2>1, <1>5, FS_RemoveElement
  <2>4. Cardinality(st.flights) \in Nat BY <2>1, FS_CardinalityType
  <2>5. Cardinality(st'.flights) + (IF st'.timer = Finder!None THEN 0 ELSE 1) <= acts'
    BY <1>0, <1>5, <2>2, <2>3, <2>4
  <2> QED BY <2>3, <2>5, FinderCounts DEF Finder!FlightsCounted
<1>8. Finder!NumbersApart' /\ Finder!TimerHasTheBox'
  BY <1>5 DEF Finder!NumbersApart, Finder!TimerHasTheBox, Finder!SearchIInv
<1>9. CASE ~Finder!lands(st, f) /\ st' = q
  <2>1. /\ st'.text = st.text /\ st'.tab = st.tab /\ st'.mine = st.mine /\ st'.open = st.open
        /\ st'.lastQuery = st.lastQuery /\ st'.items = st.items /\ st'.rows = st.rows /\ st'.status = st.status
        /\ st'.cursor = st.cursor /\ st'.preview = st.preview
    BY <1>1, <1>2, <1>3, <1>4, <1>9 DEF Finder!SearchRecords
  <2> HIDE DEF q
  <2>2. Finder!MineIsLast'
    BY <1>0, <1>2, <1>4, <1>5, <2>1, <1>9 DEF Finder!SearchIInv, Finder!MineIsLast, Finder!AskedLast,
       Finder!NumbersApart, Finder!ClosedIsSilent
  <2>3. Finder!ItemsAreShown' BY <1>0, <1>2, <1>4, <1>5, <2>1, <1>9 DEF Finder!SearchIInv, Finder!ItemsAreShown
  <2>4. Finder!ClosedIsSilent' BY <1>0, <1>2, <1>4, <1>5, <2>1, <1>9 DEF Finder!SearchIInv, Finder!ClosedIsSilent
  <2>5. Finder!RowsAnswerTheBox'
    BY <1>0, <1>2, <1>4, <1>5, <2>1, <1>9 DEF Finder!SearchIInv, Finder!RowsAnswerTheBox, Finder!AskedLast,
       Finder!MineIsLast, Finder!ClosedIsSilent, Finder!TimerHasTheBox
  <2>6. Finder!PreviewHasItsRow' BY <1>0, <1>2, <1>4, <1>5, <2>1, <1>9 DEF Finder!SearchIInv, Finder!PreviewHasItsRow
  <2>7. Finder!EnterTakesAShownRow'
    BY <1>0, <1>2, <1>4, <1>5, <2>1, <1>9 DEF Finder!SearchIInv, Finder!EnterTakesAShownRow, Finder!ItemsAreShown
  <2> QED BY <1>6, <1>7, <1>8, <2>2, <2>3, <2>4, <2>5, <2>6, <2>7 DEF Finder!SearchIInv
<1>10. CASE Finder!lands(st, f) /\ st' = Finder!rendered(q, f.of)
  <2>1. /\ st'.text = st.text /\ st'.tab = st.tab /\ st'.mine = st.mine /\ st'.open = st.open
        /\ st'.lastQuery = st.lastQuery /\ st'.items = f.of /\ st'.rows = f.of /\ st'.status = "clear"
        /\ st'.cursor = -1 /\ st'.preview = Finder!Silent
    BY <1>1, <1>2, <1>3, <1>4, <1>10 DEF Finder!rendered, Finder!stopPreview, Finder!SearchRecords
  <2> HIDE DEF q
  <2>2. Finder!MineIsLast'
    BY <1>0, <1>2, <1>4, <1>5, <2>1, <1>10 DEF Finder!SearchIInv, Finder!MineIsLast, Finder!AskedLast,
       Finder!NumbersApart, Finder!ClosedIsSilent
  <2>3. Finder!ItemsAreShown' BY <1>0, <1>2, <1>4, <1>5, <2>1, <1>10 DEF Finder!SearchIInv, Finder!ItemsAreShown
  <2>4. Finder!ClosedIsSilent' BY <1>0, <1>2, <1>4, <1>5, <2>1, <1>10 DEF Finder!SearchIInv, Finder!ClosedIsSilent
  <2>5. Finder!RowsAnswerTheBox'
    BY <1>0, <1>2, <1>4, <1>5, <2>1, <1>10 DEF Finder!SearchIInv, Finder!RowsAnswerTheBox, Finder!AskedLast,
       Finder!MineIsLast, Finder!ClosedIsSilent, Finder!TimerHasTheBox
  <2>6. Finder!PreviewHasItsRow' BY <1>0, <1>2, <1>4, <1>5, <2>1, <1>10 DEF Finder!SearchIInv, Finder!PreviewHasItsRow
  <2>7. Finder!EnterTakesAShownRow'
    BY <1>0, <1>2, <1>4, <1>5, <2>1, <1>10 DEF Finder!SearchIInv, Finder!EnterTakesAShownRow, Finder!ItemsAreShown
  <2> QED BY <1>6, <1>7, <1>8, <2>2, <2>3, <2>4, <2>5, <2>6, <2>7 DEF Finder!SearchIInv
<1>11. CASE Finder!lands(st, f) /\ st' = [Finder!setStatus(q, "none") EXCEPT !.items = Finder!Nothing]
  <2>1. /\ st'.text = st.text /\ st'.tab = st.tab /\ st'.mine = st.mine /\ st'.open = st.open
        /\ st'.lastQuery = st.lastQuery /\ st'.items = Finder!Nothing /\ st'.rows = Finder!Nothing
        /\ st'.status = "none"
        /\ st'.preview = Finder!Silent
    BY <1>1, <1>2, <1>3, <1>4, <1>11 DEF Finder!setStatus, Finder!stopPreview, Finder!SearchRecords
  <2> HIDE DEF q
  <2>2. Finder!MineIsLast'
    BY <1>0, <1>2, <1>4, <1>5, <2>1, <1>11 DEF Finder!SearchIInv, Finder!MineIsLast, Finder!AskedLast,
       Finder!NumbersApart, Finder!ClosedIsSilent
  <2>3. Finder!ItemsAreShown' BY <1>0, <1>2, <1>4, <1>5, <2>1, <1>11 DEF Finder!SearchIInv, Finder!ItemsAreShown
  <2>4. Finder!ClosedIsSilent' BY <1>0, <1>2, <1>4, <1>5, <2>1, <1>11 DEF Finder!SearchIInv, Finder!ClosedIsSilent
  <2>5. Finder!RowsAnswerTheBox'
    BY <1>0, <1>2, <1>4, <1>5, <2>1, <1>11 DEF Finder!SearchIInv, Finder!RowsAnswerTheBox, Finder!AskedLast,
       Finder!MineIsLast, Finder!ClosedIsSilent, Finder!TimerHasTheBox
  <2>6. Finder!PreviewHasItsRow' BY <1>0, <1>2, <1>4, <1>5, <2>1, <1>11 DEF Finder!SearchIInv, Finder!PreviewHasItsRow
  <2>7. Finder!EnterTakesAShownRow'
    BY <1>0, <1>2, <1>4, <1>5, <2>1, <1>11 DEF Finder!SearchIInv, Finder!EnterTakesAShownRow, Finder!ItemsAreShown
  <2> QED BY <1>6, <1>7, <1>8, <2>2, <2>3, <2>4, <2>5, <2>6, <2>7 DEF Finder!SearchIInv
<1>12. CASE Finder!lands(st, f) /\ st' = Finder!failed(q)
  <2>1. /\ st'.text = st.text /\ st'.tab = st.tab /\ st'.mine = st.mine /\ st'.open = st.open
        /\ st'.lastQuery = Finder!None /\ st'.items = Finder!Nothing /\ st'.rows = Finder!Nothing
        /\ st'.status = "failed" /\ st'.preview = Finder!Silent
    BY <1>1, <1>2, <1>3, <1>4, <1>12 DEF Finder!failed, Finder!setStatus, Finder!stopPreview, Finder!SearchRecords
  <2> HIDE DEF q
  <2>2. Finder!MineIsLast'
    BY <1>0, <1>2, <1>4, <1>5, <2>1, <1>12 DEF Finder!SearchIInv, Finder!MineIsLast, Finder!AskedLast,
       Finder!NumbersApart, Finder!ClosedIsSilent
  <2>3. Finder!ItemsAreShown' BY <1>0, <1>2, <1>4, <1>5, <2>1, <1>12 DEF Finder!SearchIInv, Finder!ItemsAreShown
  <2>4. Finder!ClosedIsSilent' BY <1>0, <1>2, <1>4, <1>5, <2>1, <1>12 DEF Finder!SearchIInv, Finder!ClosedIsSilent
  <2>5. Finder!RowsAnswerTheBox'
    BY <1>0, <1>2, <1>4, <1>5, <2>1, <1>12 DEF Finder!SearchIInv, Finder!RowsAnswerTheBox, Finder!AskedLast,
       Finder!MineIsLast, Finder!ClosedIsSilent, Finder!TimerHasTheBox
  <2>6. Finder!PreviewHasItsRow' BY <1>0, <1>2, <1>4, <1>5, <2>1, <1>12 DEF Finder!SearchIInv, Finder!PreviewHasItsRow
  <2>7. Finder!EnterTakesAShownRow'
    BY <1>0, <1>2, <1>4, <1>5, <2>1, <1>12 DEF Finder!SearchIInv, Finder!EnterTakesAShownRow, Finder!ItemsAreShown
  <2> QED BY <1>6, <1>7, <1>8, <2>2, <2>3, <2>4, <2>5, <2>6, <2>7 DEF Finder!SearchIInv
<1> QED BY <1>1, <1>9, <1>10, <1>11, <1>12

(* The invariant holds at the start, and through every step and stutter.   *)
LEMMA FinderStarts == ASSUME Finder!SearchAssumption, Finder!SearchInit PROVE Finder!SearchIInv
<1>0. SearchActs \in Nat BY DEF Finder!SearchAssumption
<1>1. Finder!SearchTypeOK
  <2>1. acts \in 0..SearchActs /\ 0 \in 0..SearchActs BY <1>0 DEF Finder!SearchInit
  <2> QED BY <2>1 DEF Finder!SearchInit, Finder!SearchTypeOK, Finder!SearchRecords, Finder!Tabs
<1>2. Finder!FlightsCounted
  <2>1. st.flights = {} /\ st.timer = Finder!None /\ acts = 0 BY DEF Finder!SearchInit
  <2>2. IsFiniteSet({}) /\ Cardinality({}) = 0 BY FS_EmptySet
  <2> QED BY <2>1, <2>2, FinderCounts DEF Finder!FlightsCounted
<1>3. Finder!TimerHasTheBox /\ Finder!MineIsLast /\ Finder!ItemsAreShown /\ Finder!ClosedIsSilent
      /\ Finder!NumbersApart
  BY DEF Finder!SearchInit, Finder!TimerHasTheBox, Finder!MineIsLast, Finder!ItemsAreShown, Finder!ClosedIsSilent,
         Finder!NumbersApart
<1>4. Finder!RowsAnswerTheBox /\ Finder!PreviewHasItsRow /\ Finder!EnterTakesAShownRow
  BY DEF Finder!SearchInit, Finder!RowsAnswerTheBox, Finder!PreviewHasItsRow, Finder!EnterTakesAShownRow
<1> QED BY <1>1, <1>2, <1>3, <1>4 DEF Finder!SearchIInv

LEMMA FinderStep ==
  ASSUME Finder!SearchAssumption, Finder!SearchIInv, Finder!SearchNext
  PROVE  Finder!SearchIInv'
BY FinderType, FinderTimerDue, FinderAnswered, FinderClickTab, FinderDismiss, FinderHighlight, FinderStartPreview,
   FinderClickRow, FinderPressEnter DEF Finder!SearchNext

LEMMA FinderStutters ==
  ASSUME Finder!SearchIInv, st' = st, acts' = acts
  PROVE  Finder!SearchIInv'
BY DEF Finder!SearchIInv, Finder!SearchTypeOK, Finder!TimerHasTheBox, Finder!MineIsLast, Finder!AskedLast,
       Finder!ItemsAreShown, Finder!ClosedIsSilent, Finder!NumbersApart, Finder!FlightsCounted,
       Finder!RowsAnswerTheBox, Finder!PreviewHasItsRow, Finder!EnterTakesAShownRow

(* ------------------------ what an import will be ----------------------- *)
(* What a click leaves is a choice again, shown as it is.                   *)
LEMMA ChoicePainted ==
  ASSUME NEW q \in Choice!ChoiceRecords
  PROVE  Choice!refreshStemChoiceVisuals(q) \in Choice!ChoiceRecords
<1> DEFINE lit == Vocals \in q.sel
<1>1. lit \in BOOLEAN OBVIOUS
<1>2. Choice!refreshStemChoiceVisuals(q) = [q EXCEPT !.chips = q.sel, !.switch = lit, !.painted = TRUE]
  BY DEF Choice!refreshStemChoiceVisuals
<1> HIDE DEF lit
<1> QED BY <1>1, <1>2 DEF Choice!ChoiceRecords

LEMMA ChoiceChanged ==
  ASSUME NEW q \in Choice!ChoiceRecords
  PROVE  Choice!changed(q) \in Choice!ChoiceRecords
<1> DEFINE raced == q.raced \/ ~q.read
           a == [q EXCEPT !.store = q.sel, !.raced = raced]
           b == Choice!refreshStemChoiceVisuals(a)
           c == [b EXCEPT !.strip = b.sel]
           d == [c EXCEPT !.clicked = TRUE]
           whole == q.sel = Stems
<1>1. raced \in BOOLEAN /\ whole \in BOOLEAN BY DEF Choice!ChoiceRecords
<1>2. Choice!changed(q) = [d EXCEPT !.all = whole]
  BY DEF Choice!changed, Choice!savedAndPainted, Choice!buildStripStems, Choice!saveSelectedStems
<1> HIDE DEF raced, whole
<1>3. a \in Choice!ChoiceRecords BY <1>1 DEF Choice!ChoiceRecords
<1> HIDE DEF a
<1>4. b \in Choice!ChoiceRecords BY <1>3, ChoicePainted
<1> HIDE DEF b
<1>5. c \in Choice!ChoiceRecords BY <1>4 DEF Choice!ChoiceRecords
<1> HIDE DEF c
<1>6. d \in Choice!ChoiceRecords BY <1>5 DEF Choice!ChoiceRecords
<1> HIDE DEF d
<1> QED BY <1>1, <1>2, <1>6 DEF Choice!ChoiceRecords

LEMMA ChoiceAnswersTyped ==
  ASSUME Choice!ChoiceAssumption, Choice!ChoiceTypeOK, Choice!SelectionAnswers \/ Choice!SplitAnswers
  PROVE  Choice!ChoiceTypeOK'
<1> DEFINE split == st.split \/ st.storeSplit
<1>1. st \in Choice!ChoiceRecords /\ acts \in 0..ChoiceActs /\ acts' = acts
  BY DEF Choice!ChoiceTypeOK, Choice!SelectionAnswers, Choice!SplitAnswers
<1>2. CASE Choice!SelectionAnswers
  <2>1. [st EXCEPT !.read = TRUE] \in Choice!ChoiceRecords BY <1>1 DEF Choice!ChoiceRecords
  <2>2. [st EXCEPT !.read = TRUE, !.sel = st.store, !.painted = FALSE] \in Choice!ChoiceRecords
    BY <1>1 DEF Choice!ChoiceRecords
  <2> QED BY <1>1, <1>2, <2>1, <2>2 DEF Choice!ChoiceTypeOK, Choice!SelectionAnswers
<1>3. CASE Choice!SplitAnswers
  <2>1. split \in BOOLEAN /\ st' = [st EXCEPT !.readSplit = TRUE, !.split = split]
    BY <1>1, <1>3 DEF Choice!SplitAnswers, Choice!ChoiceRecords
  <2> HIDE DEF split
  <2>2. st' \in Choice!ChoiceRecords BY <1>1, <2>1 DEF Choice!ChoiceRecords
  <2> QED BY <1>1, <2>2 DEF Choice!ChoiceTypeOK
<1> QED BY <1>2, <1>3

LEMMA ChoiceDrawnTyped ==
  ASSUME Choice!ChoiceAssumption, Choice!ChoiceTypeOK, Choice!ChipsDrawn \/ Choice!ModeDrawn
  PROVE  Choice!ChoiceTypeOK'
<1>1. st \in Choice!ChoiceRecords /\ acts \in 0..ChoiceActs /\ acts' = acts
  BY DEF Choice!ChoiceTypeOK, Choice!ChipsDrawn, Choice!ModeDrawn
<1>2. CASE Choice!ChipsDrawn BY <1>1, <1>2, ChoicePainted DEF Choice!ChipsDrawn, Choice!ChoiceTypeOK
<1>3. CASE Choice!ModeDrawn
  <2>1. st' = [st EXCEPT !.mode = st.split] BY <1>3 DEF Choice!ModeDrawn
  <2>2. st' \in Choice!ChoiceRecords BY <1>1, <2>1 DEF Choice!ChoiceRecords
  <2> QED BY <1>1, <2>2 DEF Choice!ChoiceTypeOK
<1> QED BY <1>2, <1>3

LEMMA ChoiceClickTyped ==
  ASSUME Choice!ChoiceAssumption, Choice!ChoiceTypeOK, Choice!handleStemChoiceClick
  PROVE  Choice!ChoiceTypeOK'
<1>1. st \in Choice!ChoiceRecords /\ acts \in 0..ChoiceActs /\ ChoiceActs \in Nat /\ acts < ChoiceActs
      /\ acts' = acts + 1
  BY DEF Choice!ChoiceTypeOK, Choice!handleStemChoiceClick, Choice!Act, Choice!ChoiceAssumption
<1>2. PICK stem \in Stems : st' = Choice!changed([st EXCEPT !.sel = Choice!chosen(st.sel, stem)])
  BY DEF Choice!handleStemChoiceClick
<1> DEFINE next == Choice!chosen(st.sel, stem)
<1>3. next \in SUBSET Stems BY <1>1 DEF Choice!chosen, Choice!toggled, Choice!ChoiceRecords
<1> HIDE DEF next
<1>4. [st EXCEPT !.sel = next] \in Choice!ChoiceRecords BY <1>1, <1>3 DEF Choice!ChoiceRecords
<1>5. Choice!changed([st EXCEPT !.sel = next]) \in Choice!ChoiceRecords BY <1>4, ChoiceChanged
<1> QED BY <1>1, <1>2, <1>5 DEF next, Choice!ChoiceTypeOK

LEMMA ChoiceAllTyped ==
  ASSUME Choice!ChoiceAssumption, Choice!ChoiceTypeOK, Choice!AllClicked
  PROVE  Choice!ChoiceTypeOK'
<1> DEFINE next == IF st.sel = Stems THEN {} ELSE Stems
<1>1. /\ st \in Choice!ChoiceRecords /\ acts \in 0..ChoiceActs /\ ChoiceActs \in Nat /\ acts < ChoiceActs
      /\ acts' = acts + 1 /\ st' = Choice!changed([st EXCEPT !.sel = next])
  BY DEF Choice!ChoiceTypeOK, Choice!AllClicked, Choice!Act, Choice!ChoiceAssumption
<1>3. next \in SUBSET Stems OBVIOUS
<1> HIDE DEF next
<1>4. [st EXCEPT !.sel = next] \in Choice!ChoiceRecords BY <1>1, <1>3 DEF Choice!ChoiceRecords
<1>5. Choice!changed([st EXCEPT !.sel = next]) \in Choice!ChoiceRecords BY <1>4, ChoiceChanged
<1> QED BY <1>1, <1>5 DEF Choice!ChoiceTypeOK

LEMMA ChoiceModeTyped ==
  ASSUME Choice!ChoiceAssumption, Choice!ChoiceTypeOK, Choice!setVocalSplitMode
  PROVE  Choice!ChoiceTypeOK'
<1> DEFINE raced == st.raced \/ ~st.readSplit
<1>1. st \in Choice!ChoiceRecords /\ acts \in 0..ChoiceActs /\ ChoiceActs \in Nat /\ acts < ChoiceActs
      /\ acts' = acts + 1
  BY DEF Choice!ChoiceTypeOK, Choice!setVocalSplitMode, Choice!Act, Choice!ChoiceAssumption
<1>2. PICK mode \in BOOLEAN : st' = [st EXCEPT !.split = mode, !.mode = mode, !.storeSplit = mode, !.raced = raced]
  BY DEF Choice!setVocalSplitMode
<1>3. raced \in BOOLEAN BY <1>1 DEF Choice!ChoiceRecords
<1> HIDE DEF raced
<1>4. st' \in Choice!ChoiceRecords BY <1>1, <1>2, <1>3 DEF Choice!ChoiceRecords
<1> QED BY <1>1, <1>4 DEF Choice!ChoiceTypeOK

LEMMA ChoiceSubmitTyped ==
  ASSUME Choice!ChoiceAssumption, Choice!ChoiceTypeOK, Choice!Submit
  PROVE  Choice!ChoiceTypeOK'
<1> DEFINE split == st.split /\ Vocals \in st.sel
           r == [stems |-> st.sel, split |-> split, file |-> st.file]
<1>1. /\ st \in Choice!ChoiceRecords /\ acts \in 0..ChoiceActs /\ ChoiceActs \in Nat /\ acts < ChoiceActs
      /\ acts' = acts + 1 /\ st' = [st EXCEPT !.request = r]
  BY DEF Choice!ChoiceTypeOK, Choice!Submit, Choice!Act, Choice!ChoiceAssumption
<1>2. split \in BOOLEAN BY <1>1 DEF Choice!ChoiceRecords
<1> HIDE DEF split
<1>3. r \in Choice!Requests BY <1>1, <1>2 DEF Choice!Requests, Choice!ChoiceRecords
<1> HIDE DEF r
<1>4. st' \in Choice!ChoiceRecords BY <1>1, <1>3 DEF Choice!ChoiceRecords
<1> QED BY <1>1, <1>4 DEF Choice!ChoiceTypeOK

(* The job of a request: of one answered, and of one whose answer was lost. *)
LEMMA ChoiceJobs ==
  ASSUME NEW q \in Choice!ChoiceRecords, q.request # Choice!NoRequest
  PROVE  /\ Choice!job(q) \in Choice!Jobs /\ Choice!untold(q) \in Choice!Jobs
         /\ Choice!job(q).file = q.request.file /\ Choice!job(q).told
         /\ Choice!untold(q).file = q.request.file /\ ~Choice!untold(q).told
<1> DEFINE split == q.split /\ Vocals \in q.sel
           j == [asked |-> q.request.stems, recorded |-> q.sel, wanted |-> q.request.split, told |-> TRUE,
                 split |-> split, file |-> q.request.file]
<1>1. split \in BOOLEAN BY DEF Choice!ChoiceRecords
<1>2. Choice!job(q) = j /\ Choice!untold(q) = [j EXCEPT !.told = FALSE, !.recorded = {}, !.split = FALSE]
  BY DEF Choice!job, Choice!untold
<1> HIDE DEF split
<1>3. q.request \in Choice!Requests BY DEF Choice!ChoiceRecords
<1>4. j \in Choice!Jobs BY <1>1, <1>3 DEF Choice!Requests, Choice!Jobs, Choice!ChoiceRecords
<1>5. [j EXCEPT !.told = FALSE, !.recorded = {}, !.split = FALSE] \in Choice!Jobs BY <1>4 DEF Choice!Jobs
<1> QED BY <1>2, <1>4, <1>5

LEMMA ChoiceAcceptedTyped ==
  ASSUME Choice!ChoiceAssumption, Choice!ChoiceTypeOK, Choice!Accepted
  PROVE  Choice!ChoiceTypeOK'
<1> DEFINE j == Choice!job(st)
           a == [st EXCEPT !.request = Choice!NoRequest]
           w == [a EXCEPT !.jobs = a.jobs \cup {j}]
<1>1. /\ st \in Choice!ChoiceRecords /\ acts \in 0..ChoiceActs /\ ChoiceActs \in Nat /\ acts' = acts
      /\ st.request # Choice!NoRequest /\ st' = Choice!accepted(st)
  BY DEF Choice!ChoiceTypeOK, Choice!Accepted, Choice!ChoiceAssumption
<1>3. Choice!registered(st) = w BY <1>1 DEF Choice!registered, Choice!ChoiceRecords
<1>5. j \in Choice!Jobs BY <1>1, ChoiceJobs
<1> HIDE DEF j
<1>6. a \in Choice!ChoiceRecords BY <1>1 DEF Choice!ChoiceRecords
<1> HIDE DEF a
<1>7. w \in Choice!ChoiceRecords BY <1>5, <1>6 DEF Choice!ChoiceRecords
<1> HIDE DEF w
<1>8. 0 \in 0..ChoiceActs BY <1>1
<1>9. [w EXCEPT !.file = 0] \in Choice!ChoiceRecords BY <1>7, <1>8 DEF Choice!ChoiceRecords
<1>10. st' \in Choice!ChoiceRecords BY <1>1, <1>3, <1>7, <1>9 DEF Choice!accepted
<1> QED BY <1>1, <1>10 DEF Choice!ChoiceTypeOK

LEMMA ChoicePageOpened ==
  ASSUME Choice!ChoiceAssumption, Choice!ChoiceIInv, Choice!PageOpened
  PROVE  Choice!ChoiceIInv'
<1>0. st \in Choice!ChoiceRecords /\ acts \in 0..ChoiceActs /\ ChoiceActs \in Nat /\ Vocals \in Stems
  BY DEF Choice!ChoiceIInv, Choice!ChoiceTypeOK, Choice!ChoiceAssumption
<1>1. Choice!ChoiceTypeOK'
  BY <1>0 DEF Choice!PageOpened, Choice!Act, Choice!Page, Choice!ChoiceTypeOK, Choice!ChoiceRecords
<1>2. Choice!ClicksRace' BY <1>0 DEF Choice!ChoiceIInv, Choice!PageOpened, Choice!Act, Choice!Page, Choice!ClicksRace
<1>3. Choice!UntouchedIsWhole'
  BY <1>0 DEF Choice!ChoiceIInv, Choice!PageOpened, Choice!Act, Choice!Page, Choice!UntouchedIsWhole
<1>4. Choice!FilesAreOlder'
  BY <1>0 DEF Choice!ChoiceIInv, Choice!PageOpened, Choice!Act, Choice!Page, Choice!FilesAreOlder,
     Choice!ChoiceRecords, Choice!Requests, Choice!Jobs, Choice!NoRequest
<1>5. Choice!ControlsShowTheChoice'
  BY <1>0 DEF Choice!ChoiceIInv, Choice!PageOpened, Choice!Act, Choice!Page, Choice!ControlsShowTheChoice
<1>6. Choice!ChoiceIsKept'
  BY <1>0 DEF Choice!ChoiceIInv, Choice!PageOpened, Choice!Act, Choice!Page, Choice!ChoiceIsKept
<1>7. Choice!ImportedOnce'
  BY <1>0 DEF Choice!ChoiceIInv, Choice!PageOpened, Choice!Act, Choice!Page, Choice!ImportedOnce,
     Choice!ChoiceRecords, Choice!Requests, Choice!Jobs, Choice!NoRequest
<1> QED BY <1>1, <1>2, <1>3, <1>4, <1>5, <1>6, <1>7 DEF Choice!ChoiceIInv

LEMMA ChoiceSelectionAnswers ==
  ASSUME Choice!ChoiceAssumption, Choice!ChoiceIInv, Choice!SelectionAnswers
  PROVE  Choice!ChoiceIInv'
<1>0. st \in Choice!ChoiceRecords /\ acts \in 0..ChoiceActs /\ ChoiceActs \in Nat /\ Vocals \in Stems
  BY DEF Choice!ChoiceIInv, Choice!ChoiceTypeOK, Choice!ChoiceAssumption
<1>1. Choice!ChoiceTypeOK' BY ChoiceAnswersTyped DEF Choice!ChoiceIInv
<1>2. Choice!ClicksRace'
  BY <1>0 DEF Choice!ChoiceIInv, Choice!SelectionAnswers,
     Choice!ClicksRace, Choice!ChoiceRecords
<1>3. Choice!UntouchedIsWhole'
  BY <1>0 DEF Choice!ChoiceIInv, Choice!SelectionAnswers,
     Choice!UntouchedIsWhole, Choice!ClicksRace, Choice!ChoiceRecords
<1>4. Choice!FilesAreOlder'
  BY <1>0 DEF Choice!ChoiceIInv, Choice!SelectionAnswers,
     Choice!FilesAreOlder, Choice!ChoiceRecords, Choice!Requests, Choice!Jobs, Choice!NoRequest
<1>5. Choice!ControlsShowTheChoice'
  BY <1>0 DEF Choice!ChoiceIInv, Choice!SelectionAnswers,
     Choice!ControlsShowTheChoice, Choice!ChoiceRecords, Choice!ClicksRace,
     Choice!UntouchedIsWhole, Choice!ChoiceIsKept
<1>6. Choice!ChoiceIsKept'
  BY <1>0 DEF Choice!ChoiceIInv, Choice!SelectionAnswers,
     Choice!ChoiceIsKept, Choice!ChoiceRecords, Choice!UntouchedIsWhole, Choice!ClicksRace
<1>7. Choice!ImportedOnce'
  BY <1>0 DEF Choice!ChoiceIInv, Choice!SelectionAnswers,
     Choice!ImportedOnce
<1> QED BY <1>1, <1>2, <1>3, <1>4, <1>5, <1>6, <1>7 DEF Choice!ChoiceIInv

LEMMA ChoiceSplitAnswers ==
  ASSUME Choice!ChoiceAssumption, Choice!ChoiceIInv, Choice!SplitAnswers
  PROVE  Choice!ChoiceIInv'
<1>0. st \in Choice!ChoiceRecords /\ acts \in 0..ChoiceActs /\ ChoiceActs \in Nat /\ Vocals \in Stems
  BY DEF Choice!ChoiceIInv, Choice!ChoiceTypeOK, Choice!ChoiceAssumption
<1>1. Choice!ChoiceTypeOK' BY ChoiceAnswersTyped DEF Choice!ChoiceIInv
<1>2. Choice!ClicksRace'
  BY <1>0 DEF Choice!ChoiceIInv, Choice!SplitAnswers,
     Choice!ClicksRace, Choice!ChoiceRecords
<1>3. Choice!UntouchedIsWhole'
  BY <1>0 DEF Choice!ChoiceIInv, Choice!SplitAnswers,
     Choice!UntouchedIsWhole, Choice!ClicksRace, Choice!ChoiceRecords
<1>4. Choice!FilesAreOlder'
  BY <1>0 DEF Choice!ChoiceIInv, Choice!SplitAnswers,
     Choice!FilesAreOlder, Choice!ChoiceRecords, Choice!Requests, Choice!Jobs, Choice!NoRequest
<1>5. Choice!ControlsShowTheChoice'
  BY <1>0 DEF Choice!ChoiceIInv, Choice!SplitAnswers,
     Choice!ControlsShowTheChoice, Choice!ChoiceRecords, Choice!ClicksRace,
     Choice!UntouchedIsWhole, Choice!ChoiceIsKept
<1>6. Choice!ChoiceIsKept'
  BY <1>0 DEF Choice!ChoiceIInv, Choice!SplitAnswers,
     Choice!ChoiceIsKept, Choice!ChoiceRecords, Choice!UntouchedIsWhole, Choice!ClicksRace
<1>7. Choice!ImportedOnce'
  BY <1>0 DEF Choice!ChoiceIInv, Choice!SplitAnswers,
     Choice!ImportedOnce
<1> QED BY <1>1, <1>2, <1>3, <1>4, <1>5, <1>6, <1>7 DEF Choice!ChoiceIInv

LEMMA ChoiceChipsDrawn ==
  ASSUME Choice!ChoiceAssumption, Choice!ChoiceIInv, Choice!ChipsDrawn
  PROVE  Choice!ChoiceIInv'
<1>0. st \in Choice!ChoiceRecords /\ acts \in 0..ChoiceActs /\ ChoiceActs \in Nat /\ Vocals \in Stems
  BY DEF Choice!ChoiceIInv, Choice!ChoiceTypeOK, Choice!ChoiceAssumption
<1>1. Choice!ChoiceTypeOK' BY ChoiceDrawnTyped DEF Choice!ChoiceIInv
<1>2. Choice!ClicksRace'
  BY <1>0 DEF Choice!ChoiceIInv, Choice!ChipsDrawn, Choice!refreshStemChoiceVisuals,
     Choice!ClicksRace, Choice!ChoiceRecords
<1>3. Choice!UntouchedIsWhole'
  BY <1>0 DEF Choice!ChoiceIInv, Choice!ChipsDrawn, Choice!refreshStemChoiceVisuals,
     Choice!UntouchedIsWhole, Choice!ClicksRace, Choice!ChoiceRecords
<1>4. Choice!FilesAreOlder'
  BY <1>0 DEF Choice!ChoiceIInv, Choice!ChipsDrawn, Choice!refreshStemChoiceVisuals,
     Choice!FilesAreOlder, Choice!ChoiceRecords, Choice!Requests, Choice!Jobs, Choice!NoRequest
<1>5. Choice!ControlsShowTheChoice'
  BY <1>0 DEF Choice!ChoiceIInv, Choice!ChipsDrawn, Choice!refreshStemChoiceVisuals,
     Choice!ControlsShowTheChoice, Choice!ChoiceRecords, Choice!ClicksRace,
     Choice!UntouchedIsWhole, Choice!ChoiceIsKept
<1>6. Choice!ChoiceIsKept'
  BY <1>0 DEF Choice!ChoiceIInv, Choice!ChipsDrawn, Choice!refreshStemChoiceVisuals,
     Choice!ChoiceIsKept, Choice!ChoiceRecords, Choice!UntouchedIsWhole, Choice!ClicksRace
<1>7. Choice!ImportedOnce'
  BY <1>0 DEF Choice!ChoiceIInv, Choice!ChipsDrawn, Choice!refreshStemChoiceVisuals,
     Choice!ImportedOnce
<1> QED BY <1>1, <1>2, <1>3, <1>4, <1>5, <1>6, <1>7 DEF Choice!ChoiceIInv

LEMMA ChoiceModeDrawn ==
  ASSUME Choice!ChoiceAssumption, Choice!ChoiceIInv, Choice!ModeDrawn
  PROVE  Choice!ChoiceIInv'
<1>0. st \in Choice!ChoiceRecords /\ acts \in 0..ChoiceActs /\ ChoiceActs \in Nat /\ Vocals \in Stems
  BY DEF Choice!ChoiceIInv, Choice!ChoiceTypeOK, Choice!ChoiceAssumption
<1>1. Choice!ChoiceTypeOK' BY ChoiceDrawnTyped DEF Choice!ChoiceIInv
<1>2. Choice!ClicksRace'
  BY <1>0 DEF Choice!ChoiceIInv, Choice!ModeDrawn,
     Choice!ClicksRace, Choice!ChoiceRecords
<1>3. Choice!UntouchedIsWhole'
  BY <1>0 DEF Choice!ChoiceIInv, Choice!ModeDrawn,
     Choice!UntouchedIsWhole, Choice!ClicksRace, Choice!ChoiceRecords
<1>4. Choice!FilesAreOlder'
  BY <1>0 DEF Choice!ChoiceIInv, Choice!ModeDrawn,
     Choice!FilesAreOlder, Choice!ChoiceRecords, Choice!Requests, Choice!Jobs, Choice!NoRequest
<1>5. Choice!ControlsShowTheChoice'
  BY <1>0 DEF Choice!ChoiceIInv, Choice!ModeDrawn,
     Choice!ControlsShowTheChoice, Choice!ChoiceRecords, Choice!ClicksRace,
     Choice!UntouchedIsWhole, Choice!ChoiceIsKept
<1>6. Choice!ChoiceIsKept'
  BY <1>0 DEF Choice!ChoiceIInv, Choice!ModeDrawn,
     Choice!ChoiceIsKept, Choice!ChoiceRecords, Choice!UntouchedIsWhole, Choice!ClicksRace
<1>7. Choice!ImportedOnce'
  BY <1>0 DEF Choice!ChoiceIInv, Choice!ModeDrawn,
     Choice!ImportedOnce
<1> QED BY <1>1, <1>2, <1>3, <1>4, <1>5, <1>6, <1>7 DEF Choice!ChoiceIInv

LEMMA ChoiceHandleStemChoiceClick ==
  ASSUME Choice!ChoiceAssumption, Choice!ChoiceIInv, Choice!handleStemChoiceClick
  PROVE  Choice!ChoiceIInv'
<1>0. st \in Choice!ChoiceRecords /\ acts \in 0..ChoiceActs /\ ChoiceActs \in Nat /\ Vocals \in Stems
  BY DEF Choice!ChoiceIInv, Choice!ChoiceTypeOK, Choice!ChoiceAssumption
<1>1. Choice!ChoiceTypeOK' BY ChoiceClickTyped DEF Choice!ChoiceIInv
<1>2. Choice!ClicksRace'
  BY <1>0 DEF Choice!ChoiceIInv, Choice!handleStemChoiceClick, Choice!Act, Choice!changed, Choice!savedAndPainted,
     Choice!buildStripStems, Choice!refreshStemChoiceVisuals, Choice!saveSelectedStems, Choice!chosen, Choice!toggled, Choice!ChoiceRecords, Choice!Requests, Choice!Jobs, Choice!NoRequest, Choice!ClicksRace, Choice!UntouchedIsWhole, Choice!FilesAreOlder, Choice!ControlsShowTheChoice, Choice!ChoiceIsKept, Choice!ImportedOnce
<1>3. Choice!UntouchedIsWhole'
  BY <1>0 DEF Choice!ChoiceIInv, Choice!handleStemChoiceClick, Choice!Act, Choice!changed, Choice!savedAndPainted,
     Choice!buildStripStems, Choice!refreshStemChoiceVisuals, Choice!saveSelectedStems, Choice!chosen, Choice!toggled, Choice!ChoiceRecords, Choice!Requests, Choice!Jobs, Choice!NoRequest, Choice!ClicksRace, Choice!UntouchedIsWhole, Choice!FilesAreOlder, Choice!ControlsShowTheChoice, Choice!ChoiceIsKept, Choice!ImportedOnce
<1>4. Choice!FilesAreOlder'
  BY <1>0 DEF Choice!ChoiceIInv, Choice!handleStemChoiceClick, Choice!Act, Choice!changed, Choice!savedAndPainted,
     Choice!buildStripStems, Choice!refreshStemChoiceVisuals, Choice!saveSelectedStems, Choice!chosen, Choice!toggled, Choice!FilesAreOlder, Choice!ChoiceRecords, Choice!Requests, Choice!Jobs, Choice!NoRequest
<1>5. Choice!ControlsShowTheChoice'
  BY <1>0 DEF Choice!ChoiceIInv, Choice!handleStemChoiceClick, Choice!Act, Choice!changed, Choice!savedAndPainted,
     Choice!buildStripStems, Choice!refreshStemChoiceVisuals, Choice!saveSelectedStems, Choice!chosen, Choice!toggled, Choice!ControlsShowTheChoice
<1>6. Choice!ChoiceIsKept'
  BY <1>0 DEF Choice!ChoiceIInv, Choice!handleStemChoiceClick, Choice!Act, Choice!changed, Choice!savedAndPainted,
     Choice!buildStripStems, Choice!refreshStemChoiceVisuals, Choice!saveSelectedStems, Choice!chosen, Choice!toggled, Choice!ChoiceIsKept, Choice!ChoiceRecords
<1>7. Choice!ImportedOnce'
  BY <1>0 DEF Choice!ChoiceIInv, Choice!handleStemChoiceClick, Choice!Act, Choice!changed, Choice!savedAndPainted,
     Choice!buildStripStems, Choice!refreshStemChoiceVisuals, Choice!saveSelectedStems, Choice!chosen, Choice!toggled, Choice!ImportedOnce
<1> QED BY <1>1, <1>2, <1>3, <1>4, <1>5, <1>6, <1>7 DEF Choice!ChoiceIInv

LEMMA ChoiceAllClicked ==
  ASSUME Choice!ChoiceAssumption, Choice!ChoiceIInv, Choice!AllClicked
  PROVE  Choice!ChoiceIInv'
<1>0. st \in Choice!ChoiceRecords /\ acts \in 0..ChoiceActs /\ ChoiceActs \in Nat /\ Vocals \in Stems
  BY DEF Choice!ChoiceIInv, Choice!ChoiceTypeOK, Choice!ChoiceAssumption
<1>1. Choice!ChoiceTypeOK' BY ChoiceAllTyped DEF Choice!ChoiceIInv
<1>2. Choice!ClicksRace'
  BY <1>0 DEF Choice!ChoiceIInv, Choice!AllClicked, Choice!Act, Choice!changed, Choice!savedAndPainted,
     Choice!buildStripStems, Choice!refreshStemChoiceVisuals, Choice!saveSelectedStems, Choice!ClicksRace, Choice!ChoiceRecords
<1>3. Choice!UntouchedIsWhole'
  BY <1>0 DEF Choice!ChoiceIInv, Choice!AllClicked, Choice!Act, Choice!changed, Choice!savedAndPainted,
     Choice!buildStripStems, Choice!refreshStemChoiceVisuals, Choice!saveSelectedStems, Choice!UntouchedIsWhole, Choice!ChoiceRecords
<1>4. Choice!FilesAreOlder'
  BY <1>0 DEF Choice!ChoiceIInv, Choice!AllClicked, Choice!Act, Choice!changed, Choice!savedAndPainted,
     Choice!buildStripStems, Choice!refreshStemChoiceVisuals, Choice!saveSelectedStems, Choice!FilesAreOlder, Choice!ChoiceRecords, Choice!Requests, Choice!Jobs, Choice!NoRequest
<1>5. Choice!ControlsShowTheChoice'
  BY <1>0 DEF Choice!ChoiceIInv, Choice!AllClicked, Choice!Act, Choice!changed, Choice!savedAndPainted,
     Choice!buildStripStems, Choice!refreshStemChoiceVisuals, Choice!saveSelectedStems, Choice!ControlsShowTheChoice
<1>6. Choice!ChoiceIsKept'
  BY <1>0 DEF Choice!ChoiceIInv, Choice!AllClicked, Choice!Act, Choice!changed, Choice!savedAndPainted,
     Choice!buildStripStems, Choice!refreshStemChoiceVisuals, Choice!saveSelectedStems, Choice!ChoiceIsKept, Choice!ChoiceRecords
<1>7. Choice!ImportedOnce'
  BY <1>0 DEF Choice!ChoiceIInv, Choice!AllClicked, Choice!Act, Choice!changed, Choice!savedAndPainted,
     Choice!buildStripStems, Choice!refreshStemChoiceVisuals, Choice!saveSelectedStems, Choice!ImportedOnce
<1> QED BY <1>1, <1>2, <1>3, <1>4, <1>5, <1>6, <1>7 DEF Choice!ChoiceIInv

LEMMA ChoiceSetVocalSplitMode ==
  ASSUME Choice!ChoiceAssumption, Choice!ChoiceIInv, Choice!setVocalSplitMode
  PROVE  Choice!ChoiceIInv'
<1>0. st \in Choice!ChoiceRecords /\ acts \in 0..ChoiceActs /\ ChoiceActs \in Nat /\ Vocals \in Stems
  BY DEF Choice!ChoiceIInv, Choice!ChoiceTypeOK, Choice!ChoiceAssumption
<1>1. Choice!ChoiceTypeOK' BY ChoiceModeTyped DEF Choice!ChoiceIInv
<1>2. Choice!ClicksRace'
  BY <1>0 DEF Choice!ChoiceIInv, Choice!setVocalSplitMode, Choice!Act, Choice!ClicksRace, Choice!ChoiceRecords
<1>3. Choice!UntouchedIsWhole'
  BY <1>0 DEF Choice!ChoiceIInv, Choice!setVocalSplitMode, Choice!Act, Choice!UntouchedIsWhole, Choice!ChoiceRecords
<1>4. Choice!FilesAreOlder'
  BY <1>0 DEF Choice!ChoiceIInv, Choice!setVocalSplitMode, Choice!Act, Choice!FilesAreOlder, Choice!ChoiceRecords,
     Choice!Requests, Choice!Jobs, Choice!NoRequest
<1>5. Choice!ControlsShowTheChoice'
  <2>1. PICK m \in BOOLEAN, d \in BOOLEAN :
          st' = [st EXCEPT !.split = m, !.mode = m, !.storeSplit = m, !.raced = d] /\ (st.raced => d)
    BY <1>0 DEF Choice!setVocalSplitMode, Choice!ChoiceRecords
  <2>2. st'.mode = st'.split BY <1>0, <2>1 DEF Choice!ChoiceRecords
  <2> QED BY <1>0, <2>1, <2>2 DEF Choice!ChoiceIInv, Choice!ControlsShowTheChoice, Choice!ChoiceRecords
<1>6. Choice!ChoiceIsKept'
  BY <1>0 DEF Choice!ChoiceIInv, Choice!setVocalSplitMode, Choice!Act, Choice!ChoiceIsKept, Choice!ChoiceRecords
<1>7. Choice!ImportedOnce' BY <1>0 DEF Choice!ChoiceIInv, Choice!setVocalSplitMode, Choice!Act, Choice!ImportedOnce
<1> QED BY <1>1, <1>2, <1>3, <1>4, <1>5, <1>6, <1>7 DEF Choice!ChoiceIInv

LEMMA ChoiceFilePicked ==
  ASSUME Choice!ChoiceAssumption, Choice!ChoiceIInv, Choice!FilePicked
  PROVE  Choice!ChoiceIInv'
<1>0. st \in Choice!ChoiceRecords /\ acts \in 0..ChoiceActs /\ ChoiceActs \in Nat /\ Vocals \in Stems
  BY DEF Choice!ChoiceIInv, Choice!ChoiceTypeOK, Choice!ChoiceAssumption
<1>1. Choice!ChoiceTypeOK' BY <1>0 DEF Choice!FilePicked, Choice!Act, Choice!ChoiceTypeOK, Choice!ChoiceRecords
<1>2. Choice!ClicksRace' BY <1>0 DEF Choice!ChoiceIInv, Choice!FilePicked, Choice!Act, Choice!ClicksRace
<1>3. Choice!UntouchedIsWhole' BY <1>0 DEF Choice!ChoiceIInv, Choice!FilePicked, Choice!Act, Choice!UntouchedIsWhole
<1>4. Choice!FilesAreOlder'
  BY <1>0 DEF Choice!ChoiceIInv, Choice!FilePicked, Choice!Act, Choice!FilesAreOlder, Choice!ChoiceRecords,
     Choice!Requests, Choice!Jobs, Choice!NoRequest
<1>5. Choice!ControlsShowTheChoice'
  BY <1>0 DEF Choice!ChoiceIInv, Choice!FilePicked, Choice!Act, Choice!ControlsShowTheChoice
<1>6. Choice!ChoiceIsKept' BY <1>0 DEF Choice!ChoiceIInv, Choice!FilePicked, Choice!Act, Choice!ChoiceIsKept
<1>7. Choice!ImportedOnce'
  BY <1>0 DEF Choice!ChoiceIInv, Choice!FilePicked, Choice!Act, Choice!ChoiceRecords, Choice!Requests, Choice!Jobs,
     Choice!NoRequest, Choice!ClicksRace, Choice!UntouchedIsWhole, Choice!FilesAreOlder, Choice!ControlsShowTheChoice, Choice!ChoiceIsKept, Choice!ImportedOnce
<1> QED BY <1>1, <1>2, <1>3, <1>4, <1>5, <1>6, <1>7 DEF Choice!ChoiceIInv

LEMMA ChoiceClearFile ==
  ASSUME Choice!ChoiceAssumption, Choice!ChoiceIInv, Choice!clearFile
  PROVE  Choice!ChoiceIInv'
<1>0. st \in Choice!ChoiceRecords /\ acts \in 0..ChoiceActs /\ ChoiceActs \in Nat /\ Vocals \in Stems
  BY DEF Choice!ChoiceIInv, Choice!ChoiceTypeOK, Choice!ChoiceAssumption
<1>1. Choice!ChoiceTypeOK' BY <1>0 DEF Choice!clearFile, Choice!Act, Choice!ChoiceTypeOK, Choice!ChoiceRecords
<1>2. Choice!ClicksRace' BY <1>0 DEF Choice!ChoiceIInv, Choice!clearFile, Choice!Act, Choice!ClicksRace
<1>3. Choice!UntouchedIsWhole' BY <1>0 DEF Choice!ChoiceIInv, Choice!clearFile, Choice!Act, Choice!UntouchedIsWhole
<1>4. Choice!FilesAreOlder'
  BY <1>0 DEF Choice!ChoiceIInv, Choice!clearFile, Choice!Act, Choice!FilesAreOlder, Choice!ChoiceRecords,
     Choice!Requests, Choice!Jobs, Choice!NoRequest
<1>5. Choice!ControlsShowTheChoice'
  BY <1>0 DEF Choice!ChoiceIInv, Choice!clearFile, Choice!Act, Choice!ControlsShowTheChoice
<1>6. Choice!ChoiceIsKept' BY <1>0 DEF Choice!ChoiceIInv, Choice!clearFile, Choice!Act, Choice!ChoiceIsKept
<1>7. Choice!ImportedOnce' BY <1>0 DEF Choice!ChoiceIInv, Choice!clearFile, Choice!Act, Choice!ImportedOnce
<1> QED BY <1>1, <1>2, <1>3, <1>4, <1>5, <1>6, <1>7 DEF Choice!ChoiceIInv

LEMMA ChoiceSubmit ==
  ASSUME Choice!ChoiceAssumption, Choice!ChoiceIInv, Choice!Submit
  PROVE  Choice!ChoiceIInv'
<1>0. st \in Choice!ChoiceRecords /\ acts \in 0..ChoiceActs /\ ChoiceActs \in Nat /\ Vocals \in Stems
  BY DEF Choice!ChoiceIInv, Choice!ChoiceTypeOK, Choice!ChoiceAssumption
<1>1. Choice!ChoiceTypeOK' BY ChoiceSubmitTyped DEF Choice!ChoiceIInv
<1>2. Choice!ClicksRace' BY <1>0 DEF Choice!ChoiceIInv, Choice!Submit, Choice!Act, Choice!ClicksRace
<1>3. Choice!UntouchedIsWhole' BY <1>0 DEF Choice!ChoiceIInv, Choice!Submit, Choice!Act, Choice!UntouchedIsWhole
<1>4. Choice!FilesAreOlder'
  BY <1>0 DEF Choice!ChoiceIInv, Choice!Submit, Choice!Act, Choice!FilesAreOlder, Choice!ChoiceRecords,
     Choice!Requests, Choice!Jobs, Choice!NoRequest
<1>5. Choice!ControlsShowTheChoice'
  BY <1>0 DEF Choice!ChoiceIInv, Choice!Submit, Choice!Act, Choice!ControlsShowTheChoice
<1>6. Choice!ChoiceIsKept' BY <1>0 DEF Choice!ChoiceIInv, Choice!Submit, Choice!Act, Choice!ChoiceIsKept
<1>7. Choice!ImportedOnce' BY <1>0 DEF Choice!ChoiceIInv, Choice!Submit, Choice!Act, Choice!ImportedOnce
<1> QED BY <1>1, <1>2, <1>3, <1>4, <1>5, <1>6, <1>7 DEF Choice!ChoiceIInv

LEMMA ChoiceAccepted ==
  ASSUME Choice!ChoiceAssumption, Choice!ChoiceIInv, Choice!Accepted
  PROVE  Choice!ChoiceIInv'
<1> DEFINE f == IF st.request.file = 0 THEN st.file ELSE 0
<1>0. st \in Choice!ChoiceRecords /\ acts \in 0..ChoiceActs /\ ChoiceActs \in Nat /\ Vocals \in Stems
  BY DEF Choice!ChoiceIInv, Choice!ChoiceTypeOK, Choice!ChoiceAssumption
<1>1. Choice!ChoiceTypeOK' BY ChoiceAcceptedTyped DEF Choice!ChoiceIInv
<1>2. PICK j \in Choice!Jobs : /\ j.file = st.request.file /\ acts' = acts
                               /\ st' = [st EXCEPT !.request = Choice!NoRequest, !.file = f, !.jobs = @ \cup {j}]
  <2>1. st.request # Choice!NoRequest /\ st' = Choice!accepted(st) /\ acts' = acts BY DEF Choice!Accepted
  <2>2. Choice!job(st) \in Choice!Jobs /\ Choice!job(st).file = st.request.file BY <1>0, <2>1, ChoiceJobs
  <2>3. Choice!registered(st) = [st EXCEPT !.request = Choice!NoRequest, !.jobs = @ \cup {Choice!job(st)}]
    BY DEF Choice!registered
  <2>4. st' = [st EXCEPT !.request = Choice!NoRequest, !.file = f, !.jobs = @ \cup {Choice!job(st)}]
    BY <1>0, <2>1, <2>3 DEF Choice!accepted, Choice!ChoiceRecords
  <2> QED BY <2>1, <2>2, <2>4
<1>3. Choice!ClicksRace' BY <1>0, <1>2 DEF Choice!ChoiceIInv, Choice!ClicksRace, Choice!ChoiceRecords
<1>4. Choice!UntouchedIsWhole' BY <1>0, <1>2 DEF Choice!ChoiceIInv, Choice!UntouchedIsWhole, Choice!ChoiceRecords
<1>5. Choice!FilesAreOlder'
  BY <1>0, <1>2 DEF Choice!ChoiceIInv, Choice!FilesAreOlder, Choice!ChoiceRecords, Choice!Requests, Choice!Jobs,
     Choice!NoRequest
<1>6. Choice!ControlsShowTheChoice' /\ Choice!ChoiceIsKept'
  BY <1>0, <1>2 DEF Choice!ChoiceIInv, Choice!ControlsShowTheChoice, Choice!ChoiceIsKept, Choice!ChoiceRecords
<1>7. Choice!ImportedOnce'
  BY <1>0, <1>2 DEF Choice!ChoiceIInv, Choice!ImportedOnce, Choice!ChoiceRecords, Choice!Requests, Choice!Jobs,
     Choice!NoRequest
<1> QED BY <1>1, <1>3, <1>4, <1>5, <1>6, <1>7 DEF Choice!ChoiceIInv

LEMMA ChoiceRefused ==
  ASSUME Choice!ChoiceAssumption, Choice!ChoiceIInv, Choice!Refused
  PROVE  Choice!ChoiceIInv'
<1>0. st \in Choice!ChoiceRecords /\ acts \in 0..ChoiceActs /\ ChoiceActs \in Nat /\ Vocals \in Stems
  BY DEF Choice!ChoiceIInv, Choice!ChoiceTypeOK, Choice!ChoiceAssumption
<1>1. PICK left \in {{}, {Choice!untold(st)}} :
        st' = [st EXCEPT !.request = Choice!NoRequest, !.jobs = @ \cup left] /\ acts' = acts
  BY DEF Choice!Refused
<1>2. \A j \in left : j \in Choice!Jobs /\ j.file = st.request.file /\ ~j.told
  BY <1>0, ChoiceJobs DEF Choice!Refused
<1>3. Choice!ChoiceTypeOK'
  <2>1. st.jobs \cup left \in SUBSET Choice!Jobs BY <1>0, <1>2 DEF Choice!ChoiceRecords
  <2>2. st' = [st EXCEPT !.request = Choice!NoRequest, !.jobs = st.jobs \cup left] BY <1>1
  <2>3. st' \in Choice!ChoiceRecords BY <1>0, <2>1, <2>2 DEF Choice!ChoiceRecords
  <2> QED BY <1>0, <1>1, <2>3 DEF Choice!ChoiceTypeOK
<1>4. Choice!ClicksRace' /\ Choice!UntouchedIsWhole'
  BY <1>0, <1>1 DEF Choice!ChoiceIInv, Choice!ClicksRace, Choice!UntouchedIsWhole, Choice!ChoiceRecords
<1>5. Choice!FilesAreOlder'
  BY <1>0, <1>1, <1>2 DEF Choice!ChoiceIInv, Choice!FilesAreOlder, Choice!ChoiceRecords, Choice!Requests,
     Choice!Jobs, Choice!NoRequest
<1>6. Choice!ControlsShowTheChoice' /\ Choice!ChoiceIsKept'
  BY <1>0, <1>1 DEF Choice!ChoiceIInv, Choice!ControlsShowTheChoice, Choice!ChoiceIsKept, Choice!ChoiceRecords
<1>7. Choice!ImportedOnce'
  BY <1>0, <1>1, <1>2 DEF Choice!ChoiceIInv, Choice!ImportedOnce, Choice!FilesAreOlder, Choice!ChoiceRecords,
     Choice!Requests, Choice!Jobs, Choice!NoRequest
<1> QED BY <1>3, <1>4, <1>5, <1>6, <1>7 DEF Choice!ChoiceIInv

(* The invariant holds at the start, and through every step and stutter.   *)
LEMMA ChoiceStarts == ASSUME Choice!ChoiceAssumption, Choice!ChoiceInit PROVE Choice!ChoiceIInv
<1>0. ChoiceActs \in Nat /\ Vocals \in Stems BY DEF Choice!ChoiceAssumption
<1>1. /\ st = [sel |-> Stems, chips |-> Stems, strip |-> Stems, all |-> TRUE, switch |-> TRUE, split |-> FALSE,
               mode |-> FALSE, store |-> {}, storeSplit |-> FALSE, read |-> FALSE, readSplit |-> FALSE,
               painted |-> TRUE, raced |-> FALSE, clicked |-> FALSE, file |-> 0, request |-> Choice!NoRequest, jobs |-> {}]
      /\ acts = 0
  BY DEF Choice!ChoiceInit, Choice!Page
<1>2. Choice!ChoiceTypeOK
  <2>1. acts \in 0..ChoiceActs /\ 0 \in 0..ChoiceActs BY <1>0, <1>1
  <2> QED BY <1>1, <2>1 DEF Choice!ChoiceTypeOK, Choice!ChoiceRecords
<1>3. Choice!ClicksRace /\ Choice!UntouchedIsWhole /\ Choice!ControlsShowTheChoice /\ Choice!ChoiceIsKept
  BY <1>0, <1>1 DEF Choice!ClicksRace, Choice!UntouchedIsWhole, Choice!ControlsShowTheChoice, Choice!ChoiceIsKept
<1>4. Choice!FilesAreOlder /\ Choice!ImportedOnce
  BY <1>1 DEF Choice!FilesAreOlder, Choice!ImportedOnce, Choice!NoRequest
<1> QED BY <1>2, <1>3, <1>4 DEF Choice!ChoiceIInv

LEMMA ChoiceStep ==
  ASSUME Choice!ChoiceAssumption, Choice!ChoiceIInv, Choice!ChoiceNext
  PROVE  Choice!ChoiceIInv'
BY ChoicePageOpened, ChoiceSelectionAnswers, ChoiceSplitAnswers, ChoiceChipsDrawn, ChoiceModeDrawn,
   ChoiceHandleStemChoiceClick, ChoiceAllClicked, ChoiceSetVocalSplitMode,
   ChoiceFilePicked, ChoiceClearFile, ChoiceSubmit, ChoiceAccepted, ChoiceRefused DEF Choice!ChoiceNext

LEMMA ChoiceStutters ==
  ASSUME Choice!ChoiceIInv, st' = st, acts' = acts
  PROVE  Choice!ChoiceIInv'
BY DEF Choice!ChoiceIInv, Choice!ChoiceTypeOK, Choice!ClicksRace, Choice!UntouchedIsWhole, Choice!FilesAreOlder,
       Choice!ControlsShowTheChoice, Choice!ChoiceIsKept, Choice!ImportedOnce

(* ------------------------- the sections button ------------------------- *)
(* What an operation returns is a button with its requests again.           *)
LEMMA SectioningRequest ==
  ASSUME NEW n \in Nat, NEW ask \in Sectioning!Asks, NEW click \in BOOLEAN
  PROVE  Sectioning!Request(n, ask, click) \in Sectioning!Requests
BY DEF Sectioning!Request, Sectioning!Requests

LEMMA SectioningSent ==
  ASSUME NEW q \in Sectioning!AutoRecords, NEW r \in Sectioning!Requests
  PROVE  Sectioning!sent(q, r) \in Sectioning!AutoRecords
<1> DEFINE flying == q.flying \cup {r}
<1>1. flying \in SUBSET Sectioning!Requests BY DEF Sectioning!AutoRecords
<1>2. Sectioning!sent(q, r) = [q EXCEPT !.flying = flying] BY DEF Sectioning!sent
<1> HIDE DEF flying
<1> QED BY <1>1, <1>2 DEF Sectioning!AutoRecords

LEMMA SectioningPainted ==
  ASSUME NEW q \in Sectioning!AutoRecords, NEW on \in BOOLEAN
  PROVE  Sectioning!paint(q, on) \in Sectioning!AutoRecords
BY DEF Sectioning!paint, Sectioning!AutoRecords

LEMMA SectioningOff ==
  ASSUME NEW q \in Sectioning!AutoRecords, NEW n \in Nat
  PROVE  Sectioning!forceOff(q, n) \in Sectioning!AutoRecords
<1>1. Sectioning!Request(n, "off", FALSE) \in Sectioning!Requests BY SectioningRequest DEF Sectioning!Asks
<1>2. Sectioning!paint(q, FALSE) \in Sectioning!AutoRecords BY SectioningPainted
<1>3. Sectioning!sent(Sectioning!paint(q, FALSE), Sectioning!Request(n, "off", FALSE)) \in Sectioning!AutoRecords
  BY <1>1, <1>2, SectioningSent
<1> QED BY <1>3 DEF Sectioning!forceOff

LEMMA SectioningClickTyped ==
  ASSUME Sectioning!AutoAssumption, Sectioning!AutoTypeOK, Sectioning!Clicked
  PROVE  Sectioning!AutoTypeOK'
<1> DEFINE on == ~st.button
           early == st.early \/ \E r \in st.flying : r.ask = "read"
           ask == IF on THEN "on" ELSE "off"
           p == Sectioning!paint(st, on)
           q == [p EXCEPT !.disabled = TRUE, !.early = early]
<1>1. /\ st \in Sectioning!AutoRecords /\ acts \in 0..AutoActs /\ AutoActs \in Nat /\ acts < AutoActs
      /\ acts' = acts + 1
  BY DEF Sectioning!AutoTypeOK, Sectioning!Clicked, Sectioning!Act, Sectioning!AutoAssumption
<1>2. on \in BOOLEAN /\ early \in BOOLEAN /\ ask \in Sectioning!Asks
  BY <1>1 DEF Sectioning!AutoRecords, Sectioning!Asks
<1>3. st' = Sectioning!sent([Sectioning!paint(st, on) EXCEPT !.disabled = TRUE,
                               !.early = @ \/ \E r \in st.flying : r.ask = "read"],
                            Sectioning!Request(acts', ask, TRUE))
  BY DEF Sectioning!Clicked
<1>4. p.early = st.early BY <1>1 DEF Sectioning!paint, Sectioning!AutoRecords
<1>5. st' = Sectioning!sent(q, Sectioning!Request(acts', ask, TRUE)) BY <1>3, <1>4
<1> HIDE DEF on, early, ask
<1>6. p \in Sectioning!AutoRecords BY <1>1, <1>2, SectioningPainted
<1> HIDE DEF p
<1>7. q \in Sectioning!AutoRecords BY <1>2, <1>6 DEF Sectioning!AutoRecords
<1> HIDE DEF q
<1>8. Sectioning!Request(acts', ask, TRUE) \in Sectioning!Requests
  <2>1. acts' \in Nat BY <1>1
  <2> QED BY <1>2, <2>1, SectioningRequest
<1>9. st' \in Sectioning!AutoRecords BY <1>5, <1>7, <1>8, SectioningSent
<1> QED BY <1>1, <1>9 DEF Sectioning!AutoTypeOK

LEMMA SectioningLoadTyped ==
  ASSUME Sectioning!AutoAssumption, Sectioning!AutoTypeOK, Sectioning!TrackLoaded
  PROVE  Sectioning!AutoTypeOK'
<1>1. /\ st \in Sectioning!AutoRecords /\ acts \in 0..AutoActs /\ AutoActs \in Nat /\ acts < AutoActs
      /\ acts' = acts + 1
      /\ st' = Sectioning!forceOff(st, acts')
  BY DEF Sectioning!AutoTypeOK, Sectioning!TrackLoaded, Sectioning!Act, Sectioning!AutoAssumption
<1>2. acts' \in Nat BY <1>1
<1>3. st' \in Sectioning!AutoRecords BY <1>1, <1>2, SectioningOff
<1> QED BY <1>1, <1>3 DEF Sectioning!AutoTypeOK

(* A request that is served, or lost, is the same request elsewhere.        *)
LEMMA SectioningServed ==
  ASSUME Sectioning!AutoTypeOK, Sectioning!Served
  PROVE  \E r \in st.flying, on \in BOOLEAN, b \in Sectioning!Requests :
           /\ r \in Sectioning!Requests /\ r.at = "way" /\ on = IF r.ask = "read" THEN st.server ELSE r.ask = "on"
           /\ b.ask = r.ask /\ b.click = r.click /\ b.at = "back" /\ b.says = on
           /\ st' \in Sectioning!AutoRecords /\ acts' = acts
           /\ st'.server = on /\ st'.flying = (st.flying \ {r}) \cup {b}
           /\ st'.button = st.button /\ st'.disabled = st.disabled /\ st'.failed = st.failed /\ st'.early = st.early
<1>1. st \in Sectioning!AutoRecords BY DEF Sectioning!AutoTypeOK
<1>2. PICK r \in st.flying :
        /\ r.at = "way"
        /\ LET on == IF r.ask = "read" THEN st.server ELSE r.ask = "on"
           IN st' = [st EXCEPT !.server = on, !.flying = (@ \ {r}) \cup {[r EXCEPT !.at = "back", !.says = on]}]
        /\ acts' = acts
  BY DEF Sectioning!Served
<1> DEFINE on == IF r.ask = "read" THEN st.server ELSE r.ask = "on"
           b == [r EXCEPT !.at = "back", !.says = on]
           flying == (st.flying \ {r}) \cup {b}
<1>3. on \in BOOLEAN /\ r \in Sectioning!Requests BY <1>1 DEF Sectioning!AutoRecords
<1>4. st' = [st EXCEPT !.server = on, !.flying = flying] BY <1>2
<1>5. on = IF r.ask = "read" THEN st.server ELSE r.ask = "on" OBVIOUS
<1> HIDE DEF on
<1>6. b \in Sectioning!Requests /\ b.ask = r.ask /\ b.click = r.click /\ b.at = "back" /\ b.says = on
  BY <1>3 DEF Sectioning!Requests
<1> HIDE DEF b
<1>7. flying \in SUBSET Sectioning!Requests /\ flying = (st.flying \ {r}) \cup {b}
  BY <1>1, <1>6 DEF Sectioning!AutoRecords
<1> HIDE DEF flying
<1>8. /\ st' \in Sectioning!AutoRecords /\ st'.server = on /\ st'.flying = flying
      /\ st'.button = st.button /\ st'.disabled = st.disabled /\ st'.failed = st.failed /\ st'.early = st.early
  BY <1>1, <1>3, <1>4, <1>7 DEF Sectioning!AutoRecords
<1> QED BY <1>2, <1>3, <1>5, <1>6, <1>7, <1>8

LEMMA SectioningServedHolds ==
  ASSUME Sectioning!AutoIInv, Sectioning!Served
  PROVE  Sectioning!AutoIInv'
<1>1. PICK r \in st.flying, on \in BOOLEAN, b \in Sectioning!Requests :
           /\ r \in Sectioning!Requests /\ r.at = "way" /\ on = IF r.ask = "read" THEN st.server ELSE r.ask = "on"
           /\ b.ask = r.ask /\ b.click = r.click /\ b.at = "back" /\ b.says = on
           /\ st' \in Sectioning!AutoRecords /\ acts' = acts
           /\ st'.server = on /\ st'.flying = (st.flying \ {r}) \cup {b}
           /\ st'.button = st.button /\ st'.disabled = st.disabled /\ st'.failed = st.failed /\ st'.early = st.early
  BY SectioningServed DEF Sectioning!AutoIInv
<1>2. Sectioning!AutoTypeOK' BY <1>1 DEF Sectioning!AutoIInv, Sectioning!AutoTypeOK
<1>3. Sectioning!OnIsAnswered'
  BY <1>1 DEF Sectioning!OnIsAnswered, Sectioning!WillAgree, Sectioning!Requests, Sectioning!Asks
<1>4. Sectioning!AnswersAreTrue' BY <1>1 DEF Sectioning!AutoIInv, Sectioning!AnswersAreTrue
<1>5. Sectioning!OneClick' BY <1>1 DEF Sectioning!AutoIInv, Sectioning!OneClick
<1>6. Sectioning!ReadIsAlone' BY <1>1 DEF Sectioning!AutoIInv, Sectioning!ReadIsAlone
<1>7. Sectioning!OffMeansOff' BY <1>1 DEF Sectioning!OffMeansOff
<1> QED BY <1>2, <1>3, <1>4, <1>5, <1>6, <1>7 DEF Sectioning!AutoIInv

LEMMA SectioningLostTyped ==
  ASSUME Sectioning!AutoTypeOK, Sectioning!Lost
  PROVE  Sectioning!AutoTypeOK'
<1>1. st \in Sectioning!AutoRecords BY DEF Sectioning!AutoTypeOK
<1>2. PICK r \in st.flying :
        st' = [st EXCEPT !.failed = TRUE, !.flying = (@ \ {r}) \cup {[r EXCEPT !.at = "lost"]}] /\ acts' = acts
  BY DEF Sectioning!Lost
<1> DEFINE b == [r EXCEPT !.at = "lost"]
           flying == (st.flying \ {r}) \cup {b}
<1>3. b \in Sectioning!Requests BY <1>1 DEF Sectioning!AutoRecords, Sectioning!Requests
<1>4. st' = [st EXCEPT !.failed = TRUE, !.flying = flying] BY <1>2
<1> HIDE DEF b
<1>5. flying \in SUBSET Sectioning!Requests BY <1>1, <1>3 DEF Sectioning!AutoRecords
<1> HIDE DEF flying
<1>6. st' \in Sectioning!AutoRecords BY <1>1, <1>4, <1>5 DEF Sectioning!AutoRecords
<1> QED BY <1>2, <1>6 DEF Sectioning!AutoTypeOK

(* The four ways in which an answer is taken.                               *)
LEMMA SectioningTaken ==
  ASSUME Sectioning!AutoTypeOK, Sectioning!AnswersAreTrue, Sectioning!Answered
  PROVE  \E r \in st.flying :
           /\ r \in Sectioning!Requests /\ r.at \in {"back", "lost"} /\ acts' = acts /\ st' \in Sectioning!AutoRecords
           /\ st'.server = st.server /\ st'.failed = st.failed /\ st'.early = st.early
           /\ \/ r.click /\ st'.button = (IF r.at = "back" THEN r.says ELSE r.ask = "off") /\ st'.disabled = FALSE
                   /\ st'.flying = st.flying \ {r}
              \/ ~r.click /\ r.ask = "read" /\ r.at = "back" /\ r.says /\ st'.disabled = st.disabled
                    /\ st'.button = FALSE
                   /\ \E o \in Sectioning!Requests : /\ o.ask = "off" /\ ~o.click /\ o.at = "way" /\ o.says = FALSE
                                                     /\ st'.flying = (st.flying \ {r}) \cup {o}
              \/ ~r.click /\ r.ask = "read" /\ r.at = "back" /\ ~r.says /\ st'.disabled = st.disabled
                   /\ st'.button = FALSE /\ st'.flying = st.flying \ {r}
              \/ ~r.click /\ ~(r.ask = "read" /\ r.at = "back") /\ st'.disabled = st.disabled
                   /\ st'.button = st.button /\ st'.flying = st.flying \ {r}
<1>1. st \in Sectioning!AutoRecords BY DEF Sectioning!AutoTypeOK
<1>2. PICK r \in st.flying : /\ r.at \in {"back", "lost"}
                             /\ st' = Sectioning!answered([st EXCEPT !.flying = @ \ {r}], r, 100 + r.id)
                             /\ acts' = acts
  BY DEF Sectioning!Answered
<1> DEFINE q == [st EXCEPT !.flying = st.flying \ {r}]
           n == 100 + r.id
<1>3. r \in Sectioning!Requests /\ r.click \in BOOLEAN /\ r.says \in BOOLEAN /\ n \in Nat
  BY <1>1 DEF Sectioning!AutoRecords, Sectioning!Requests
<1>4. st' = Sectioning!answered(q, r, n) BY <1>2
<1>5. /\ q \in Sectioning!AutoRecords /\ q.flying = st.flying \ {r} /\ q.server = st.server /\ q.failed = st.failed
      /\ q.early = st.early /\ q.disabled = st.disabled /\ q.button = st.button
  BY <1>1 DEF Sectioning!AutoRecords
<1> HIDE DEF q, n
<1>6. CASE r.click
  <2> DEFINE on == IF r.at = "back" THEN r.says ELSE r.ask = "off"
             p == Sectioning!paint(q, on)
  <2>1. st' = [p EXCEPT !.disabled = FALSE]
    <3>0. r.ask # "read" BY <1>6 DEF Sectioning!AnswersAreTrue
    <3>1. CASE r.at = "back"
      <4>1. on = r.says BY <3>1
      <4> HIDE DEF on, p
      <4>2. Sectioning!answered(q, r, n) = [Sectioning!paint(q, r.says) EXCEPT !.disabled = FALSE]
        BY ONLY <1>6, <3>0, <3>1 DEF Sectioning!answered
      <4>3. st' = [Sectioning!paint(q, r.says) EXCEPT !.disabled = FALSE] BY <1>4, <4>2
      <4> QED BY <4>1, <4>3 DEF p
    <3>2. CASE r.at = "lost"
      <4>1. on = (r.ask = "off") BY <3>2
      <4>2. st' = [Sectioning!paint(q, r.ask = "off") EXCEPT !.disabled = FALSE]
        BY <1>4, <1>6, <3>0, <3>2 DEF Sectioning!answered
      <4> HIDE DEF on
      <4> QED BY <4>1, <4>2
    <3> QED BY <1>2, <3>1, <3>2
  <2>2. on \in BOOLEAN BY <1>3
  <2>3. on = IF r.at = "back" THEN r.says ELSE r.ask = "off" OBVIOUS
  <2> HIDE DEF on
  <2>4. /\ p \in Sectioning!AutoRecords /\ p.flying = q.flying /\ p.server = q.server /\ p.failed = q.failed
        /\ p.early = q.early /\ p.button = on
    BY <1>5, <2>2 DEF Sectioning!paint, Sectioning!AutoRecords
  <2> HIDE DEF p
  <2>5. /\ st' \in Sectioning!AutoRecords /\ st'.flying = p.flying /\ st'.server = p.server /\ st'.failed = p.failed
        /\ st'.early = p.early /\ st'.button = p.button /\ st'.disabled = FALSE
    BY <2>1, <2>4 DEF Sectioning!AutoRecords
  <2> QED BY <1>2, <1>3, <1>5, <1>6, <2>3, <2>4, <2>5
<1>7. CASE ~r.click /\ r.ask = "read" /\ r.at = "back"
  <2> DEFINE p == Sectioning!paint(q, r.says)
             o == Sectioning!Request(n, "off", FALSE)
  <2>1. st' = Sectioning!forceOff(p, n) BY <1>4, <1>7 DEF Sectioning!answered
  <2>2. /\ p \in Sectioning!AutoRecords /\ p.flying = q.flying /\ p.server = q.server /\ p.failed = q.failed
        /\ p.early = q.early /\ p.button = r.says /\ p.disabled = q.disabled
    BY <1>3, <1>5 DEF Sectioning!paint, Sectioning!AutoRecords
  <2>3. o \in Sectioning!Requests BY <1>3, SectioningRequest DEF Sectioning!Asks
  <2>4. o.ask = "off" /\ o.click = FALSE /\ o.at = "way" /\ o.says = FALSE BY DEF Sectioning!Request
  <2>5. st' \in Sectioning!AutoRecords BY <1>3, <2>1, <2>2, SectioningOff
  <2> HIDE DEF p, o
  <2>6. CASE ~r.says
    <3>1. st' = p BY <2>1, <2>2, <2>6 DEF Sectioning!forceOff
    <3> QED BY <1>2, <1>3, <1>5, <1>7, <2>2, <2>5, <2>6, <3>1
  <2>7. CASE r.says
    <3> DEFINE w == Sectioning!paint(p, FALSE)
    <3>1. st' = [w EXCEPT !.flying = w.flying \cup {o}]
      BY <2>1, <2>2, <2>7 DEF Sectioning!forceOff, Sectioning!sent, o
    <3>2. /\ w \in Sectioning!AutoRecords /\ w.flying = p.flying /\ w.server = p.server /\ w.failed = p.failed
          /\ w.early = p.early /\ w.button = FALSE /\ w.disabled = p.disabled
      BY <2>2 DEF Sectioning!paint, Sectioning!AutoRecords
    <3> HIDE DEF w
    <3>3. /\ st'.flying = w.flying \cup {o} /\ st'.server = w.server /\ st'.failed = w.failed
          /\ st'.early = w.early /\ st'.button = FALSE /\ st'.disabled = w.disabled
      BY <3>1, <3>2 DEF Sectioning!AutoRecords
    <3>4. /\ st'.flying = (st.flying \ {r}) \cup {o} /\ st'.server = st.server /\ st'.failed = st.failed
          /\ st'.early = st.early /\ st'.disabled = st.disabled
      BY <1>5, <2>2, <3>2, <3>3
    <3> QED BY <1>2, <1>3, <1>7, <2>3, <2>4, <2>5, <2>7, <3>3, <3>4
  <2> QED BY <2>6, <2>7
<1>8. CASE ~r.click /\ ~(r.ask = "read" /\ r.at = "back")
  <2>1. st' = q BY <1>4, <1>8 DEF Sectioning!answered
  <2> QED BY <1>2, <1>3, <1>5, <1>8, <2>1
<1> QED BY <1>6, <1>7, <1>8

LEMMA SectioningAnsweredHolds ==
  ASSUME Sectioning!AutoIInv, Sectioning!Answered
  PROVE  Sectioning!AutoIInv'
<1>1. PICK r \in st.flying :
           /\ r \in Sectioning!Requests /\ r.at \in {"back", "lost"} /\ acts' = acts /\ st' \in Sectioning!AutoRecords
           /\ st'.server = st.server /\ st'.failed = st.failed /\ st'.early = st.early
           /\ \/ r.click /\ st'.button = (IF r.at = "back" THEN r.says ELSE r.ask = "off") /\ st'.disabled = FALSE
                   /\ st'.flying = st.flying \ {r}
              \/ ~r.click /\ r.ask = "read" /\ r.at = "back" /\ r.says /\ st'.disabled = st.disabled
                    /\ st'.button = FALSE
                   /\ \E o \in Sectioning!Requests : /\ o.ask = "off" /\ ~o.click /\ o.at = "way" /\ o.says = FALSE
                                                     /\ st'.flying = (st.flying \ {r}) \cup {o}
              \/ ~r.click /\ r.ask = "read" /\ r.at = "back" /\ ~r.says /\ st'.disabled = st.disabled
                   /\ st'.button = FALSE /\ st'.flying = st.flying \ {r}
              \/ ~r.click /\ ~(r.ask = "read" /\ r.at = "back") /\ st'.disabled = st.disabled
                   /\ st'.button = st.button /\ st'.flying = st.flying \ {r}
  BY SectioningTaken DEF Sectioning!AutoIInv
<1>2. Sectioning!AutoTypeOK' BY <1>1 DEF Sectioning!AutoIInv, Sectioning!AutoTypeOK
<1>3. Sectioning!OnIsAnswered'
  BY <1>1 DEF Sectioning!AutoIInv, Sectioning!OnIsAnswered, Sectioning!WillAgree, Sectioning!AnswersAreTrue,
              Sectioning!OneClick, Sectioning!ReadIsAlone, Sectioning!Requests, Sectioning!Asks
<1>4. Sectioning!AnswersAreTrue' BY <1>1 DEF Sectioning!AutoIInv, Sectioning!AnswersAreTrue
<1>5. Sectioning!OneClick' BY <1>1 DEF Sectioning!AutoIInv, Sectioning!OneClick
<1>6. Sectioning!ReadIsAlone' BY <1>1 DEF Sectioning!AutoIInv, Sectioning!ReadIsAlone
<1>7. Sectioning!OffMeansOff' BY <1>3 DEF Sectioning!OffMeansOff, Sectioning!OnIsAnswered
<1> QED BY <1>2, <1>3, <1>4, <1>5, <1>6, <1>7 DEF Sectioning!AutoIInv

LEMMA SectioningClicked ==
  ASSUME Sectioning!AutoAssumption, Sectioning!AutoIInv, Sectioning!Clicked
  PROVE  Sectioning!AutoIInv'
<1> DEFINE on == ~st.button
           ask == IF on THEN "on" ELSE "off"
           r == Sectioning!Request(acts', ask, TRUE)
           p == Sectioning!paint(st, on)
           early == st.early \/ \E f \in st.flying : f.ask = "read"
           q == [p EXCEPT !.disabled = TRUE, !.early = early]
<1>1. Sectioning!AutoTypeOK' BY SectioningClickTyped DEF Sectioning!AutoIInv
<1>2. st \in Sectioning!AutoRecords /\ ~st.disabled
  BY DEF Sectioning!AutoIInv, Sectioning!AutoTypeOK, Sectioning!Clicked
<1>3. on \in BOOLEAN /\ on = ~st.button /\ early \in BOOLEAN
  BY <1>2 DEF Sectioning!AutoRecords
<1>4. p.early = st.early BY <1>2 DEF Sectioning!paint, Sectioning!AutoRecords
<1>5. st' = [q EXCEPT !.flying = q.flying \cup {r}]
  <2>1. st' = Sectioning!sent([Sectioning!paint(st, on) EXCEPT !.disabled = TRUE,
                                 !.early = @ \/ \E f \in st.flying : f.ask = "read"], r)
    BY DEF Sectioning!Clicked
  <2> QED BY <1>4, <2>1 DEF Sectioning!sent
<1>6. early = (st.early \/ \E f \in st.flying : f.ask = "read") OBVIOUS
<1>7. r.ask = (IF on THEN "on" ELSE "off") /\ r.click = TRUE /\ r.at = "way" /\ r.says = FALSE
  BY DEF Sectioning!Request
<1> HIDE DEF on, early, ask, r
<1>8. /\ p \in Sectioning!AutoRecords /\ p.server = st.server /\ p.flying = st.flying /\ p.failed = st.failed
      /\ p.button = on
  BY <1>2, <1>3 DEF Sectioning!paint, Sectioning!AutoRecords
<1> HIDE DEF p
<1>9. /\ q \in Sectioning!AutoRecords /\ q.server = st.server /\ q.flying = st.flying /\ q.failed = st.failed
      /\ q.button = on /\ q.disabled = TRUE /\ q.early = early
  BY <1>3, <1>8 DEF Sectioning!AutoRecords
<1> HIDE DEF q
<1>10. /\ st'.server = st.server /\ st'.flying = st.flying \cup {r} /\ st'.failed = st.failed
       /\ st'.button = on /\ st'.disabled = TRUE /\ st'.early = early
  BY <1>5, <1>9 DEF Sectioning!AutoRecords
<1>11. Sectioning!OnIsAnswered' BY <1>7, <1>10 DEF Sectioning!OnIsAnswered, Sectioning!WillAgree
<1>12. Sectioning!AnswersAreTrue' BY <1>7, <1>10 DEF Sectioning!AutoIInv, Sectioning!AnswersAreTrue
<1>13. Sectioning!OneClick' BY <1>2, <1>7, <1>10 DEF Sectioning!AutoIInv, Sectioning!OneClick
<1>14. Sectioning!ReadIsAlone' BY <1>6, <1>7, <1>10 DEF Sectioning!ReadIsAlone
<1>15. Sectioning!OffMeansOff' BY <1>10 DEF Sectioning!OffMeansOff
<1> QED BY <1>1, <1>11, <1>12, <1>13, <1>14, <1>15 DEF Sectioning!AutoIInv

LEMMA SectioningTrackLoaded ==
  ASSUME Sectioning!AutoAssumption, Sectioning!AutoIInv, Sectioning!TrackLoaded
  PROVE  Sectioning!AutoIInv'
<1> DEFINE r == Sectioning!Request(acts', "off", FALSE)
           p == Sectioning!paint(st, FALSE)
<1>1. Sectioning!AutoTypeOK' BY SectioningLoadTyped DEF Sectioning!AutoIInv
<1>2. st \in Sectioning!AutoRecords /\ st' = Sectioning!forceOff(st, acts')
  BY DEF Sectioning!AutoIInv, Sectioning!AutoTypeOK, Sectioning!TrackLoaded
<1>3. r.ask = "off" /\ r.click = FALSE /\ r.at = "way" /\ r.says = FALSE BY DEF Sectioning!Request
<1>4. CASE ~st.button
  <2>1. st' = st BY <1>2, <1>4 DEF Sectioning!forceOff
  <2> QED BY <1>1, <2>1 DEF Sectioning!AutoIInv, Sectioning!OnIsAnswered, Sectioning!AnswersAreTrue,
      Sectioning!OneClick, Sectioning!ReadIsAlone, Sectioning!OffMeansOff
<1>5. CASE st.button
  <2>1. st' = [p EXCEPT !.flying = p.flying \cup {r}] BY <1>2, <1>5 DEF Sectioning!forceOff, Sectioning!sent
  <2> HIDE DEF r
  <2>2. /\ p \in Sectioning!AutoRecords /\ p.server = st.server /\ p.flying = st.flying /\ p.failed = st.failed
        /\ p.button = FALSE /\ p.disabled = st.disabled /\ p.early = st.early
    BY <1>2 DEF Sectioning!paint, Sectioning!AutoRecords
  <2> HIDE DEF p
  <2>3. /\ st'.server = st.server /\ st'.flying = st.flying \cup {r} /\ st'.failed = st.failed
        /\ st'.button = FALSE /\ st'.disabled = st.disabled /\ st'.early = st.early
    BY <2>1, <2>2 DEF Sectioning!AutoRecords
  <2>4. Sectioning!OnIsAnswered' BY <1>3, <2>3 DEF Sectioning!OnIsAnswered, Sectioning!WillAgree
  <2>5. Sectioning!AnswersAreTrue' BY <1>3, <2>3 DEF Sectioning!AutoIInv, Sectioning!AnswersAreTrue
  <2>6. Sectioning!OneClick' BY <1>3, <2>3 DEF Sectioning!AutoIInv, Sectioning!OneClick
  <2>7. Sectioning!ReadIsAlone' BY <1>3, <1>5, <2>3 DEF Sectioning!AutoIInv, Sectioning!ReadIsAlone
  <2>8. Sectioning!OffMeansOff' BY <2>3 DEF Sectioning!OffMeansOff
  <2> QED BY <1>1, <2>4, <2>5, <2>6, <2>7, <2>8 DEF Sectioning!AutoIInv
<1> QED BY <1>4, <1>5

LEMMA SectioningLost ==
  ASSUME Sectioning!AutoIInv, Sectioning!Lost
  PROVE  Sectioning!AutoIInv'
<1>1. Sectioning!AutoTypeOK' BY SectioningLostTyped DEF Sectioning!AutoIInv
<1>2. st \in Sectioning!AutoRecords BY DEF Sectioning!AutoIInv, Sectioning!AutoTypeOK
<1>3. PICK r \in st.flying :
        st' = [st EXCEPT !.failed = TRUE, !.flying = (@ \ {r}) \cup {[r EXCEPT !.at = "lost"]}] /\ acts' = acts
  BY DEF Sectioning!Lost
<1> DEFINE b == [r EXCEPT !.at = "lost"]
<1>4. b.ask = r.ask /\ b.click = r.click /\ b.at = "lost"
  BY <1>2 DEF Sectioning!AutoRecords, Sectioning!Requests
<1>5. st' = [st EXCEPT !.failed = TRUE, !.flying = (st.flying \ {r}) \cup {b}] BY <1>3
<1> HIDE DEF b
<1>6. /\ st'.flying = (st.flying \ {r}) \cup {b} /\ st'.failed = TRUE /\ st'.button = st.button
      /\ st'.disabled = st.disabled /\ st'.early = st.early /\ st'.server = st.server
  BY <1>2, <1>5 DEF Sectioning!AutoRecords
<1>7. Sectioning!OnIsAnswered' /\ Sectioning!OffMeansOff'
  BY <1>6 DEF Sectioning!OnIsAnswered, Sectioning!OffMeansOff
<1>8. Sectioning!AnswersAreTrue' BY <1>4, <1>6 DEF Sectioning!AutoIInv, Sectioning!AnswersAreTrue
<1>9. Sectioning!OneClick' BY <1>4, <1>6 DEF Sectioning!AutoIInv, Sectioning!OneClick
<1>10. Sectioning!ReadIsAlone' BY <1>4, <1>6 DEF Sectioning!AutoIInv, Sectioning!ReadIsAlone
<1> QED BY <1>1, <1>7, <1>8, <1>9, <1>10 DEF Sectioning!AutoIInv

(* The invariant holds at the start, and through every step and stutter.   *)
LEMMA SectioningStarts == ASSUME Sectioning!AutoAssumption, Sectioning!AutoInit PROVE Sectioning!AutoIInv
<1> DEFINE r == Sectioning!Request(0, "read", FALSE)
           flying == {r}
<1>1. AutoActs \in Nat /\ acts = 0 BY DEF Sectioning!AutoAssumption, Sectioning!AutoInit
<1>2. PICK on \in BOOLEAN :
        st = [server |-> on, button |-> FALSE, disabled |-> FALSE, failed |-> FALSE, early |-> FALSE, flying |-> {r}]
  BY DEF Sectioning!AutoInit
<1>3. r \in Sectioning!Requests BY SectioningRequest DEF Sectioning!Asks
<1>4. r.ask = "read" /\ r.click = FALSE /\ r.at = "way" BY DEF Sectioning!Request
<1> HIDE DEF r
<1>5. flying \in SUBSET Sectioning!Requests BY <1>3
<1>6. st = [server |-> on, button |-> FALSE, disabled |-> FALSE, failed |-> FALSE, early |-> FALSE, flying |-> flying]
  BY <1>2
<1>7. Sectioning!AutoTypeOK
  <2> HIDE DEF flying
  <2> QED BY <1>1, <1>5, <1>6 DEF Sectioning!AutoTypeOK, Sectioning!AutoRecords
<1>8. Sectioning!OnIsAnswered /\ Sectioning!OffMeansOff
  BY <1>2, <1>4 DEF Sectioning!OnIsAnswered, Sectioning!WillAgree, Sectioning!OffMeansOff
<1>9. Sectioning!AnswersAreTrue /\ Sectioning!OneClick /\ Sectioning!ReadIsAlone
  BY <1>2, <1>4 DEF Sectioning!AnswersAreTrue, Sectioning!OneClick, Sectioning!ReadIsAlone
<1> QED BY <1>7, <1>8, <1>9 DEF Sectioning!AutoIInv

LEMMA SectioningStep ==
  ASSUME Sectioning!AutoAssumption, Sectioning!AutoIInv, Sectioning!AutoNext
  PROVE  Sectioning!AutoIInv'
BY SectioningClicked, SectioningTrackLoaded, SectioningServedHolds, SectioningLost, SectioningAnsweredHolds
   DEF Sectioning!AutoNext

LEMMA SectioningStutters ==
  ASSUME Sectioning!AutoIInv, st' = st, acts' = acts
  PROVE  Sectioning!AutoIInv'
BY DEF Sectioning!AutoIInv, Sectioning!AutoTypeOK, Sectioning!OnIsAnswered, Sectioning!WillAgree,
       Sectioning!AnswersAreTrue, Sectioning!OneClick, Sectioning!ReadIsAlone, Sectioning!OffMeansOff

(* --------------------------- the export menu --------------------------- *)
(* A set whose members are all the same has one at most.                    *)
LEMMA ExportFew ==
  ASSUME NEW S, \A e, f \in S : e = f
  PROVE  Export!Cardinality(S) <= 1
<1>1. Export!Cardinality(S) = Cardinality(S) BY DEF Export!Cardinality, Cardinality
<1>2. CASE S = {}
  <2>1. Cardinality(S) = 0 BY <1>2, FS_EmptySet
  <2> QED BY <1>1, <2>1
<1>3. CASE S # {}
  <2>1. PICK e \in S : S = {e} BY <1>3
  <2>2. Cardinality({e}) = 1 BY FS_Singleton
  <2> QED BY <1>1, <2>1, <2>2
<1> QED BY <1>2, <1>3

(* What an operation returns is a menu again.                               *)
LEMMA ExportLoopTyped ==
  ASSUME NEW q \in Export!ExportRecords
  PROVE  Export!updateLoopRegionVisual(q) \in Export!ExportRecords
<1> DEFINE off == IF q.loop THEN q.off \ {"region"} ELSE q.off \cup {"region"}
<1>1. off \in SUBSET Export!Rows BY DEF Export!ExportRecords, Export!Rows
<1>2. Export!updateLoopRegionVisual(q) = [q EXCEPT !.off = off] BY DEF Export!updateLoopRegionVisual
<1> HIDE DEF off
<1> QED BY <1>1, <1>2 DEF Export!ExportRecords

LEMMA ExportFormatTyped ==
  ASSUME NEW q \in Export!ExportRecords, NEW f \in {"audio", "mp4"}
  PROVE  Export!setFormat(q, f) \in Export!ExportRecords
<1>1. [q EXCEPT !.format = f] \in Export!ExportRecords BY DEF Export!ExportRecords
<1> QED BY <1>1, ExportLoopTyped DEF Export!setFormat, Export!applyFormatState

LEMMA ExportBusyTyped ==
  ASSUME NEW q \in Export!ExportRecords
  PROVE  Export!enterBusy(q) \in Export!ExportRecords
<1> DEFINE off == q.off \cup Export!visible(q)
<1>1. off \in SUBSET Export!Rows BY DEF Export!ExportRecords, Export!Rows, Export!visible
<1>2. Export!enterBusy(q) = [q EXCEPT !.busy = TRUE, !.off = off, !.panel = FALSE] BY DEF Export!enterBusy
<1> HIDE DEF off
<1> QED BY <1>1, <1>2 DEF Export!ExportRecords

(* An export that ends lets go of the menu, and of the button if it is the  *)
(* newest.                                                                  *)
LEMMA ExportFinished ==
  ASSUME NEW q \in Export!ExportRecords, NEW e
  PROVE  LET f == Export!finish(q, e)
         IN /\ f \in Export!ExportRecords /\ f.exports = q.exports /\ f.late = q.late /\ f.picking = FALSE
            /\ e.token = q.token => f.busy = FALSE
<1> DEFINE p == [q EXCEPT !.picking = FALSE]
           w == [p EXCEPT !.busy = FALSE, !.off = {}]
           f == Export!finish(q, e)
<1>1. p \in Export!ExportRecords /\ p.exports = q.exports /\ p.late = q.late /\ p.picking = FALSE
  BY DEF Export!ExportRecords
<1>2. f = IF e.token = q.token THEN Export!applyFormatState(w) ELSE p
  BY DEF Export!finish, Export!finishAnyToken, Export!resetBusy
<1> HIDE DEF p
<1>3. /\ w \in Export!ExportRecords /\ w.exports = p.exports /\ w.late = p.late /\ w.picking = p.picking
      /\ w.busy = FALSE
  BY <1>1 DEF Export!ExportRecords
<1> HIDE DEF w
<1>4. Export!updateLoopRegionVisual(w) \in Export!ExportRecords BY <1>3, ExportLoopTyped
<1>5. LET u == Export!updateLoopRegionVisual(w)
      IN u.exports = w.exports /\ u.late = w.late /\ u.picking = w.picking /\ u.busy = w.busy
  BY <1>3 DEF Export!updateLoopRegionVisual, Export!ExportRecords
<1> HIDE DEF f
<1>6. CASE e.token # q.token BY <1>1, <1>2, <1>6 DEF f
<1>7. CASE e.token = q.token
  <2>1. f = w \/ f = Export!updateLoopRegionVisual(w) BY <1>2, <1>7 DEF Export!applyFormatState
  <2> QED BY <1>1, <1>3, <1>4, <1>5, <2>1 DEF f
<1> QED BY <1>6, <1>7

LEMMA ExportGone ==
  ASSUME NEW q \in Export!ExportRecords, NEW e
  PROVE  LET g == Export!gone(q, e)
         IN /\ g \in Export!ExportRecords /\ g.exports = q.exports \ {e} /\ g.late = q.late /\ g.token = q.token
            /\ g.failures = q.failures
<1> DEFINE exports == q.exports \ {e}
<1>1. exports \in SUBSET Export!Exports BY DEF Export!ExportRecords
<1>2. Export!gone(q, e) = [q EXCEPT !.exports = exports] BY DEF Export!gone
<1> HIDE DEF exports
<1>3. LET g == Export!gone(q, e)
      IN g \in Export!ExportRecords /\ g.exports = exports /\ g.late = q.late /\ g.token = q.token
         /\ g.failures = q.failures
  BY <1>1, <1>2 DEF Export!ExportRecords
<1> QED BY <1>3 DEF exports

(* The four ends of an export, as one.                                      *)
LEMMA ExportEnds ==
  ASSUME Export!ExportTypeOK, Export!Cancelled \/ Export!Written \/ Export!Failed \/ Export!FlashOver
  PROVE  \E e \in st.exports :
           /\ st' \in Export!ExportRecords /\ acts' = acts
           /\ st'.exports = st.exports \ {e} /\ st'.late = st.late /\ st'.picking = FALSE
           /\ e.token = st.token => st'.busy = FALSE
<1>1. st \in Export!ExportRecords BY DEF Export!ExportTypeOK
<1>2. PICK e \in st.exports :
        /\ acts' = acts
        /\ LET g == Export!gone(st, e)
           IN \/ st' = Export!finish(g, e)
              \/ st' = Export!finish(Export!dismissFailuresByJobId(g, e.job), e)
              \/ st' = Export!finish(Export!failed(g, e), e)
  BY DEF Export!Cancelled, Export!Written, Export!Failed, Export!FlashOver
<1> DEFINE g == Export!gone(st, e)
<1>3. g \in Export!ExportRecords /\ g.exports = st.exports \ {e} /\ g.late = st.late /\ g.token = st.token
  BY <1>1, ExportGone
<1>4. st' = Export!finish(g, e)
      \/ st' = Export!finish(Export!dismissFailuresByJobId(g, e.job), e)
      \/ st' = Export!finish(Export!failed(g, e), e)
  BY <1>2
<1> HIDE DEF g
<1>5. PICK q \in Export!ExportRecords :
        q.exports = g.exports /\ q.late = g.late /\ q.token = g.token /\ st' = Export!finish(q, e)
  <2>1. CASE st' = Export!finish(g, e) BY <1>3, <2>1
  <2>2. CASE st' = Export!finish(Export!dismissFailuresByJobId(g, e.job), e)
    <3> DEFINE failures == {f \in g.failures : f.job # e.job}
               q == Export!dismissFailuresByJobId(g, e.job)
    <3>1. failures \in SUBSET [job : Exported, of : Exported] BY <1>3 DEF Export!ExportRecords
    <3>2. q = [g EXCEPT !.failures = failures] BY DEF Export!dismissFailuresByJobId
    <3> HIDE DEF failures, q
    <3>3. q \in Export!ExportRecords /\ q.exports = g.exports /\ q.late = g.late /\ q.token = g.token
      BY <1>3, <3>1, <3>2 DEF Export!ExportRecords
    <3> QED BY <2>2, <3>3 DEF q
  <2>3. CASE st' = Export!finish(Export!failed(g, e), e)
    <3> DEFINE b == [job |-> Export!blame(g, e), of |-> e.of]
               failures == g.failures \cup {b}
               q == Export!failed(g, e)
    <3>1. b \in [job : Exported, of : Exported]
      BY <1>1 DEF Export!ExportRecords, Export!Exports, Export!blame
    <3>2. failures \in SUBSET [job : Exported, of : Exported] BY <1>3, <3>1 DEF Export!ExportRecords
    <3>3. q = [g EXCEPT !.failures = failures] BY DEF Export!failed
    <3> HIDE DEF failures, q
    <3>4. q \in Export!ExportRecords /\ q.exports = g.exports /\ q.late = g.late /\ q.token = g.token
      BY <1>3, <3>2, <3>3 DEF Export!ExportRecords
    <3> QED BY <2>3, <3>4 DEF q
  <2> QED BY <1>4, <2>1, <2>2, <2>3
<1>6. /\ st' \in Export!ExportRecords /\ st'.exports = q.exports /\ st'.late = q.late /\ st'.picking = FALSE
      /\ e.token = q.token => st'.busy = FALSE
  BY <1>5, ExportFinished
<1> QED BY <1>2, <1>3, <1>5, <1>6

LEMMA ExportEndsHold ==
  ASSUME Export!ExportIInv, Export!Cancelled \/ Export!Written \/ Export!Failed \/ Export!FlashOver
  PROVE  Export!ExportTypeOK' /\ Export!OneExportAtATime'
<1>1. PICK e \in st.exports :
           /\ st' \in Export!ExportRecords /\ acts' = acts
           /\ st'.exports = st.exports \ {e} /\ st'.late = st.late /\ st'.picking = FALSE
           /\ e.token = st.token => st'.busy = FALSE
  BY ExportEnds DEF Export!ExportIInv
<1>2. Export!ExportTypeOK' BY <1>1 DEF Export!ExportIInv, Export!ExportTypeOK
<1>3. st'.late = {} => st'.exports = {} /\ st'.busy = FALSE BY <1>1 DEF Export!ExportIInv, Export!NewestToken
<1>4. st'.exports = {} => Export!Cardinality(st'.exports) <= 1 BY ExportFew
<1>5. Export!OneExportAtATime' BY <1>1, <1>3, <1>4 DEF Export!OneExportAtATime
<1> QED BY <1>2, <1>5

LEMMA ExportMoved ==
  ASSUME NEW q \in Export!ExportRecords, NEW e \in q.exports, NEW at \in Export!Waiting \cup {"flash"}
  PROVE  LET m == Export!moved(q, e, at)
         IN /\ m \in Export!ExportRecords /\ m.late = q.late /\ m.token = q.token /\ m.picking = q.picking
            /\ m.busy = q.busy
            /\ \E b \in Export!Exports : b.at = at /\ b.token = e.token /\ m.exports = (q.exports \ {e}) \cup {b}
<1> DEFINE b == [e EXCEPT !.at = at]
           exports == (q.exports \ {e}) \cup {b}
<1>1. b \in Export!Exports /\ b.at = at /\ b.token = e.token BY DEF Export!ExportRecords, Export!Exports
<1>2. Export!moved(q, e, at) = [q EXCEPT !.exports = exports] BY DEF Export!moved
<1> HIDE DEF b
<1>3. exports \in SUBSET Export!Exports BY <1>1 DEF Export!ExportRecords
<1>4. exports = (q.exports \ {e}) \cup {b} OBVIOUS
<1> HIDE DEF exports
<1>5. LET m == Export!moved(q, e, at)
      IN /\ m \in Export!ExportRecords /\ m.late = q.late /\ m.token = q.token /\ m.picking = q.picking
         /\ m.busy = q.busy /\ m.exports = exports
  BY <1>2, <1>3 DEF Export!ExportRecords
<1> QED BY <1>1, <1>4, <1>5

(* A timer that steps in is put down where it caught the export.            *)
LEMMA ExportBackstopTyped ==
  ASSUME Export!ExportTypeOK, Export!FlashIsShort, Export!Backstop
  PROVE  Export!ExportTypeOK'
<1>1. st \in Export!ExportRecords /\ acts' = acts BY DEF Export!ExportTypeOK, Export!Backstop
<1>2. PICK e \in st.exports : e.timed /\ st' = Export!finish(Export!stopTiming(st, e), e)
  BY DEF Export!Backstop, Export!backstop
<1> DEFINE b == [e EXCEPT !.timed = FALSE]
           caught == st.late \cup {e.at}
           exports == (st.exports \ {e}) \cup {b}
           q == Export!stopTiming(st, e)
<1>3. e.at \in Export!Waiting
  BY <1>1, <1>2 DEF Export!ExportRecords, Export!Exports, Export!FlashIsShort
<1>4. b \in Export!Exports BY <1>1 DEF Export!ExportRecords, Export!Exports
<1>5. q = [st EXCEPT !.late = caught, !.exports = exports] BY DEF Export!stopTiming
<1> HIDE DEF b, q
<1>6. caught \in SUBSET Export!Waiting /\ exports \in SUBSET Export!Exports
  BY <1>1, <1>3, <1>4 DEF Export!ExportRecords
<1> HIDE DEF caught, exports
<1>7. q \in Export!ExportRecords BY <1>1, <1>5, <1>6 DEF Export!ExportRecords
<1>8. st' = Export!finish(q, e) BY <1>2 DEF q
<1>9. st' \in Export!ExportRecords BY <1>7, <1>8, ExportFinished
<1> QED BY <1>1, <1>9 DEF Export!ExportTypeOK

(* What the user does to the page and the menu.                             *)
LEMMA ExportPageTyped ==
  ASSUME Export!ExportAssumption, Export!ExportTypeOK,
         \/ Export!TrackLoaded \/ Export!LoopChanged \/ Export!LanesChanged
         \/ Export!openPanel \/ Export!closePanel \/ Export!FormatChosen
  PROVE  Export!ExportTypeOK'
<1>1. /\ st \in Export!ExportRecords /\ acts \in 0..ExportActs /\ ExportActs \in Nat /\ acts < ExportActs
      /\ acts' = acts + 1
  BY DEF Export!ExportTypeOK, Export!ExportAssumption, Export!TrackLoaded, Export!LoopChanged, Export!LanesChanged,
         Export!openPanel, Export!closePanel, Export!FormatChosen, Export!Click, Export!Act
<1>2. CASE Export!TrackLoaded
  <2>1. PICK j \in Exported : st' = Export!updateLoopRegionVisual([st EXCEPT !.job = j, !.loop = FALSE])
    BY <1>2 DEF Export!TrackLoaded
  <2>2. [st EXCEPT !.job = j, !.loop = FALSE] \in Export!ExportRecords BY <1>1 DEF Export!ExportRecords
  <2>3. st' \in Export!ExportRecords BY <2>1, <2>2, ExportLoopTyped
  <2> QED BY <1>1, <2>3 DEF Export!ExportTypeOK
<1>3. CASE Export!LoopChanged
  <2> DEFINE loop == ~st.loop
  <2>1. loop \in BOOLEAN OBVIOUS
  <2>2. st' = Export!updateLoopRegionVisual([st EXCEPT !.loop = loop]) BY <1>3 DEF Export!LoopChanged
  <2> HIDE DEF loop
  <2>3. [st EXCEPT !.loop = loop] \in Export!ExportRecords BY <1>1, <2>1 DEF Export!ExportRecords
  <2>4. st' \in Export!ExportRecords BY <2>2, <2>3, ExportLoopTyped
  <2> QED BY <1>1, <2>4 DEF Export!ExportTypeOK
<1>4. CASE Export!LanesChanged
  <2> DEFINE audible == ~st.audible
  <2>1. audible \in BOOLEAN OBVIOUS
  <2>2. st' = [st EXCEPT !.audible = audible] BY <1>4 DEF Export!LanesChanged
  <2> HIDE DEF audible
  <2>3. st' \in Export!ExportRecords BY <1>1, <2>1, <2>2 DEF Export!ExportRecords
  <2> QED BY <1>1, <2>3 DEF Export!ExportTypeOK
<1>5. CASE Export!openPanel
  <2> DEFINE q == IF st.format = "mp4" /\ ~Export!videoAvailable(st) THEN Export!setFormat(st, "audio") ELSE st
  <2>1. q \in Export!ExportRecords BY <1>1, ExportFormatTyped
  <2>2. st' = [q EXCEPT !.panel = TRUE] BY <1>5 DEF Export!openPanel
  <2> HIDE DEF q
  <2>3. st' \in Export!ExportRecords BY <2>1, <2>2 DEF Export!ExportRecords
  <2> QED BY <1>1, <2>3 DEF Export!ExportTypeOK
<1>6. CASE Export!closePanel
  <2>1. st' = [st EXCEPT !.panel = FALSE] BY <1>6 DEF Export!closePanel
  <2>2. st' \in Export!ExportRecords BY <1>1, <2>1 DEF Export!ExportRecords
  <2> QED BY <1>1, <2>2 DEF Export!ExportTypeOK
<1>7. CASE Export!FormatChosen
  <2>1. PICK f \in {"audio", "mp4"} : st' = Export!setFormat(st, f) BY <1>7 DEF Export!FormatChosen
  <2>2. st' \in Export!ExportRecords BY <1>1, <2>1, ExportFormatTyped
  <2> QED BY <1>1, <2>2 DEF Export!ExportTypeOK
<1> QED BY <1>2, <1>3, <1>4, <1>5, <1>6, <1>7

(* The dialog of an export that was asked for, and the bytes after it.      *)
LEMMA ExportShownHolds ==
  ASSUME Export!ExportIInv, Export!Shown
  PROVE  Export!ExportTypeOK' /\ Export!OneExportAtATime'
<1>1. st \in Export!ExportRecords /\ acts' = acts BY DEF Export!ExportIInv, Export!ExportTypeOK, Export!Shown
<1>2. PICK e \in st.exports : e.at = "asked" /\ st' = Export!moved(st, e, "dialog") BY DEF Export!Shown
<1>3. "dialog" \in Export!Waiting \cup {"flash"} BY DEF Export!Waiting
<1>4. /\ st' \in Export!ExportRecords /\ st'.late = st.late /\ st'.picking = st.picking /\ st'.busy = st.busy
      /\ \E b \in Export!Exports : b.at = "dialog" /\ st'.exports = (st.exports \ {e}) \cup {b}
  BY <1>1, <1>2, <1>3, ExportMoved
<1>5. PICK b \in Export!Exports : b.at = "dialog" /\ st'.exports = (st.exports \ {e}) \cup {b} BY <1>4
<1>6. st'.late = {} => st.exports = {e} BY <1>4 DEF Export!ExportIInv, Export!NewestToken
<1>7. st'.late = {} => st'.exports = {b} BY <1>5, <1>6
<1>8. st'.late = {} => Export!Cardinality(st'.exports) <= 1 BY <1>7, ExportFew
<1>9. Export!OneExportAtATime'
  BY <1>2, <1>4, <1>5, <1>6, <1>7, <1>8 DEF Export!ExportIInv, Export!OneExportAtATime
<1> QED BY <1>1, <1>4, <1>9 DEF Export!ExportIInv, Export!ExportTypeOK

LEMMA ExportChosenHolds ==
  ASSUME Export!ExportIInv, Export!Chosen
  PROVE  Export!ExportTypeOK' /\ Export!OneExportAtATime'
<1>1. st \in Export!ExportRecords /\ acts' = acts BY DEF Export!ExportIInv, Export!ExportTypeOK, Export!Chosen
<1>2. PICK e \in st.exports : e.at = "dialog" /\ st' = Export!enterBusy(Export!moved(st, e, "moving"))
  BY DEF Export!Chosen
<1>3. "moving" \in Export!Waiting \cup {"flash"} BY DEF Export!Waiting
<1> DEFINE m == Export!moved(st, e, "moving")
<1>4. /\ m \in Export!ExportRecords /\ m.late = st.late /\ m.picking = st.picking
      /\ \E b \in Export!Exports : b.at = "moving" /\ m.exports = (st.exports \ {e}) \cup {b}
  BY <1>1, <1>3, ExportMoved
<1>5. PICK b \in Export!Exports : b.at = "moving" /\ m.exports = (st.exports \ {e}) \cup {b} BY <1>4
<1>6. st' = Export!enterBusy(m) BY <1>2
<1> HIDE DEF m
<1>7. st' \in Export!ExportRecords BY <1>4, <1>6, ExportBusyTyped
<1>8. st'.exports = m.exports /\ st'.late = m.late /\ st'.picking = m.picking /\ st'.busy = TRUE
  BY <1>4, <1>6 DEF Export!enterBusy, Export!ExportRecords
<1>9. st'.late = {} => st.exports = {e} BY <1>4, <1>8 DEF Export!ExportIInv, Export!NewestToken
<1>10. st'.late = {} => st'.exports = {b} BY <1>5, <1>8, <1>9
<1>11. st'.late = {} => Export!Cardinality(st'.exports) <= 1 BY <1>10, ExportFew
<1>12. Export!OneExportAtATime'
  BY <1>4, <1>5, <1>8, <1>9, <1>10, <1>11 DEF Export!ExportIInv, Export!OneExportAtATime
<1> QED BY <1>1, <1>7, <1>12 DEF Export!ExportIInv, Export!ExportTypeOK

(* A row that is clicked starts an export, or nothing.                      *)
LEMMA ExportSettled ==
  ASSUME Export!ExportAssumption, acts \in 0..ExportActs, acts < ExportActs, NEW q \in Export!ExportRecords,
         q.token <= acts, q.job \in Exported, NEW at \in Export!Waiting \cup {"flash"}
  PROVE  LET s == Export!settleBusy(q, acts + 1, at)
         IN /\ s \in Export!ExportRecords /\ s.token = q.token + 1 /\ s.late = q.late
            /\ s.picking = q.picking /\ s.busy = q.busy
            /\ \E e \in Export!Exports : e.at = at /\ e.token = q.token + 1 /\ s.exports = q.exports \cup {e}
<1> DEFINE timed == at # "flash"
           e == [id |-> acts + 1, job |-> q.job, of |-> q.job, token |-> q.token + 1, at |-> at, timed |-> timed]
           token == q.token + 1
           exports == q.exports \cup {e}
<1>1. ExportActs \in Nat BY DEF Export!ExportAssumption
<1>2. q.token \in Nat BY <1>1 DEF Export!ExportRecords
<1>3. acts + 1 \in 0..ExportActs /\ token \in 0..ExportActs BY <1>1, <1>2
<1>4. timed \in BOOLEAN OBVIOUS
<1>5. Export!settleBusy(q, acts + 1, at) = [q EXCEPT !.token = token, !.exports = exports]
  BY DEF Export!settleBusy
<1> HIDE DEF timed
<1>6. e \in Export!Exports /\ e.at = at /\ e.token = token BY <1>3, <1>4 DEF Export!Exports
<1> HIDE DEF e
<1>7. exports \in SUBSET Export!Exports /\ exports = q.exports \cup {e} BY <1>6 DEF Export!ExportRecords
<1>8. token = q.token + 1 OBVIOUS
<1> HIDE DEF exports, token
<1>9. LET s == Export!settleBusy(q, acts + 1, at)
      IN /\ s \in Export!ExportRecords /\ s.token = token /\ s.late = q.late /\ s.picking = q.picking
         /\ s.busy = q.busy /\ s.exports = exports
  BY <1>3, <1>5, <1>7 DEF Export!ExportRecords
<1> QED BY <1>6, <1>7, <1>8, <1>9

LEMMA ExportRowHolds ==
  ASSUME Export!ExportAssumption, Export!ExportIInv, Export!RowClicked
  PROVE  Export!ExportTypeOK' /\ Export!NewestToken' /\ Export!OneExportAtATime'
<1>1. /\ st \in Export!ExportRecords /\ acts \in 0..ExportActs /\ ExportActs \in Nat /\ acts < ExportActs
      /\ acts' = acts + 1 /\ st.token <= acts /\ st.token \in Nat
  BY DEF Export!ExportIInv, Export!NewestToken, Export!ExportTypeOK, Export!ExportAssumption, Export!RowClicked,
         Export!Click, Export!Act, Export!ExportRecords
<1>2. PICK row \in Export!visible(st) : st' = Export!runExport(st, row, acts + 1) BY DEF Export!RowClicked
<1> DEFINE p == [st EXCEPT !.picking = TRUE]
<1>3. \/ st' = st
      \/ /\ ~st.picking /\ ~st.busy /\ st.job # "none"
         /\ st' = IF p.desktop THEN Export!settleBusy(p, acts + 1, "asked")
                  ELSE Export!settleBusy(Export!enterBusy(p), acts + 1, "flash")
  BY <1>2 DEF Export!runExport, Export!runUnlessBusy, Export!something, Export!triggered
<1>4. CASE st' = st
  <2>1. Export!ExportTypeOK' BY <1>1, <1>4 DEF Export!ExportTypeOK
  <2>2. st'.token <= acts' BY <1>1, <1>4
  <2>3. Export!NewestToken' BY <1>4, <2>2 DEF Export!ExportIInv, Export!NewestToken
  <2>4. Export!OneExportAtATime' BY <1>4 DEF Export!ExportIInv, Export!OneExportAtATime
  <2> QED BY <2>1, <2>3, <2>4
<1>5. CASE /\ ~st.picking /\ ~st.busy /\ st.job # "none"
           /\ st' = IF p.desktop THEN Export!settleBusy(p, acts + 1, "asked")
                    ELSE Export!settleBusy(Export!enterBusy(p), acts + 1, "flash")
  <2> DEFINE w == Export!enterBusy(p)
  <2>1. /\ p \in Export!ExportRecords /\ p.token = st.token /\ p.job = st.job /\ p.late = st.late
        /\ p.picking = TRUE /\ p.busy = st.busy /\ p.exports = st.exports
    BY <1>1 DEF Export!ExportRecords
  <2> HIDE DEF p
  <2>2. w \in Export!ExportRecords BY <2>1, ExportBusyTyped
  <2>3. /\ w.token = st.token /\ w.job = st.job /\ w.late = st.late /\ w.picking = TRUE /\ w.busy = TRUE
        /\ w.exports = st.exports
    BY <2>1 DEF Export!enterBusy, Export!ExportRecords
  <2>4. st.job \in Exported BY <1>1, <1>5 DEF Export!ExportRecords
  <2> HIDE DEF w
  <2>5. "asked" \in Export!Waiting \cup {"flash"} BY DEF Export!Waiting
  <2>6. PICK at \in Export!Waiting \cup {"flash"}, e \in Export!Exports :
          /\ st' \in Export!ExportRecords /\ st'.token = st.token + 1 /\ st'.late = st.late
          /\ st'.picking = TRUE /\ st'.busy = (at = "flash") /\ (at = "flash" \/ at = "asked")
          /\ e.at = at /\ e.token = st.token + 1 /\ st'.exports = st.exports \cup {e}
    <3>1. CASE p.desktop
      <4>1. LET s == Export!settleBusy(p, acts + 1, "asked")
            IN /\ s \in Export!ExportRecords /\ s.token = p.token + 1 /\ s.late = p.late
               /\ s.picking = p.picking /\ s.busy = p.busy
               /\ \E e \in Export!Exports : e.at = "asked" /\ e.token = p.token + 1 /\ s.exports = p.exports \cup {e}
        BY <1>1, <2>1, <2>4, <2>5, ExportSettled
      <4>2. PICK e \in Export!Exports :
              /\ st' \in Export!ExportRecords /\ st'.token = st.token + 1 /\ st'.late = st.late
              /\ st'.picking = TRUE /\ st'.busy = FALSE
              /\ e.at = "asked" /\ e.token = st.token + 1 /\ st'.exports = st.exports \cup {e}
        BY <1>1, <1>5, <2>1, <3>1, <4>1 DEF Export!ExportRecords
      <4> QED BY <2>5, <4>2
    <3>2. CASE ~p.desktop
      <4>1. LET s == Export!settleBusy(w, acts + 1, "flash")
            IN /\ s \in Export!ExportRecords /\ s.token = w.token + 1 /\ s.late = w.late
               /\ s.picking = w.picking /\ s.busy = w.busy
               /\ \E e \in Export!Exports : e.at = "flash" /\ e.token = w.token + 1 /\ s.exports = w.exports \cup {e}
        BY <1>1, <2>2, <2>3, <2>4, ExportSettled
      <4>2. st' = Export!settleBusy(w, acts + 1, "flash") BY <1>5, <3>2 DEF w
      <4>3. PICK e \in Export!Exports :
              /\ st' \in Export!ExportRecords /\ st'.token = st.token + 1 /\ st'.late = st.late
              /\ st'.picking = TRUE /\ st'.busy = TRUE
              /\ e.at = "flash" /\ e.token = st.token + 1 /\ st'.exports = st.exports \cup {e}
        BY <2>3, <4>1, <4>2
      <4> QED BY <4>3
    <3> QED BY <3>1, <3>2
  <2>7. st'.late = {} => st.exports = {} BY <1>5, <2>6 DEF Export!ExportIInv, Export!OneExportAtATime
  <2>8. st'.late = {} => st'.exports = {e} BY <2>6, <2>7
  <2>9. st'.late = {} => Export!Cardinality(st'.exports) <= 1 BY <2>8, ExportFew
  <2>10. Export!ExportTypeOK' BY <1>1, <2>6 DEF Export!ExportTypeOK
  <2>11. Export!NewestToken' BY <1>1, <2>6, <2>8 DEF Export!NewestToken
  <2>12. Export!OneExportAtATime'
    BY <2>6, <2>8, <2>9 DEF Export!OneExportAtATime
  <2> QED BY <2>10, <2>11, <2>12
<1> QED BY <1>3, <1>4, <1>5

LEMMA ExportTrackLoaded ==
  ASSUME Export!ExportAssumption, Export!ExportIInv, Export!TrackLoaded
  PROVE  Export!ExportIInv'
<1>0. st \in Export!ExportRecords /\ acts \in 0..ExportActs /\ ExportActs \in Nat
  BY DEF Export!ExportIInv, Export!ExportTypeOK, Export!ExportAssumption
<1>1. Export!ExportTypeOK' BY ExportPageTyped DEF Export!ExportIInv
<1>2. Export!NewestToken'
  BY <1>0 DEF Export!ExportIInv, Export!TrackLoaded, Export!Act, Export!updateLoopRegionVisual,
     Export!applyFormatState, Export!NewestToken, Export!ExportRecords
<1>3. Export!ExportsKnowTheirTrack'
  BY <1>0 DEF Export!ExportIInv, Export!TrackLoaded, Export!Act, Export!updateLoopRegionVisual,
     Export!applyFormatState, Export!ExportsKnowTheirTrack
<1>4. Export!FlashIsShort'
  BY <1>0 DEF Export!ExportIInv, Export!TrackLoaded, Export!Act, Export!updateLoopRegionVisual,
     Export!applyFormatState, Export!FlashIsShort
<1>5. Export!OneExportAtATime'
  BY <1>0 DEF Export!ExportIInv, Export!TrackLoaded, Export!Act, Export!updateLoopRegionVisual,
     Export!applyFormatState, Export!OneExportAtATime, Export!ExportRecords
<1>6. Export!RowsComeBack'
  BY <1>0 DEF Export!ExportIInv, Export!TrackLoaded, Export!Act, Export!updateLoopRegionVisual,
     Export!applyFormatState, Export!RowsComeBack
<1>7. Export!FailureNamesItsTrack'
  BY <1>0 DEF Export!ExportIInv, Export!TrackLoaded, Export!Act, Export!updateLoopRegionVisual,
     Export!applyFormatState, Export!FailureNamesItsTrack
<1> QED BY <1>1, <1>2, <1>3, <1>4, <1>5, <1>6, <1>7 DEF Export!ExportIInv

LEMMA ExportLoopChanged ==
  ASSUME Export!ExportAssumption, Export!ExportIInv, Export!LoopChanged
  PROVE  Export!ExportIInv'
<1>0. st \in Export!ExportRecords /\ acts \in 0..ExportActs /\ ExportActs \in Nat
  BY DEF Export!ExportIInv, Export!ExportTypeOK, Export!ExportAssumption
<1>1. Export!ExportTypeOK' BY ExportPageTyped DEF Export!ExportIInv
<1>2. Export!NewestToken'
  BY <1>0 DEF Export!ExportIInv, Export!LoopChanged, Export!Click, Export!Act, Export!updateLoopRegionVisual,
     Export!applyFormatState, Export!NewestToken, Export!ExportRecords
<1>3. Export!ExportsKnowTheirTrack'
  BY <1>0 DEF Export!ExportIInv, Export!LoopChanged, Export!Click, Export!Act, Export!updateLoopRegionVisual,
     Export!applyFormatState, Export!ExportsKnowTheirTrack
<1>4. Export!FlashIsShort'
  BY <1>0 DEF Export!ExportIInv, Export!LoopChanged, Export!Click, Export!Act, Export!updateLoopRegionVisual,
     Export!applyFormatState, Export!FlashIsShort
<1>5. Export!OneExportAtATime'
  BY <1>0 DEF Export!ExportIInv, Export!LoopChanged, Export!Click, Export!Act, Export!updateLoopRegionVisual,
     Export!applyFormatState, Export!OneExportAtATime, Export!ExportRecords
<1>6. Export!RowsComeBack'
  BY <1>0 DEF Export!ExportIInv, Export!LoopChanged, Export!Click, Export!Act, Export!updateLoopRegionVisual,
     Export!applyFormatState, Export!RowsComeBack
<1>7. Export!FailureNamesItsTrack'
  BY <1>0 DEF Export!ExportIInv, Export!LoopChanged, Export!Click, Export!Act, Export!updateLoopRegionVisual,
     Export!applyFormatState, Export!FailureNamesItsTrack
<1> QED BY <1>1, <1>2, <1>3, <1>4, <1>5, <1>6, <1>7 DEF Export!ExportIInv

LEMMA ExportLanesChanged ==
  ASSUME Export!ExportAssumption, Export!ExportIInv, Export!LanesChanged
  PROVE  Export!ExportIInv'
<1>0. st \in Export!ExportRecords /\ acts \in 0..ExportActs /\ ExportActs \in Nat
  BY DEF Export!ExportIInv, Export!ExportTypeOK, Export!ExportAssumption
<1>1. Export!ExportTypeOK' BY ExportPageTyped DEF Export!ExportIInv
<1>2. Export!NewestToken'
  BY <1>0 DEF Export!ExportIInv, Export!LanesChanged, Export!Click, Export!Act, Export!NewestToken,
     Export!ExportRecords
<1>3. Export!ExportsKnowTheirTrack'
  BY <1>0 DEF Export!ExportIInv, Export!LanesChanged, Export!Click, Export!Act, Export!ExportsKnowTheirTrack
<1>4. Export!FlashIsShort'
  BY <1>0 DEF Export!ExportIInv, Export!LanesChanged, Export!Click, Export!Act, Export!FlashIsShort
<1>5. Export!OneExportAtATime'
  BY <1>0 DEF Export!ExportIInv, Export!LanesChanged, Export!Click, Export!Act, Export!OneExportAtATime,
     Export!ExportRecords
<1>6. Export!RowsComeBack'
  BY <1>0 DEF Export!ExportIInv, Export!LanesChanged, Export!Click, Export!Act, Export!RowsComeBack
<1>7. Export!FailureNamesItsTrack'
  BY <1>0 DEF Export!ExportIInv, Export!LanesChanged, Export!Click, Export!Act, Export!FailureNamesItsTrack
<1> QED BY <1>1, <1>2, <1>3, <1>4, <1>5, <1>6, <1>7 DEF Export!ExportIInv

LEMMA ExportOpenPanel ==
  ASSUME Export!ExportAssumption, Export!ExportIInv, Export!openPanel
  PROVE  Export!ExportIInv'
<1>0. st \in Export!ExportRecords /\ acts \in 0..ExportActs /\ ExportActs \in Nat
  BY DEF Export!ExportIInv, Export!ExportTypeOK, Export!ExportAssumption
<1>1. Export!ExportTypeOK' BY ExportPageTyped DEF Export!ExportIInv
<1>2. Export!NewestToken'
  BY <1>0 DEF Export!ExportIInv, Export!openPanel, Export!Click, Export!Act, Export!setFormat, Export!videoAvailable,
     Export!updateLoopRegionVisual, Export!applyFormatState, Export!NewestToken, Export!ExportRecords
<1>3. Export!ExportsKnowTheirTrack'
  BY <1>0 DEF Export!ExportIInv, Export!openPanel, Export!Click, Export!Act, Export!setFormat, Export!videoAvailable,
     Export!updateLoopRegionVisual, Export!applyFormatState, Export!ExportsKnowTheirTrack
<1>4. Export!FlashIsShort'
  BY <1>0 DEF Export!ExportIInv, Export!openPanel, Export!Click, Export!Act, Export!setFormat, Export!videoAvailable,
     Export!updateLoopRegionVisual, Export!applyFormatState, Export!FlashIsShort
<1>5. Export!OneExportAtATime'
  BY <1>0 DEF Export!ExportIInv, Export!openPanel, Export!Click, Export!Act, Export!setFormat, Export!videoAvailable,
     Export!updateLoopRegionVisual, Export!applyFormatState, Export!OneExportAtATime, Export!ExportRecords
<1>6. Export!RowsComeBack'
  BY <1>0 DEF Export!ExportIInv, Export!openPanel, Export!Click, Export!Act, Export!setFormat, Export!videoAvailable,
     Export!updateLoopRegionVisual, Export!applyFormatState, Export!RowsComeBack
<1>7. Export!FailureNamesItsTrack'
  BY <1>0 DEF Export!ExportIInv, Export!openPanel, Export!Click, Export!Act, Export!setFormat, Export!videoAvailable,
     Export!updateLoopRegionVisual, Export!applyFormatState, Export!FailureNamesItsTrack
<1> QED BY <1>1, <1>2, <1>3, <1>4, <1>5, <1>6, <1>7 DEF Export!ExportIInv

LEMMA ExportClosePanel ==
  ASSUME Export!ExportAssumption, Export!ExportIInv, Export!closePanel
  PROVE  Export!ExportIInv'
<1>0. st \in Export!ExportRecords /\ acts \in 0..ExportActs /\ ExportActs \in Nat
  BY DEF Export!ExportIInv, Export!ExportTypeOK, Export!ExportAssumption
<1>1. Export!ExportTypeOK' BY ExportPageTyped DEF Export!ExportIInv
<1>2. Export!NewestToken'
  BY <1>0 DEF Export!ExportIInv, Export!closePanel, Export!Click, Export!Act, Export!NewestToken, Export!ExportRecords
<1>3. Export!ExportsKnowTheirTrack'
  BY <1>0 DEF Export!ExportIInv, Export!closePanel, Export!Click, Export!Act, Export!ExportsKnowTheirTrack
<1>4. Export!FlashIsShort'
  BY <1>0 DEF Export!ExportIInv, Export!closePanel, Export!Click, Export!Act, Export!FlashIsShort
<1>5. Export!OneExportAtATime'
  BY <1>0 DEF Export!ExportIInv, Export!closePanel, Export!Click, Export!Act, Export!OneExportAtATime,
     Export!ExportRecords
<1>6. Export!RowsComeBack'
  BY <1>0 DEF Export!ExportIInv, Export!closePanel, Export!Click, Export!Act, Export!RowsComeBack
<1>7. Export!FailureNamesItsTrack'
  BY <1>0 DEF Export!ExportIInv, Export!closePanel, Export!Click, Export!Act, Export!FailureNamesItsTrack
<1> QED BY <1>1, <1>2, <1>3, <1>4, <1>5, <1>6, <1>7 DEF Export!ExportIInv

LEMMA ExportFormatChosen ==
  ASSUME Export!ExportAssumption, Export!ExportIInv, Export!FormatChosen
  PROVE  Export!ExportIInv'
<1>0. st \in Export!ExportRecords /\ acts \in 0..ExportActs /\ ExportActs \in Nat
  BY DEF Export!ExportIInv, Export!ExportTypeOK, Export!ExportAssumption
<1>1. Export!ExportTypeOK' BY ExportPageTyped DEF Export!ExportIInv
<1>2. Export!NewestToken'
  BY <1>0 DEF Export!ExportIInv, Export!FormatChosen, Export!Click, Export!Act, Export!setFormat,
     Export!videoAvailable, Export!updateLoopRegionVisual, Export!applyFormatState, Export!NewestToken, Export!ExportRecords
<1>3. Export!ExportsKnowTheirTrack'
  BY <1>0 DEF Export!ExportIInv, Export!FormatChosen, Export!Click, Export!Act, Export!setFormat,
     Export!videoAvailable, Export!updateLoopRegionVisual, Export!applyFormatState, Export!ExportsKnowTheirTrack
<1>4. Export!FlashIsShort'
  BY <1>0 DEF Export!ExportIInv, Export!FormatChosen, Export!Click, Export!Act, Export!setFormat,
     Export!videoAvailable, Export!updateLoopRegionVisual, Export!applyFormatState, Export!FlashIsShort
<1>5. Export!OneExportAtATime'
  BY <1>0 DEF Export!ExportIInv, Export!FormatChosen, Export!Click, Export!Act, Export!setFormat,
     Export!videoAvailable, Export!updateLoopRegionVisual, Export!applyFormatState, Export!OneExportAtATime, Export!ExportRecords
<1>6. Export!RowsComeBack'
  BY <1>0 DEF Export!ExportIInv, Export!FormatChosen, Export!Click, Export!Act, Export!setFormat,
     Export!videoAvailable, Export!updateLoopRegionVisual, Export!applyFormatState, Export!RowsComeBack
<1>7. Export!FailureNamesItsTrack'
  BY <1>0 DEF Export!ExportIInv, Export!FormatChosen, Export!Click, Export!Act, Export!setFormat,
     Export!videoAvailable, Export!updateLoopRegionVisual, Export!applyFormatState, Export!FailureNamesItsTrack
<1> QED BY <1>1, <1>2, <1>3, <1>4, <1>5, <1>6, <1>7 DEF Export!ExportIInv

LEMMA ExportRowClicked ==
  ASSUME Export!ExportAssumption, Export!ExportIInv, Export!RowClicked
  PROVE  Export!ExportIInv'
<1>0. st \in Export!ExportRecords /\ acts \in 0..ExportActs /\ ExportActs \in Nat
  BY DEF Export!ExportIInv, Export!ExportTypeOK, Export!ExportAssumption
<1>1. Export!ExportTypeOK' BY ExportRowHolds
<1>2. Export!NewestToken' BY ExportRowHolds
<1>3. Export!ExportsKnowTheirTrack'
  BY <1>0 DEF Export!ExportIInv, Export!RowClicked, Export!Click, Export!Act, Export!visible, Export!runExport,
     Export!runUnlessBusy, Export!something, Export!videoAvailable, Export!triggered, Export!settleBusy, Export!enterBusy, Export!ExportsKnowTheirTrack
<1>4. Export!FlashIsShort'
  BY <1>0 DEF Export!ExportIInv, Export!RowClicked, Export!Click, Export!Act, Export!visible, Export!runExport,
     Export!runUnlessBusy, Export!something, Export!videoAvailable, Export!triggered, Export!settleBusy, Export!enterBusy, Export!FlashIsShort, Export!ExportRecords
<1>5. Export!OneExportAtATime' BY ExportRowHolds
<1>6. Export!RowsComeBack'
  BY <1>0 DEF Export!ExportIInv, Export!RowClicked, Export!Click, Export!Act, Export!visible, Export!runExport,
     Export!runUnlessBusy, Export!something, Export!videoAvailable, Export!triggered, Export!settleBusy, Export!enterBusy, Export!RowsComeBack
<1>7. Export!FailureNamesItsTrack'
  BY <1>0 DEF Export!ExportIInv, Export!RowClicked, Export!Click, Export!Act, Export!visible, Export!runExport,
     Export!runUnlessBusy, Export!something, Export!videoAvailable, Export!triggered, Export!settleBusy, Export!enterBusy, Export!FailureNamesItsTrack
<1> QED BY <1>1, <1>2, <1>3, <1>4, <1>5, <1>6, <1>7 DEF Export!ExportIInv

LEMMA ExportShown ==
  ASSUME Export!ExportAssumption, Export!ExportIInv, Export!Shown
  PROVE  Export!ExportIInv'
<1>0. st \in Export!ExportRecords /\ acts \in 0..ExportActs /\ ExportActs \in Nat
  BY DEF Export!ExportIInv, Export!ExportTypeOK, Export!ExportAssumption
<1>1. Export!ExportTypeOK' BY ExportShownHolds
<1>2. Export!NewestToken'
  BY <1>0 DEF Export!ExportIInv, Export!Shown, Export!moved, Export!NewestToken, Export!ExportRecords, Export!Exports,
     Export!Waiting, Export!Rows
<1>3. Export!ExportsKnowTheirTrack'
  BY <1>0 DEF Export!ExportIInv, Export!Shown, Export!moved, Export!ExportsKnowTheirTrack, Export!ExportRecords,
     Export!Exports, Export!Waiting, Export!Rows
<1>4. Export!FlashIsShort'
  BY <1>0 DEF Export!ExportIInv, Export!Shown, Export!moved, Export!FlashIsShort, Export!ExportRecords,
     Export!Exports, Export!Waiting, Export!Rows
<1>5. Export!OneExportAtATime' BY ExportShownHolds
<1>6. Export!RowsComeBack' BY <1>0 DEF Export!ExportIInv, Export!Shown, Export!moved, Export!RowsComeBack
<1>7. Export!FailureNamesItsTrack'
  BY <1>0 DEF Export!ExportIInv, Export!Shown, Export!moved, Export!FailureNamesItsTrack
<1> QED BY <1>1, <1>2, <1>3, <1>4, <1>5, <1>6, <1>7 DEF Export!ExportIInv

LEMMA ExportChosen ==
  ASSUME Export!ExportAssumption, Export!ExportIInv, Export!Chosen
  PROVE  Export!ExportIInv'
<1>0. st \in Export!ExportRecords /\ acts \in 0..ExportActs /\ ExportActs \in Nat
  BY DEF Export!ExportIInv, Export!ExportTypeOK, Export!ExportAssumption
<1>1. Export!ExportTypeOK' BY ExportChosenHolds
<1>2. Export!NewestToken'
  BY <1>0 DEF Export!ExportIInv, Export!Chosen, Export!moved, Export!enterBusy, Export!visible, Export!NewestToken,
     Export!ExportRecords, Export!Exports, Export!Waiting, Export!Rows
<1>3. Export!ExportsKnowTheirTrack'
  BY <1>0 DEF Export!ExportIInv, Export!Chosen, Export!moved, Export!enterBusy, Export!visible,
     Export!ExportsKnowTheirTrack, Export!ExportRecords, Export!Exports, Export!Waiting, Export!Rows
<1>4. Export!FlashIsShort'
  BY <1>0 DEF Export!ExportIInv, Export!Chosen, Export!moved, Export!enterBusy, Export!visible, Export!FlashIsShort,
     Export!ExportRecords, Export!Exports, Export!Waiting, Export!Rows
<1>5. Export!OneExportAtATime' BY ExportChosenHolds
<1>6. Export!RowsComeBack'
  BY <1>0 DEF Export!ExportIInv, Export!Chosen, Export!moved, Export!enterBusy, Export!visible, Export!RowsComeBack
<1>7. Export!FailureNamesItsTrack'
  BY <1>0 DEF Export!ExportIInv, Export!Chosen, Export!moved, Export!enterBusy, Export!visible,
     Export!FailureNamesItsTrack
<1> QED BY <1>1, <1>2, <1>3, <1>4, <1>5, <1>6, <1>7 DEF Export!ExportIInv

LEMMA ExportCancelled ==
  ASSUME Export!ExportAssumption, Export!ExportIInv, Export!Cancelled
  PROVE  Export!ExportIInv'
<1>0. st \in Export!ExportRecords /\ acts \in 0..ExportActs /\ ExportActs \in Nat
  BY DEF Export!ExportIInv, Export!ExportTypeOK, Export!ExportAssumption
<1>1. Export!ExportTypeOK' BY ExportEndsHold
<1>2. Export!NewestToken'
  BY <1>0 DEF Export!ExportIInv, Export!Cancelled, Export!finish, Export!finishAnyToken, Export!resetBusy,
     Export!gone, Export!updateLoopRegionVisual, Export!applyFormatState, Export!NewestToken
<1>3. Export!ExportsKnowTheirTrack'
  BY <1>0 DEF Export!ExportIInv, Export!Cancelled, Export!finish, Export!finishAnyToken, Export!resetBusy,
     Export!gone, Export!updateLoopRegionVisual, Export!applyFormatState, Export!ExportsKnowTheirTrack
<1>4. Export!FlashIsShort'
  BY <1>0 DEF Export!ExportIInv, Export!Cancelled, Export!finish, Export!finishAnyToken, Export!resetBusy,
     Export!gone, Export!updateLoopRegionVisual, Export!applyFormatState, Export!FlashIsShort
<1>5. Export!OneExportAtATime' BY ExportEndsHold
<1>6. Export!RowsComeBack'
  BY <1>0 DEF Export!ExportIInv, Export!Cancelled, Export!finish, Export!finishAnyToken, Export!resetBusy,
     Export!gone, Export!updateLoopRegionVisual, Export!applyFormatState, Export!RowsComeBack
<1>7. Export!FailureNamesItsTrack'
  BY <1>0 DEF Export!ExportIInv, Export!Cancelled, Export!finish, Export!finishAnyToken, Export!resetBusy,
     Export!gone, Export!updateLoopRegionVisual, Export!applyFormatState, Export!FailureNamesItsTrack
<1> QED BY <1>1, <1>2, <1>3, <1>4, <1>5, <1>6, <1>7 DEF Export!ExportIInv

LEMMA ExportWritten ==
  ASSUME Export!ExportAssumption, Export!ExportIInv, Export!Written
  PROVE  Export!ExportIInv'
<1>0. st \in Export!ExportRecords /\ acts \in 0..ExportActs /\ ExportActs \in Nat
  BY DEF Export!ExportIInv, Export!ExportTypeOK, Export!ExportAssumption
<1>1. Export!ExportTypeOK' BY ExportEndsHold
<1>2. Export!NewestToken'
  BY <1>0 DEF Export!ExportIInv, Export!Written, Export!finish, Export!finishAnyToken, Export!resetBusy, Export!gone,
     Export!updateLoopRegionVisual, Export!applyFormatState, Export!dismissFailuresByJobId, Export!NewestToken
<1>3. Export!ExportsKnowTheirTrack'
  BY <1>0 DEF Export!ExportIInv, Export!Written, Export!finish, Export!finishAnyToken, Export!resetBusy, Export!gone,
     Export!updateLoopRegionVisual, Export!applyFormatState, Export!dismissFailuresByJobId, Export!ExportsKnowTheirTrack
<1>4. Export!FlashIsShort'
  BY <1>0 DEF Export!ExportIInv, Export!Written, Export!finish, Export!finishAnyToken, Export!resetBusy, Export!gone,
     Export!updateLoopRegionVisual, Export!applyFormatState, Export!dismissFailuresByJobId, Export!FlashIsShort
<1>5. Export!OneExportAtATime' BY ExportEndsHold
<1>6. Export!RowsComeBack'
  BY <1>0 DEF Export!ExportIInv, Export!Written, Export!finish, Export!finishAnyToken, Export!resetBusy, Export!gone,
     Export!updateLoopRegionVisual, Export!applyFormatState, Export!dismissFailuresByJobId, Export!RowsComeBack
<1>7. Export!FailureNamesItsTrack'
  BY <1>0 DEF Export!ExportIInv, Export!Written, Export!finish, Export!finishAnyToken, Export!resetBusy, Export!gone,
     Export!updateLoopRegionVisual, Export!applyFormatState, Export!dismissFailuresByJobId, Export!FailureNamesItsTrack
<1> QED BY <1>1, <1>2, <1>3, <1>4, <1>5, <1>6, <1>7 DEF Export!ExportIInv

LEMMA ExportFailed ==
  ASSUME Export!ExportAssumption, Export!ExportIInv, Export!Failed
  PROVE  Export!ExportIInv'
<1>0. st \in Export!ExportRecords /\ acts \in 0..ExportActs /\ ExportActs \in Nat
  BY DEF Export!ExportIInv, Export!ExportTypeOK, Export!ExportAssumption
<1>1. Export!ExportTypeOK' BY ExportEndsHold
<1>2. Export!NewestToken'
  BY <1>0 DEF Export!ExportIInv, Export!Failed, Export!finish, Export!finishAnyToken, Export!resetBusy, Export!gone,
     Export!updateLoopRegionVisual, Export!applyFormatState, Export!failed, Export!blame, Export!NewestToken
<1>3. Export!ExportsKnowTheirTrack'
  BY <1>0 DEF Export!ExportIInv, Export!Failed, Export!finish, Export!finishAnyToken, Export!resetBusy, Export!gone,
     Export!updateLoopRegionVisual, Export!applyFormatState, Export!failed, Export!blame, Export!ExportsKnowTheirTrack
<1>4. Export!FlashIsShort'
  BY <1>0 DEF Export!ExportIInv, Export!Failed, Export!finish, Export!finishAnyToken, Export!resetBusy, Export!gone,
     Export!updateLoopRegionVisual, Export!applyFormatState, Export!failed, Export!blame, Export!FlashIsShort
<1>5. Export!OneExportAtATime' BY ExportEndsHold
<1>6. Export!RowsComeBack'
  BY <1>0 DEF Export!ExportIInv, Export!Failed, Export!finish, Export!finishAnyToken, Export!resetBusy, Export!gone,
     Export!updateLoopRegionVisual, Export!applyFormatState, Export!failed, Export!blame, Export!RowsComeBack
<1>7. Export!FailureNamesItsTrack'
  BY <1>0 DEF Export!ExportIInv, Export!Failed, Export!finish, Export!finishAnyToken, Export!resetBusy, Export!gone,
     Export!updateLoopRegionVisual, Export!applyFormatState, Export!failed, Export!blame, Export!ExportRecords, Export!Exports, Export!Waiting, Export!Rows, Export!NewestToken, Export!ExportsKnowTheirTrack, Export!FlashIsShort, Export!OneExportAtATime, Export!RowsComeBack, Export!FailureNamesItsTrack
<1> QED BY <1>1, <1>2, <1>3, <1>4, <1>5, <1>6, <1>7 DEF Export!ExportIInv

LEMMA ExportFlashOver ==
  ASSUME Export!ExportAssumption, Export!ExportIInv, Export!FlashOver
  PROVE  Export!ExportIInv'
<1>0. st \in Export!ExportRecords /\ acts \in 0..ExportActs /\ ExportActs \in Nat
  BY DEF Export!ExportIInv, Export!ExportTypeOK, Export!ExportAssumption
<1>1. Export!ExportTypeOK' BY ExportEndsHold
<1>2. Export!NewestToken'
  BY <1>0 DEF Export!ExportIInv, Export!FlashOver, Export!finish, Export!finishAnyToken, Export!resetBusy,
     Export!gone, Export!updateLoopRegionVisual, Export!applyFormatState, Export!NewestToken
<1>3. Export!ExportsKnowTheirTrack'
  BY <1>0 DEF Export!ExportIInv, Export!FlashOver, Export!finish, Export!finishAnyToken, Export!resetBusy,
     Export!gone, Export!updateLoopRegionVisual, Export!applyFormatState, Export!ExportsKnowTheirTrack
<1>4. Export!FlashIsShort'
  BY <1>0 DEF Export!ExportIInv, Export!FlashOver, Export!finish, Export!finishAnyToken, Export!resetBusy,
     Export!gone, Export!updateLoopRegionVisual, Export!applyFormatState, Export!FlashIsShort
<1>5. Export!OneExportAtATime' BY ExportEndsHold
<1>6. Export!RowsComeBack'
  BY <1>0 DEF Export!ExportIInv, Export!FlashOver, Export!finish, Export!finishAnyToken, Export!resetBusy,
     Export!gone, Export!updateLoopRegionVisual, Export!applyFormatState, Export!RowsComeBack
<1>7. Export!FailureNamesItsTrack'
  BY <1>0 DEF Export!ExportIInv, Export!FlashOver, Export!finish, Export!finishAnyToken, Export!resetBusy,
     Export!gone, Export!updateLoopRegionVisual, Export!applyFormatState, Export!FailureNamesItsTrack
<1> QED BY <1>1, <1>2, <1>3, <1>4, <1>5, <1>6, <1>7 DEF Export!ExportIInv

LEMMA ExportBackstop ==
  ASSUME Export!ExportAssumption, Export!ExportIInv, Export!Backstop
  PROVE  Export!ExportIInv'
<1>0. st \in Export!ExportRecords /\ acts \in 0..ExportActs /\ ExportActs \in Nat
  BY DEF Export!ExportIInv, Export!ExportTypeOK, Export!ExportAssumption
<1>1. Export!ExportTypeOK' BY ExportBackstopTyped DEF Export!ExportIInv
<1>2. Export!NewestToken'
  BY <1>0 DEF Export!ExportIInv, Export!Backstop, Export!backstop, Export!stopTiming, Export!finish,
     Export!finishAnyToken, Export!resetBusy, Export!gone, Export!updateLoopRegionVisual, Export!applyFormatState, Export!NewestToken
<1>3. Export!ExportsKnowTheirTrack'
  BY <1>0 DEF Export!ExportIInv, Export!Backstop, Export!backstop, Export!stopTiming, Export!finish,
     Export!finishAnyToken, Export!resetBusy, Export!gone, Export!updateLoopRegionVisual, Export!applyFormatState, Export!ExportsKnowTheirTrack, Export!ExportRecords, Export!Exports, Export!Waiting, Export!Rows
<1>4. Export!FlashIsShort'
  BY <1>0 DEF Export!ExportIInv, Export!Backstop, Export!backstop, Export!stopTiming, Export!finish,
     Export!finishAnyToken, Export!resetBusy, Export!gone, Export!updateLoopRegionVisual, Export!applyFormatState, Export!FlashIsShort, Export!ExportRecords, Export!Exports, Export!Waiting, Export!Rows
<1>5. Export!OneExportAtATime'
  BY <1>0 DEF Export!ExportIInv, Export!Backstop, Export!backstop, Export!stopTiming, Export!finish,
     Export!finishAnyToken, Export!resetBusy, Export!gone, Export!updateLoopRegionVisual, Export!applyFormatState, Export!OneExportAtATime
<1>6. Export!RowsComeBack'
  BY <1>0 DEF Export!ExportIInv, Export!Backstop, Export!backstop, Export!stopTiming, Export!finish,
     Export!finishAnyToken, Export!resetBusy, Export!gone, Export!updateLoopRegionVisual, Export!applyFormatState, Export!RowsComeBack
<1>7. Export!FailureNamesItsTrack'
  BY <1>0 DEF Export!ExportIInv, Export!Backstop, Export!backstop, Export!stopTiming, Export!finish,
     Export!finishAnyToken, Export!resetBusy, Export!gone, Export!updateLoopRegionVisual, Export!applyFormatState, Export!FailureNamesItsTrack
<1> QED BY <1>1, <1>2, <1>3, <1>4, <1>5, <1>6, <1>7 DEF Export!ExportIInv

(* The invariant holds at the start, and through every step and stutter.   *)
LEMMA ExportStarts == ASSUME Export!ExportAssumption, Export!ExportInit PROVE Export!ExportIInv
<1>1. ExportActs \in Nat /\ acts = 0 BY DEF Export!ExportAssumption, Export!ExportInit
<1>2. PICK d \in BOOLEAN :
        st = [desktop |-> d, job |-> "none", loop |-> FALSE, audible |-> TRUE, format |-> "audio", panel |-> FALSE,
              busy |-> FALSE, picking |-> FALSE, token |-> 0, off |-> {"region"}, exports |-> {}, late |-> {},
              failures |-> {}]
  BY DEF Export!ExportInit
<1>3. Export!ExportTypeOK
  <2>1. acts \in 0..ExportActs /\ 0 \in 0..ExportActs BY <1>1
  <2>2. {"region"} \in SUBSET Export!Rows BY DEF Export!Rows
  <2> QED BY <1>2, <2>1, <2>2 DEF Export!ExportTypeOK, Export!ExportRecords
<1>4. Export!NewestToken /\ Export!ExportsKnowTheirTrack /\ Export!FlashIsShort /\ Export!FailureNamesItsTrack
  BY <1>1, <1>2 DEF Export!NewestToken, Export!ExportsKnowTheirTrack, Export!FlashIsShort,
     Export!FailureNamesItsTrack
<1>5. Export!Cardinality(st.exports) <= 1
  <2>1. \A e, f \in st.exports : e = f BY <1>2
  <2> QED BY <2>1, ExportFew
<1>6. Export!OneExportAtATime BY <1>2, <1>5 DEF Export!OneExportAtATime
<1>7. Export!RowsComeBack BY <1>2 DEF Export!RowsComeBack
<1> QED BY <1>3, <1>4, <1>6, <1>7 DEF Export!ExportIInv

LEMMA ExportStep ==
  ASSUME Export!ExportAssumption, Export!ExportIInv, Export!ExportNext
  PROVE  Export!ExportIInv'
BY ExportTrackLoaded, ExportLoopChanged, ExportLanesChanged, ExportOpenPanel, ExportClosePanel, ExportFormatChosen,
   ExportRowClicked, ExportShown, ExportChosen, ExportCancelled, ExportWritten, ExportFailed, ExportFlashOver,
   ExportBackstop DEF Export!ExportNext

LEMMA ExportStutters ==
  ASSUME Export!ExportIInv, st' = st, acts' = acts
  PROVE  Export!ExportIInv'
BY DEF Export!ExportIInv, Export!ExportTypeOK, Export!NewestToken, Export!ExportsKnowTheirTrack, Export!FlashIsShort,
       Export!OneExportAtATime, Export!RowsComeBack, Export!FailureNamesItsTrack

(* ------------------------- the store that moves ------------------------ *)
(* What an operation returns is a store again.                              *)
LEMMA StartCheckTyped ==
  ASSUME Start!MigrationAssumption, Start!StoreTypeOK, Start!ChecksFixed, Start!CheckKey
  PROVE  Start!StoreTypeOK'
<1>1. st \in Start!StoreRecords /\ acts \in 0..MoveActs /\ acts' = acts /\ st.todo \subseteq Fixed
  BY DEF Start!StoreTypeOK, Start!CheckKey, Start!ChecksFixed
<1>2. PICK k \in st.todo :
        LET q == [st EXCEPT !.todo = @ \ {k}, !.found = IF st.store[k] = Start!None THEN @ \cup Start!present(k) ELSE @]
        IN st' = IF q.todo = {} THEN Start!checked(q) ELSE q
  BY DEF Start!CheckKey
<1> DEFINE found == IF st.store[k] = Start!None THEN st.found \cup Start!present(k) ELSE st.found
           q == [st EXCEPT !.todo = st.todo \ {k}, !.found = found]
           there == {key \in Start!Keys : q.web[key] # Start!None}
<1>3. found \subseteq Fixed BY <1>1 DEF Start!present, Start!StoreRecords
<1>4. st' = IF q.todo = {} THEN Start!checked(q) ELSE q BY <1>1, <1>2 DEF Start!StoreRecords
<1> HIDE DEF found
<1>5. q \in Start!StoreRecords BY <1>1, <1>3 DEF Start!StoreRecords
<1>6. there \in SUBSET Start!Keys OBVIOUS
<1> HIDE DEF q
<1>7. Start!checked(q) = IF Start!needs(q) THEN [q EXCEPT !.at = "copy", !.todo = there] ELSE [q EXCEPT !.at = "flag"]
  BY DEF Start!checked
<1> HIDE DEF there
<1>8. [q EXCEPT !.at = "copy", !.todo = there] \in Start!StoreRecords BY <1>5, <1>6 DEF Start!StoreRecords
<1>9. [q EXCEPT !.at = "flag"] \in Start!StoreRecords BY <1>5 DEF Start!StoreRecords
<1>10. st' \in Start!StoreRecords BY <1>4, <1>5, <1>7, <1>8, <1>9
<1> QED BY <1>1, <1>10 DEF Start!StoreTypeOK

LEMMA StartCopiedTyped ==
  ASSUME NEW q \in Start!StoreRecords, NEW k
  PROVE  Start!copied(q, k) \in Start!StoreRecords
<1> DEFINE at == IF q.todo = {k} THEN "flag" ELSE q.at
<1>1. at \in {"check", "copy", "flag", "ready"} BY DEF Start!StoreRecords
<1>2. Start!copied(q, k) = [q EXCEPT !.todo = q.todo \ {k}, !.at = at] BY DEF Start!copied
<1> HIDE DEF at
<1> QED BY <1>1, <1>2 DEF Start!StoreRecords

LEMMA StartCopyTyped ==
  ASSUME Start!MigrationAssumption, Start!StoreTypeOK, Start!CopyKey \/ Start!CopyFailed
  PROVE  Start!StoreTypeOK'
<1>1. st \in Start!StoreRecords /\ acts \in 0..MoveActs /\ acts' = acts
  BY DEF Start!StoreTypeOK, Start!CopyKey, Start!CopyFailed
<1>2. PICK k \in Start!next(st) :
        \/ st' = [Start!copied(st, k) EXCEPT !.store[k] = st.web[k]]
        \/ st' = [Start!copied(st, k) EXCEPT !.disturbed = @ \cup {"failure"}]
  BY DEF Start!CopyKey, Start!CopyFailed
<1>3. k \in Start!Keys BY <1>1 DEF Start!next, Start!StoreRecords
<1> DEFINE q == Start!copied(st, k)
<1>4. q \in Start!StoreRecords BY <1>1, StartCopiedTyped
<1> HIDE DEF q
<1> DEFINE store == [q.store EXCEPT ![k] = st.web[k]]
           disturbed == q.disturbed \cup {"failure"}
<1>5. store \in [Start!Keys -> Start!Values] BY <1>1, <1>3, <1>4 DEF Start!StoreRecords
<1>6. disturbed \in SUBSET {"failure", "closed", "write"} BY <1>4 DEF Start!StoreRecords
<1>7. st' = [q EXCEPT !.store = store] \/ st' = [q EXCEPT !.disturbed = disturbed] BY <1>2 DEF q
<1> HIDE DEF store, disturbed
<1>8. st' \in Start!StoreRecords BY <1>4, <1>5, <1>6, <1>7 DEF Start!StoreRecords
<1> QED BY <1>1, <1>8 DEF Start!StoreTypeOK

LEMMA StartSetTyped ==
  ASSUME Start!MigrationAssumption, Start!StoreTypeOK, Start!storeSet
  PROVE  Start!StoreTypeOK'
<1>1. /\ st \in Start!StoreRecords /\ acts \in 0..MoveActs /\ MoveActs \in Nat /\ acts < MoveActs /\ acts' = acts + 1
  BY DEF Start!StoreTypeOK, Start!storeSet, Start!Act, Start!MigrationAssumption
<1>2. PICK k \in Start!Keys :
        st' = [st EXCEPT !.store[k] = acts + 2, !.latest[k] = acts + 2, !.disturbed = Start!During("write", st)]
  BY DEF Start!storeSet
<1> DEFINE store == [st.store EXCEPT ![k] = acts + 2]
           latest == [st.latest EXCEPT ![k] = acts + 2]
           disturbed == Start!During("write", st)
<1>3. acts + 2 \in Start!Values BY <1>1 DEF Start!Values
<1>4. store \in [Start!Keys -> Start!Values] /\ latest \in [Start!Keys -> Start!Values]
  BY <1>1, <1>3 DEF Start!StoreRecords
<1>5. disturbed \in SUBSET {"failure", "closed", "write"} BY <1>1 DEF Start!During, Start!StoreRecords
<1>6. st' = [st EXCEPT !.store = store, !.latest = latest, !.disturbed = disturbed] BY <1>2
<1> HIDE DEF store, latest, disturbed
<1>7. st' \in Start!StoreRecords BY <1>1, <1>4, <1>5, <1>6 DEF Start!StoreRecords
<1> QED BY <1>1, <1>7 DEF Start!StoreTypeOK

LEMMA StartRestartedTyped ==
  ASSUME NEW q \in Start!StoreRecords
  PROVE  Start!Restarted(q) \in Start!StoreRecords
<1> DEFINE disturbed == Start!During("closed", q)
<1>1. disturbed \in SUBSET {"failure", "closed", "write"} BY DEF Start!During, Start!StoreRecords
<1>2. Start!Restarted(q) = [q EXCEPT !.at = "check", !.todo = Fixed, !.found = {}, !.disturbed = disturbed]
  BY DEF Start!Restarted
<1> HIDE DEF disturbed
<1>3. Fixed \in SUBSET Start!Keys /\ {} \in SUBSET Fixed BY DEF Start!Keys
<1> QED BY <1>1, <1>2, <1>3 DEF Start!StoreRecords

LEMMA StartStartedTyped ==
  ASSUME Start!MigrationAssumption, Start!StoreTypeOK, Start!AppStarted \/ Start!NewVersionStarted
  PROVE  Start!StoreTypeOK'
<1> DEFINE empty == [k \in Start!Keys |-> Start!None]
<1>1. /\ st \in Start!StoreRecords /\ acts \in 0..MoveActs /\ MoveActs \in Nat /\ acts < MoveActs /\ acts' = acts + 1
      /\ st' = Start!Restarted(st) \/ st' = Start!Restarted(Start!clear_webkit_data(st))
  BY DEF Start!StoreTypeOK, Start!AppStarted, Start!NewVersionStarted, Start!Act, Start!MigrationAssumption
<1>2. empty \in [Start!Keys -> Start!Values] BY <1>1 DEF Start!Values, Start!None
<1>3. Start!clear_webkit_data(st) = IF st.flag THEN [st EXCEPT !.web = empty] ELSE st
  BY DEF Start!clear_webkit_data
<1> HIDE DEF empty
<1>4. [st EXCEPT !.web = empty] \in Start!StoreRecords BY <1>1, <1>2 DEF Start!StoreRecords
<1>5. st' \in Start!StoreRecords BY <1>1, <1>3, <1>4, StartRestartedTyped
<1> QED BY <1>1, <1>5 DEF Start!StoreTypeOK

LEMMA StartCheckKey ==
  ASSUME Start!MigrationAssumption, Start!MigrationIInv, Start!CheckKey
  PROVE  Start!MigrationIInv'
<1>0. st \in Start!StoreRecords /\ acts \in 0..MoveActs /\ MoveActs \in Nat /\ Fixed # {}
  BY DEF Start!MigrationIInv, Start!StoreTypeOK, Start!MigrationAssumption
<1>1. Start!StoreTypeOK' BY StartCheckTyped DEF Start!MigrationIInv
<1>2. Start!OldIsKnown'
  BY <1>0 DEF Start!MigrationIInv, Start!CheckKey, Start!checked, Start!needs, Start!present, Start!OldIsKnown
<1>3. Start!MixesHaveTracks'
  BY <1>0 DEF Start!MigrationIInv, Start!CheckKey, Start!checked, Start!needs, Start!present, Start!MixesHaveTracks
<1>4. Start!ChecksFixed'
  BY <1>0 DEF Start!MigrationIInv, Start!CheckKey, Start!checked, Start!needs, Start!present, Start!ChecksFixed
<1>5. Start!WholeSoFar'
  BY <1>0 DEF Start!MigrationIInv, Start!CheckKey, Start!checked, Start!needs, Start!present, Start!StoreRecords,
     Start!Keys, Start!Values, Start!None, Start!OldIsKnown, Start!MixesHaveTracks, Start!ChecksFixed, Start!WholeSoFar, Start!Moved, Start!Untouched, Start!NothingReverts
<1>6. Start!NothingReverts'
  BY <1>0 DEF Start!MigrationIInv, Start!CheckKey, Start!checked, Start!needs, Start!present, Start!NothingReverts
<1> QED BY <1>1, <1>2, <1>3, <1>4, <1>5, <1>6 DEF Start!MigrationIInv

LEMMA StartCheckFailed ==
  ASSUME Start!MigrationAssumption, Start!MigrationIInv, Start!CheckFailed
  PROVE  Start!MigrationIInv'
<1>0. st \in Start!StoreRecords /\ acts \in 0..MoveActs /\ MoveActs \in Nat /\ Fixed # {}
  BY DEF Start!MigrationIInv, Start!StoreTypeOK, Start!MigrationAssumption
<1>1. Start!StoreTypeOK' BY <1>0 DEF Start!CheckFailed, Start!StoreTypeOK, Start!StoreRecords
<1>2. Start!OldIsKnown' BY <1>0 DEF Start!MigrationIInv, Start!CheckFailed, Start!OldIsKnown
<1>3. Start!MixesHaveTracks' BY <1>0 DEF Start!MigrationIInv, Start!CheckFailed, Start!MixesHaveTracks
<1>4. Start!ChecksFixed' BY <1>0 DEF Start!MigrationIInv, Start!CheckFailed, Start!ChecksFixed
<1>5. Start!WholeSoFar'
  BY <1>0 DEF Start!MigrationIInv, Start!CheckFailed, Start!WholeSoFar, Start!Moved, Start!Untouched
<1>6. Start!NothingReverts' BY <1>0 DEF Start!MigrationIInv, Start!CheckFailed, Start!NothingReverts
<1> QED BY <1>1, <1>2, <1>3, <1>4, <1>5, <1>6 DEF Start!MigrationIInv

LEMMA StartCopyKey ==
  ASSUME Start!MigrationAssumption, Start!MigrationIInv, Start!CopyKey
  PROVE  Start!MigrationIInv'
<1>0. st \in Start!StoreRecords /\ acts \in 0..MoveActs /\ MoveActs \in Nat /\ Fixed # {}
  BY DEF Start!MigrationIInv, Start!StoreTypeOK, Start!MigrationAssumption
<1>1. Start!StoreTypeOK' BY StartCopyTyped DEF Start!MigrationIInv
<1>2. Start!OldIsKnown' BY <1>0 DEF Start!MigrationIInv, Start!CopyKey, Start!next, Start!copied, Start!OldIsKnown
<1>3. Start!MixesHaveTracks'
  BY <1>0 DEF Start!MigrationIInv, Start!CopyKey, Start!next, Start!copied, Start!MixesHaveTracks
<1>4. Start!ChecksFixed' BY <1>0 DEF Start!MigrationIInv, Start!CopyKey, Start!next, Start!copied, Start!ChecksFixed
<1>5. Start!WholeSoFar'
  BY <1>0 DEF Start!MigrationIInv, Start!CopyKey, Start!next, Start!copied, Start!WholeSoFar, Start!Moved,
     Start!Untouched, Start!StoreRecords
<1>6. Start!NothingReverts'
  BY <1>0 DEF Start!MigrationIInv, Start!CopyKey, Start!next, Start!copied, Start!NothingReverts
<1> QED BY <1>1, <1>2, <1>3, <1>4, <1>5, <1>6 DEF Start!MigrationIInv

LEMMA StartCopyFailed ==
  ASSUME Start!MigrationAssumption, Start!MigrationIInv, Start!CopyFailed
  PROVE  Start!MigrationIInv'
<1>0. st \in Start!StoreRecords /\ acts \in 0..MoveActs /\ MoveActs \in Nat /\ Fixed # {}
  BY DEF Start!MigrationIInv, Start!StoreTypeOK, Start!MigrationAssumption
<1>1. Start!StoreTypeOK' BY StartCopyTyped DEF Start!MigrationIInv
<1>2. Start!OldIsKnown' BY <1>0 DEF Start!MigrationIInv, Start!CopyFailed, Start!next, Start!copied, Start!OldIsKnown
<1>3. Start!MixesHaveTracks'
  BY <1>0 DEF Start!MigrationIInv, Start!CopyFailed, Start!next, Start!copied, Start!MixesHaveTracks
<1>4. Start!ChecksFixed'
  BY <1>0 DEF Start!MigrationIInv, Start!CopyFailed, Start!next, Start!copied, Start!ChecksFixed
<1>5. Start!WholeSoFar'
  BY <1>0 DEF Start!MigrationIInv, Start!CopyFailed, Start!next, Start!copied, Start!WholeSoFar, Start!Moved,
     Start!Untouched
<1>6. Start!NothingReverts'
  BY <1>0 DEF Start!MigrationIInv, Start!CopyFailed, Start!next, Start!copied, Start!NothingReverts
<1> QED BY <1>1, <1>2, <1>3, <1>4, <1>5, <1>6 DEF Start!MigrationIInv

LEMMA StartMarkDone ==
  ASSUME Start!MigrationAssumption, Start!MigrationIInv, Start!MarkDone
  PROVE  Start!MigrationIInv'
<1>0. st \in Start!StoreRecords /\ acts \in 0..MoveActs /\ MoveActs \in Nat /\ Fixed # {}
  BY DEF Start!MigrationIInv, Start!StoreTypeOK, Start!MigrationAssumption
<1>1. Start!StoreTypeOK' BY <1>0 DEF Start!MarkDone, Start!StoreTypeOK, Start!StoreRecords
<1>2. Start!OldIsKnown' BY <1>0 DEF Start!MigrationIInv, Start!MarkDone, Start!OldIsKnown
<1>3. Start!MixesHaveTracks' BY <1>0 DEF Start!MigrationIInv, Start!MarkDone, Start!MixesHaveTracks
<1>4. Start!ChecksFixed' BY <1>0 DEF Start!MigrationIInv, Start!MarkDone, Start!ChecksFixed
<1>5. Start!WholeSoFar'
  BY <1>0 DEF Start!MigrationIInv, Start!MarkDone, Start!WholeSoFar, Start!Moved, Start!Untouched
<1>6. Start!NothingReverts'
  BY <1>0 DEF Start!MigrationIInv, Start!MarkDone, Start!StoreRecords, Start!Keys, Start!Values, Start!None,
     Start!OldIsKnown, Start!MixesHaveTracks, Start!ChecksFixed, Start!WholeSoFar, Start!Moved, Start!Untouched, Start!NothingReverts
<1> QED BY <1>1, <1>2, <1>3, <1>4, <1>5, <1>6 DEF Start!MigrationIInv

LEMMA StartStoreSet ==
  ASSUME Start!MigrationAssumption, Start!MigrationIInv, Start!storeSet
  PROVE  Start!MigrationIInv'
<1>0. st \in Start!StoreRecords /\ acts \in 0..MoveActs /\ MoveActs \in Nat /\ Fixed # {}
  BY DEF Start!MigrationIInv, Start!StoreTypeOK, Start!MigrationAssumption
<1>1. Start!StoreTypeOK' BY StartSetTyped DEF Start!MigrationIInv
<1>2. Start!OldIsKnown'
  BY <1>0 DEF Start!MigrationIInv, Start!storeSet, Start!Act, Start!During, Start!OldIsKnown, Start!StoreRecords,
     Start!Keys, Start!Values, Start!None
<1>3. Start!MixesHaveTracks'
  BY <1>0 DEF Start!MigrationIInv, Start!storeSet, Start!Act, Start!During, Start!MixesHaveTracks
<1>4. Start!ChecksFixed' BY <1>0 DEF Start!MigrationIInv, Start!storeSet, Start!Act, Start!During, Start!ChecksFixed
<1>5. Start!WholeSoFar'
  BY <1>0 DEF Start!MigrationIInv, Start!storeSet, Start!Act, Start!During, Start!WholeSoFar, Start!Moved,
     Start!Untouched, Start!StoreRecords, Start!Keys, Start!Values, Start!None
<1>6. Start!NothingReverts'
  BY <1>0 DEF Start!MigrationIInv, Start!storeSet, Start!Act, Start!During, Start!NothingReverts, Start!StoreRecords
<1> QED BY <1>1, <1>2, <1>3, <1>4, <1>5, <1>6 DEF Start!MigrationIInv

LEMMA StartAppStarted ==
  ASSUME Start!MigrationAssumption, Start!MigrationIInv, Start!AppStarted
  PROVE  Start!MigrationIInv'
<1>0. st \in Start!StoreRecords /\ acts \in 0..MoveActs /\ MoveActs \in Nat /\ Fixed # {}
  BY DEF Start!MigrationIInv, Start!StoreTypeOK, Start!MigrationAssumption
<1>1. Start!StoreTypeOK' BY StartStartedTyped DEF Start!MigrationIInv
<1>2. Start!OldIsKnown'
  BY <1>0 DEF Start!MigrationIInv, Start!AppStarted, Start!Act, Start!Restarted, Start!During, Start!OldIsKnown
<1>3. Start!MixesHaveTracks'
  BY <1>0 DEF Start!MigrationIInv, Start!AppStarted, Start!Act, Start!Restarted, Start!During, Start!MixesHaveTracks
<1>4. Start!ChecksFixed'
  BY <1>0 DEF Start!MigrationIInv, Start!AppStarted, Start!Act, Start!Restarted, Start!During, Start!ChecksFixed
<1>5. Start!WholeSoFar'
  BY <1>0 DEF Start!MigrationIInv, Start!AppStarted, Start!Act, Start!Restarted, Start!During, Start!WholeSoFar,
     Start!Moved, Start!Untouched
<1>6. Start!NothingReverts'
  BY <1>0 DEF Start!MigrationIInv, Start!AppStarted, Start!Act, Start!Restarted, Start!During, Start!NothingReverts
<1> QED BY <1>1, <1>2, <1>3, <1>4, <1>5, <1>6 DEF Start!MigrationIInv

LEMMA StartNewVersionStarted ==
  ASSUME Start!MigrationAssumption, Start!MigrationIInv, Start!NewVersionStarted
  PROVE  Start!MigrationIInv'
<1>0. st \in Start!StoreRecords /\ acts \in 0..MoveActs /\ MoveActs \in Nat /\ Fixed # {}
  BY DEF Start!MigrationIInv, Start!StoreTypeOK, Start!MigrationAssumption
<1>1. Start!StoreTypeOK' BY StartStartedTyped DEF Start!MigrationIInv
<1>2. Start!OldIsKnown'
  BY <1>0 DEF Start!MigrationIInv, Start!NewVersionStarted, Start!Act, Start!Restarted, Start!During,
     Start!clear_webkit_data, Start!OldIsKnown
<1>3. Start!MixesHaveTracks'
  BY <1>0 DEF Start!MigrationIInv, Start!NewVersionStarted, Start!Act, Start!Restarted, Start!During,
     Start!clear_webkit_data, Start!MixesHaveTracks, Start!StoreRecords, Start!Keys, Start!Values, Start!None
<1>4. Start!ChecksFixed'
  BY <1>0 DEF Start!MigrationIInv, Start!NewVersionStarted, Start!Act, Start!Restarted, Start!During,
     Start!clear_webkit_data, Start!ChecksFixed
<1>5. Start!WholeSoFar'
  BY <1>0 DEF Start!MigrationIInv, Start!NewVersionStarted, Start!Act, Start!Restarted, Start!During,
     Start!clear_webkit_data, Start!WholeSoFar, Start!Moved, Start!Untouched
<1>6. Start!NothingReverts'
  BY <1>0 DEF Start!MigrationIInv, Start!NewVersionStarted, Start!Act, Start!Restarted, Start!During,
     Start!clear_webkit_data, Start!NothingReverts
<1> QED BY <1>1, <1>2, <1>3, <1>4, <1>5, <1>6 DEF Start!MigrationIInv

(* The invariant holds at the start, and through every step and stutter.   *)
LEMMA StartStarts == ASSUME Start!MigrationAssumption, Start!StoreInit PROVE Start!MigrationIInv
<1>1. MoveActs \in Nat /\ acts = 0 BY DEF Start!MigrationAssumption, Start!StoreInit
<1>2. PICK have \in SUBSET Start!Keys :
        /\ have \cap Mixes # {} => Fixed \subseteq have
        /\ LET old == [k \in Start!Keys |-> IF k \in have THEN 1 ELSE Start!None]
           IN st = [web |-> old, store |-> [k \in Start!Keys |-> Start!None], latest |-> old, at |-> "check",
                    todo |-> Fixed, found |-> {}, flag |-> FALSE, disturbed |-> {}]
  BY DEF Start!StoreInit
<1> DEFINE old == [k \in Start!Keys |-> IF k \in have THEN 1 ELSE Start!None]
           empty == [k \in Start!Keys |-> Start!None]
<1>3. st = [web |-> old, store |-> empty, latest |-> old, at |-> "check", todo |-> Fixed, found |-> {},
            flag |-> FALSE, disturbed |-> {}]
  BY <1>2
<1>4. old \in [Start!Keys -> Start!Values] /\ empty \in [Start!Keys -> Start!Values]
  BY <1>1 DEF Start!Values, Start!None
<1>5. Fixed \subseteq Start!Keys /\ Mixes \subseteq Start!Keys BY DEF Start!Keys
<1>6. \A k \in Start!Keys : old[k] # Start!None => k \in have BY DEF Start!None
<1>7. \A k \in Start!Keys : k \in have => old[k] # Start!None BY DEF Start!None
<1>8. Start!StoreTypeOK
  <2> HIDE DEF old, empty
  <2>1. acts \in 0..MoveActs BY <1>1
  <2> QED BY <1>3, <1>4, <1>5, <2>1 DEF Start!StoreTypeOK, Start!StoreRecords
<1>9. Start!OldIsKnown /\ Start!ChecksFixed /\ Start!NothingReverts
  <2> HIDE DEF old, empty
  <2> QED BY <1>3 DEF Start!OldIsKnown, Start!ChecksFixed, Start!NothingReverts
<1>10. Start!MixesHaveTracks
  <2> HIDE DEF old, empty
  <2> QED BY <1>2, <1>3, <1>5, <1>6, <1>7 DEF Start!MixesHaveTracks
<1>11. Start!WholeSoFar
  <2>1. \A k \in Start!Keys : empty[k] = Start!None OBVIOUS
  <2> HIDE DEF old, empty
  <2> QED BY <1>3, <2>1 DEF Start!WholeSoFar, Start!Untouched
<1> QED BY <1>8, <1>9, <1>10, <1>11 DEF Start!MigrationIInv

LEMMA StartStep ==
  ASSUME Start!MigrationAssumption, Start!MigrationIInv, Start!MigrationNext
  PROVE  Start!MigrationIInv'
BY StartCheckKey, StartCheckFailed, StartCopyKey, StartCopyFailed, StartMarkDone, StartStoreSet, StartAppStarted,
   StartNewVersionStarted DEF Start!MigrationNext

LEMMA StartStutters ==
  ASSUME Start!MigrationIInv, st' = st, acts' = acts
  PROVE  Start!MigrationIInv'
BY DEF Start!MigrationIInv, Start!StoreTypeOK, Start!OldIsKnown, Start!MixesHaveTracks, Start!ChecksFixed,
       Start!WholeSoFar, Start!Moved, Start!Untouched, Start!NothingReverts

(* ------------------------ the page on the phone ------------------------ *)
(* What an operation returns is a page again.                               *)
LEMMA PhoneOpened ==
  ASSUME Phone!MobileAssumption, acts \in 0..PhoneActs, acts < PhoneActs,
         NEW m \in Phone!MobileRecords, NEW id \in Songs, NEW autoplay \in BOOLEAN
  PROVE  Phone!openTrack(m, id, autoplay) \in Phone!MobileRecords
<1> DEFINE p == Phone!destroyed(m)
           o == [n |-> acts + 1, step |-> "detail"]
           opens == p.opens \cup {o}
           token == acts + 1
<1>1. p \in Phone!MobileRecords BY DEF Phone!destroyed, Phone!MobileRecords
<1>2. Phone!openTrack(m, id, autoplay) =
        [p EXCEPT !.current = id, !.view = "loading", !.speed = 1, !.pendingPlay = autoplay, !.token = token,
                  !.early = FALSE, !.opens = opens]
  BY DEF Phone!openTrack
<1>3. PhoneActs \in Nat BY DEF Phone!MobileAssumption
<1>4. token \in 0..PhoneActs /\ token \in 1..PhoneActs BY <1>3
<1>5. o \in [n : 1..PhoneActs, step : {"detail", "audio"}] BY <1>4
<1> HIDE DEF p, o, token
<1>6. opens \in SUBSET [n : 1..PhoneActs, step : {"detail", "audio"}] BY <1>1, <1>5 DEF Phone!MobileRecords
<1>7. 1 \in Phone!Speeds BY DEF Phone!Speeds
<1> HIDE DEF opens
<1> DEFINE a == [p EXCEPT !.current = id, !.view = "loading", !.speed = 1]
           b == [a EXCEPT !.pendingPlay = autoplay, !.token = token, !.early = FALSE]
<1>8. a \in Phone!MobileRecords BY <1>1, <1>7 DEF Phone!MobileRecords
<1>9. Phone!openTrack(m, id, autoplay) = [b EXCEPT !.opens = opens] BY <1>2
<1> HIDE DEF a
<1>10. b \in Phone!MobileRecords BY <1>4, <1>8 DEF Phone!MobileRecords
<1> HIDE DEF b
<1> QED BY <1>6, <1>9, <1>10 DEF Phone!MobileRecords

LEMMA PhoneOpenTyped ==
  ASSUME Phone!MobileAssumption, Phone!MobileTypeOK, Phone!Open \/ Phone!Skip
  PROVE  Phone!MobileTypeOK'
<1>1. /\ st \in Phone!MobileRecords /\ acts \in 0..PhoneActs /\ PhoneActs \in Nat /\ acts < PhoneActs
      /\ acts' = acts + 1
      /\ st.tracks \in SUBSET Songs /\ st.playing \in BOOLEAN
  BY DEF Phone!MobileTypeOK, Phone!Open, Phone!Skip, Phone!Act, Phone!MobileAssumption, Phone!MobileRecords
<1>2. PICK id \in st.tracks : st' = Phone!openTrack(st, id, FALSE) \/ st' = Phone!openTrack(st, id, st.playing)
  BY DEF Phone!Open, Phone!Skip
<1>3. st' \in Phone!MobileRecords BY <1>1, <1>2, PhoneOpened
<1> QED BY <1>1, <1>3 DEF Phone!MobileTypeOK

LEMMA PhoneToggleTyped ==
  ASSUME Phone!MobileAssumption, Phone!MobileTypeOK, Phone!togglePlay
  PROVE  Phone!MobileTypeOK'
<1>1. /\ st \in Phone!MobileRecords /\ acts \in 0..PhoneActs /\ PhoneActs \in Nat /\ acts < PhoneActs
      /\ acts' = acts + 1
      /\ st.current \in Songs
  BY DEF Phone!MobileTypeOK, Phone!togglePlay, Phone!Act, Phone!MobileAssumption, Phone!MobileRecords
<1> DEFINE playing == ~st.playing
<1>2. playing \in BOOLEAN OBVIOUS
<1>3. st' = IF st.engine = Phone!None THEN Phone!openTrack(st, st.current, TRUE)
            ELSE IF ~st.ready THEN [st EXCEPT !.pendingPlay = TRUE] ELSE [st EXCEPT !.playing = playing]
  BY DEF Phone!togglePlay
<1> HIDE DEF playing
<1>4. Phone!openTrack(st, st.current, TRUE) \in Phone!MobileRecords BY <1>1, PhoneOpened
<1>5. [st EXCEPT !.pendingPlay = TRUE] \in Phone!MobileRecords BY <1>1 DEF Phone!MobileRecords
<1>6. [st EXCEPT !.playing = playing] \in Phone!MobileRecords BY <1>1, <1>2 DEF Phone!MobileRecords
<1>7. st' \in Phone!MobileRecords BY <1>3, <1>4, <1>5, <1>6
<1> QED BY <1>1, <1>7 DEF Phone!MobileTypeOK

LEMMA PhoneSpeedTyped ==
  ASSUME Phone!MobileAssumption, Phone!MobileTypeOK, Phone!Speed
  PROVE  Phone!MobileTypeOK'
<1>1. /\ st \in Phone!MobileRecords /\ acts \in 0..PhoneActs /\ PhoneActs \in Nat /\ acts < PhoneActs
      /\ acts' = acts + 1
  BY DEF Phone!MobileTypeOK, Phone!Speed, Phone!Act, Phone!MobileAssumption
<1>2. PICK rate \in Phone!Speeds : st' = Phone!setSpeed(st, rate) BY DEF Phone!Speed
<1>3. [st EXCEPT !.speed = rate, !.early = TRUE] \in Phone!MobileRecords BY <1>1 DEF Phone!MobileRecords
<1>4. [st EXCEPT !.speed = rate, !.rate = rate, !.early = FALSE] \in Phone!MobileRecords
  BY <1>1 DEF Phone!MobileRecords
<1>5. st' \in Phone!MobileRecords BY <1>2, <1>3, <1>4 DEF Phone!setSpeed
<1> QED BY <1>1, <1>5 DEF Phone!MobileTypeOK

LEMMA PhoneLibraryTyped ==
  ASSUME Phone!MobileAssumption, Phone!MobileTypeOK, Phone!LibraryArrives
  PROVE  Phone!MobileTypeOK'
<1>1. st \in Phone!MobileRecords /\ acts \in 0..PhoneActs /\ acts' = acts
  BY DEF Phone!MobileTypeOK, Phone!LibraryArrives
<1>2. PICK answer \in st.loads : st' = [st EXCEPT !.loads = @ \ {answer}, !.tracks = answer]
  BY DEF Phone!LibraryArrives
<1> DEFINE loads == st.loads \ {answer}
<1>3. loads \in SUBSET SUBSET Songs /\ answer \in SUBSET Songs BY <1>1 DEF Phone!MobileRecords
<1>4. st' = [st EXCEPT !.loads = loads, !.tracks = answer] BY <1>2
<1> HIDE DEF loads
<1>5. st' \in Phone!MobileRecords BY <1>1, <1>3, <1>4 DEF Phone!MobileRecords
<1> QED BY <1>1, <1>5 DEF Phone!MobileTypeOK

LEMMA PhoneDeleteTyped ==
  ASSUME Phone!MobileAssumption, Phone!MobileTypeOK, Phone!deleteTrack
  PROVE  Phone!MobileTypeOK'
<1>1. st \in Phone!MobileRecords /\ acts \in 0..PhoneActs /\ acts' = acts
  BY DEF Phone!MobileTypeOK, Phone!deleteTrack
<1>2. PICK id \in st.deletes, refused \in BOOLEAN :
        st' = Phone!gone([st EXCEPT !.deletes = @ \ {id}, !.server = IF refused THEN @ ELSE @ \ {id}], id)
  BY DEF Phone!deleteTrack
<1> DEFINE deletes == st.deletes \ {id}
           kept == IF refused THEN st.server ELSE st.server \ {id}
           q == [st EXCEPT !.deletes = deletes, !.server = kept]
           d == Phone!destroyed(q)
<1>3. deletes \in SUBSET Songs /\ kept \in SUBSET Songs BY <1>1 DEF Phone!MobileRecords
<1>4. st' = Phone!gone(q, id) BY <1>2
<1> HIDE DEF deletes, kept
<1>5. q \in Phone!MobileRecords BY <1>1, <1>3 DEF Phone!MobileRecords
<1> HIDE DEF q
<1>6. d \in Phone!MobileRecords BY <1>5 DEF Phone!destroyed, Phone!MobileRecords
<1>7. st' = IF q.current = id THEN [d EXCEPT !.current = Phone!None, !.tracks = d.tracks \ {id}]
            ELSE [q EXCEPT !.tracks = q.tracks \ {id}]
  BY <1>4 DEF Phone!gone
<1> HIDE DEF d
<1>8. [d EXCEPT !.current = Phone!None, !.tracks = d.tracks \ {id}] \in Phone!MobileRecords
  BY <1>6 DEF Phone!MobileRecords
<1>9. [q EXCEPT !.tracks = q.tracks \ {id}] \in Phone!MobileRecords BY <1>5 DEF Phone!MobileRecords
<1>10. st' \in Phone!MobileRecords BY <1>7, <1>8, <1>9
<1> QED BY <1>1, <1>10 DEF Phone!MobileTypeOK

LEMMA PhoneOpen ==
  ASSUME Phone!MobileAssumption, Phone!MobileIInv, Phone!Open
  PROVE  Phone!MobileIInv'
<1>0. st \in Phone!MobileRecords /\ acts \in 0..PhoneActs /\ PhoneActs \in Nat /\ Phone!None \notin Songs
  BY DEF Phone!MobileIInv, Phone!MobileTypeOK, Phone!MobileAssumption
<1>1. Phone!MobileTypeOK' BY PhoneOpenTyped DEF Phone!MobileIInv
<1>2. Phone!NotYetUp'
  BY <1>0 DEF Phone!MobileIInv, Phone!Open, Phone!Act, Phone!openTrack, Phone!destroyed, Phone!NotYetUp,
     Phone!outdated
<1>3. Phone!EngineAtSpeed'
  BY <1>0 DEF Phone!MobileIInv, Phone!Open, Phone!Act, Phone!openTrack, Phone!destroyed, Phone!EngineAtSpeed
<1>4. Phone!OpensApart'
  BY <1>0 DEF Phone!MobileIInv, Phone!Open, Phone!Act, Phone!openTrack, Phone!destroyed, Phone!OpensApart,
     Phone!MobileRecords
<1>5. Phone!NoGhostAudio'
  BY <1>0 DEF Phone!MobileIInv, Phone!Open, Phone!Act, Phone!openTrack, Phone!destroyed, Phone!NoGhostAudio
<1>6. Phone!SoundsAsShown'
  BY <1>0 DEF Phone!MobileIInv, Phone!Open, Phone!Act, Phone!openTrack, Phone!destroyed, Phone!SoundsAsShown,
     Phone!laneActive
<1> QED BY <1>1, <1>2, <1>3, <1>4, <1>5, <1>6 DEF Phone!MobileIInv

LEMMA PhoneSkip ==
  ASSUME Phone!MobileAssumption, Phone!MobileIInv, Phone!Skip
  PROVE  Phone!MobileIInv'
<1>0. st \in Phone!MobileRecords /\ acts \in 0..PhoneActs /\ PhoneActs \in Nat /\ Phone!None \notin Songs
  BY DEF Phone!MobileIInv, Phone!MobileTypeOK, Phone!MobileAssumption
<1>1. Phone!MobileTypeOK' BY PhoneOpenTyped DEF Phone!MobileIInv
<1>2. Phone!NotYetUp'
  BY <1>0 DEF Phone!MobileIInv, Phone!Skip, Phone!Act, Phone!openTrack, Phone!destroyed, Phone!NotYetUp,
     Phone!outdated
<1>3. Phone!EngineAtSpeed'
  BY <1>0 DEF Phone!MobileIInv, Phone!Skip, Phone!Act, Phone!openTrack, Phone!destroyed, Phone!EngineAtSpeed
<1>4. Phone!OpensApart'
  BY <1>0 DEF Phone!MobileIInv, Phone!Skip, Phone!Act, Phone!openTrack, Phone!destroyed, Phone!OpensApart,
     Phone!MobileRecords
<1>5. Phone!NoGhostAudio'
  BY <1>0 DEF Phone!MobileIInv, Phone!Skip, Phone!Act, Phone!openTrack, Phone!destroyed, Phone!NoGhostAudio
<1>6. Phone!SoundsAsShown'
  BY <1>0 DEF Phone!MobileIInv, Phone!Skip, Phone!Act, Phone!openTrack, Phone!destroyed, Phone!SoundsAsShown,
     Phone!laneActive
<1> QED BY <1>1, <1>2, <1>3, <1>4, <1>5, <1>6 DEF Phone!MobileIInv

LEMMA PhoneTogglePlay ==
  ASSUME Phone!MobileAssumption, Phone!MobileIInv, Phone!togglePlay
  PROVE  Phone!MobileIInv'
<1>0. st \in Phone!MobileRecords /\ acts \in 0..PhoneActs /\ PhoneActs \in Nat /\ Phone!None \notin Songs
  BY DEF Phone!MobileIInv, Phone!MobileTypeOK, Phone!MobileAssumption
<1>1. Phone!MobileTypeOK' BY PhoneToggleTyped DEF Phone!MobileIInv
<1>2. Phone!NotYetUp'
  BY <1>0 DEF Phone!MobileIInv, Phone!togglePlay, Phone!Act, Phone!openTrack, Phone!destroyed, Phone!NotYetUp,
     Phone!outdated
<1>3. Phone!EngineAtSpeed'
  BY <1>0 DEF Phone!MobileIInv, Phone!togglePlay, Phone!Act, Phone!openTrack, Phone!destroyed, Phone!EngineAtSpeed
<1>4. Phone!OpensApart'
  BY <1>0 DEF Phone!MobileIInv, Phone!togglePlay, Phone!Act, Phone!openTrack, Phone!destroyed, Phone!OpensApart,
     Phone!MobileRecords
<1>5. Phone!NoGhostAudio'
  BY <1>0 DEF Phone!MobileIInv, Phone!togglePlay, Phone!Act, Phone!openTrack, Phone!destroyed, Phone!NoGhostAudio
<1>6. Phone!SoundsAsShown'
  BY <1>0 DEF Phone!MobileIInv, Phone!togglePlay, Phone!Act, Phone!openTrack, Phone!destroyed, Phone!SoundsAsShown,
     Phone!laneActive
<1> QED BY <1>1, <1>2, <1>3, <1>4, <1>5, <1>6 DEF Phone!MobileIInv

LEMMA PhoneOnEnded ==
  ASSUME Phone!MobileAssumption, Phone!MobileIInv, Phone!onEnded
  PROVE  Phone!MobileIInv'
<1>0. st \in Phone!MobileRecords /\ acts \in 0..PhoneActs /\ PhoneActs \in Nat /\ Phone!None \notin Songs
  BY DEF Phone!MobileIInv, Phone!MobileTypeOK, Phone!MobileAssumption
<1>1. Phone!MobileTypeOK' BY <1>0 DEF Phone!onEnded, Phone!MobileTypeOK, Phone!MobileRecords
<1>2. Phone!NotYetUp' BY <1>0 DEF Phone!MobileIInv, Phone!onEnded, Phone!NotYetUp, Phone!outdated
<1>3. Phone!EngineAtSpeed' BY <1>0 DEF Phone!MobileIInv, Phone!onEnded, Phone!EngineAtSpeed
<1>4. Phone!OpensApart' BY <1>0 DEF Phone!MobileIInv, Phone!onEnded, Phone!OpensApart
<1>5. Phone!NoGhostAudio' BY <1>0 DEF Phone!MobileIInv, Phone!onEnded, Phone!NoGhostAudio
<1>6. Phone!SoundsAsShown' BY <1>0 DEF Phone!MobileIInv, Phone!onEnded, Phone!SoundsAsShown, Phone!laneActive
<1> QED BY <1>1, <1>2, <1>3, <1>4, <1>5, <1>6 DEF Phone!MobileIInv

LEMMA PhoneSpeed ==
  ASSUME Phone!MobileAssumption, Phone!MobileIInv, Phone!Speed
  PROVE  Phone!MobileIInv'
<1>0. st \in Phone!MobileRecords /\ acts \in 0..PhoneActs /\ PhoneActs \in Nat /\ Phone!None \notin Songs
  BY DEF Phone!MobileIInv, Phone!MobileTypeOK, Phone!MobileAssumption
<1>1. Phone!MobileTypeOK' BY PhoneSpeedTyped DEF Phone!MobileIInv
<1>2. Phone!NotYetUp'
  BY <1>0 DEF Phone!MobileIInv, Phone!Speed, Phone!Act, Phone!setSpeed, Phone!NotYetUp, Phone!outdated
<1>3. Phone!EngineAtSpeed' BY <1>0 DEF Phone!MobileIInv, Phone!Speed, Phone!Act, Phone!setSpeed, Phone!EngineAtSpeed
<1>4. Phone!OpensApart'
  BY <1>0 DEF Phone!MobileIInv, Phone!Speed, Phone!Act, Phone!setSpeed, Phone!OpensApart, Phone!MobileRecords
<1>5. Phone!NoGhostAudio' BY <1>0 DEF Phone!MobileIInv, Phone!Speed, Phone!Act, Phone!setSpeed, Phone!NoGhostAudio
<1>6. Phone!SoundsAsShown'
  BY <1>0 DEF Phone!MobileIInv, Phone!Speed, Phone!Act, Phone!setSpeed, Phone!SoundsAsShown, Phone!laneActive
<1> QED BY <1>1, <1>2, <1>3, <1>4, <1>5, <1>6 DEF Phone!MobileIInv

LEMMA PhoneLoadLibrary ==
  ASSUME Phone!MobileAssumption, Phone!MobileIInv, Phone!loadLibrary
  PROVE  Phone!MobileIInv'
<1>0. st \in Phone!MobileRecords /\ acts \in 0..PhoneActs /\ PhoneActs \in Nat /\ Phone!None \notin Songs
  BY DEF Phone!MobileIInv, Phone!MobileTypeOK, Phone!MobileAssumption
<1>1. Phone!MobileTypeOK' BY <1>0 DEF Phone!loadLibrary, Phone!Act, Phone!MobileTypeOK, Phone!MobileRecords
<1>2. Phone!NotYetUp' BY <1>0 DEF Phone!MobileIInv, Phone!loadLibrary, Phone!Act, Phone!NotYetUp, Phone!outdated
<1>3. Phone!EngineAtSpeed' BY <1>0 DEF Phone!MobileIInv, Phone!loadLibrary, Phone!Act, Phone!EngineAtSpeed
<1>4. Phone!OpensApart'
  BY <1>0 DEF Phone!MobileIInv, Phone!loadLibrary, Phone!Act, Phone!OpensApart, Phone!MobileRecords
<1>5. Phone!NoGhostAudio' BY <1>0 DEF Phone!MobileIInv, Phone!loadLibrary, Phone!Act, Phone!NoGhostAudio
<1>6. Phone!SoundsAsShown'
  BY <1>0 DEF Phone!MobileIInv, Phone!loadLibrary, Phone!Act, Phone!SoundsAsShown, Phone!laneActive
<1> QED BY <1>1, <1>2, <1>3, <1>4, <1>5, <1>6 DEF Phone!MobileIInv

LEMMA PhoneLibraryArrives ==
  ASSUME Phone!MobileAssumption, Phone!MobileIInv, Phone!LibraryArrives
  PROVE  Phone!MobileIInv'
<1>0. st \in Phone!MobileRecords /\ acts \in 0..PhoneActs /\ PhoneActs \in Nat /\ Phone!None \notin Songs
  BY DEF Phone!MobileIInv, Phone!MobileTypeOK, Phone!MobileAssumption
<1>1. Phone!MobileTypeOK' BY PhoneLibraryTyped DEF Phone!MobileIInv
<1>2. Phone!NotYetUp' BY <1>0 DEF Phone!MobileIInv, Phone!LibraryArrives, Phone!NotYetUp, Phone!outdated
<1>3. Phone!EngineAtSpeed' BY <1>0 DEF Phone!MobileIInv, Phone!LibraryArrives, Phone!EngineAtSpeed
<1>4. Phone!OpensApart' BY <1>0 DEF Phone!MobileIInv, Phone!LibraryArrives, Phone!OpensApart
<1>5. Phone!NoGhostAudio' BY <1>0 DEF Phone!MobileIInv, Phone!LibraryArrives, Phone!NoGhostAudio
<1>6. Phone!SoundsAsShown' BY <1>0 DEF Phone!MobileIInv, Phone!LibraryArrives, Phone!SoundsAsShown, Phone!laneActive
<1> QED BY <1>1, <1>2, <1>3, <1>4, <1>5, <1>6 DEF Phone!MobileIInv

LEMMA PhoneLibraryFails ==
  ASSUME Phone!MobileAssumption, Phone!MobileIInv, Phone!LibraryFails
  PROVE  Phone!MobileIInv'
<1>0. st \in Phone!MobileRecords /\ acts \in 0..PhoneActs /\ PhoneActs \in Nat /\ Phone!None \notin Songs
  BY DEF Phone!MobileIInv, Phone!MobileTypeOK, Phone!MobileAssumption
<1>1. Phone!MobileTypeOK' BY <1>0 DEF Phone!LibraryFails, Phone!MobileTypeOK, Phone!MobileRecords
<1>2. Phone!NotYetUp' BY <1>0 DEF Phone!MobileIInv, Phone!LibraryFails, Phone!NotYetUp, Phone!outdated
<1>3. Phone!EngineAtSpeed' BY <1>0 DEF Phone!MobileIInv, Phone!LibraryFails, Phone!EngineAtSpeed
<1>4. Phone!OpensApart' BY <1>0 DEF Phone!MobileIInv, Phone!LibraryFails, Phone!OpensApart
<1>5. Phone!NoGhostAudio' BY <1>0 DEF Phone!MobileIInv, Phone!LibraryFails, Phone!NoGhostAudio
<1>6. Phone!SoundsAsShown' BY <1>0 DEF Phone!MobileIInv, Phone!LibraryFails, Phone!SoundsAsShown, Phone!laneActive
<1> QED BY <1>1, <1>2, <1>3, <1>4, <1>5, <1>6 DEF Phone!MobileIInv

LEMMA PhoneDeleteClicked ==
  ASSUME Phone!MobileAssumption, Phone!MobileIInv, Phone!DeleteClicked
  PROVE  Phone!MobileIInv'
<1>0. st \in Phone!MobileRecords /\ acts \in 0..PhoneActs /\ PhoneActs \in Nat /\ Phone!None \notin Songs
  BY DEF Phone!MobileIInv, Phone!MobileTypeOK, Phone!MobileAssumption
<1>1. Phone!MobileTypeOK' BY <1>0 DEF Phone!DeleteClicked, Phone!Act, Phone!MobileTypeOK, Phone!MobileRecords
<1>2. Phone!NotYetUp' BY <1>0 DEF Phone!MobileIInv, Phone!DeleteClicked, Phone!Act, Phone!NotYetUp, Phone!outdated
<1>3. Phone!EngineAtSpeed' BY <1>0 DEF Phone!MobileIInv, Phone!DeleteClicked, Phone!Act, Phone!EngineAtSpeed
<1>4. Phone!OpensApart'
  BY <1>0 DEF Phone!MobileIInv, Phone!DeleteClicked, Phone!Act, Phone!OpensApart, Phone!MobileRecords
<1>5. Phone!NoGhostAudio' BY <1>0 DEF Phone!MobileIInv, Phone!DeleteClicked, Phone!Act, Phone!NoGhostAudio
<1>6. Phone!SoundsAsShown'
  BY <1>0 DEF Phone!MobileIInv, Phone!DeleteClicked, Phone!Act, Phone!SoundsAsShown, Phone!laneActive
<1> QED BY <1>1, <1>2, <1>3, <1>4, <1>5, <1>6 DEF Phone!MobileIInv

LEMMA PhoneDeleteTrack ==
  ASSUME Phone!MobileAssumption, Phone!MobileIInv, Phone!deleteTrack
  PROVE  Phone!MobileIInv'
<1>0. st \in Phone!MobileRecords /\ acts \in 0..PhoneActs /\ PhoneActs \in Nat /\ Phone!None \notin Songs
  BY DEF Phone!MobileIInv, Phone!MobileTypeOK, Phone!MobileAssumption
<1>1. Phone!MobileTypeOK' BY PhoneDeleteTyped DEF Phone!MobileIInv
<1>2. Phone!NotYetUp'
  BY <1>0 DEF Phone!MobileIInv, Phone!deleteTrack, Phone!gone, Phone!destroyed, Phone!NotYetUp, Phone!outdated
<1>3. Phone!EngineAtSpeed'
  BY <1>0 DEF Phone!MobileIInv, Phone!deleteTrack, Phone!gone, Phone!destroyed, Phone!EngineAtSpeed
<1>4. Phone!OpensApart' BY <1>0 DEF Phone!MobileIInv, Phone!deleteTrack, Phone!gone, Phone!destroyed, Phone!OpensApart
<1>5. Phone!NoGhostAudio'
  BY <1>0 DEF Phone!MobileIInv, Phone!deleteTrack, Phone!gone, Phone!destroyed, Phone!NoGhostAudio
<1>6. Phone!SoundsAsShown'
  BY <1>0 DEF Phone!MobileIInv, Phone!deleteTrack, Phone!gone, Phone!destroyed, Phone!SoundsAsShown, Phone!laneActive
<1> QED BY <1>1, <1>2, <1>3, <1>4, <1>5, <1>6 DEF Phone!MobileIInv

(* The details of a track, four ways: out of date, in order with the audio  *)
(* asked for, failed before and failed after they were taken over.          *)
LEMMA PhoneDetailTaken ==
  ASSUME Phone!MobileAssumption, Phone!MobileTypeOK, Phone!DetailArrives
  PROVE  \E o \in st.opens, b \in [n : 1..PhoneActs, step : {"detail", "audio"}] :
           /\ o.step = "detail" /\ b.n = o.n /\ b.step = "audio" /\ acts' = acts /\ st' \in Phone!MobileRecords
           /\ st'.token = st.token /\ st'.current = st.current /\ st'.ready = st.ready /\ st'.early = st.early
           /\ st'.speed = st.speed
           /\ \/ /\ st'.opens = st.opens \ {o} /\ st'.engine = st.engine /\ st'.rate = st.rate
                 /\ st'.heard = st.heard /\ st'.muted = st.muted /\ st'.solo = st.solo
              \/ /\ ~Phone!outdated(o) /\ st'.opens = (st.opens \ {o}) \cup {b}
                 /\ st'.engine = st.current /\ st'.rate = 1
              \/ ~Phone!outdated(o) /\ st'.opens = st.opens \ {o} /\ st'.engine = st.engine /\ st'.rate = st.rate
<1>1. st \in Phone!MobileRecords BY DEF Phone!MobileTypeOK
<1>2. PICK o \in st.opens :
        /\ o.step = "detail" /\ acts' = acts
        /\ LET q == [st EXCEPT !.opens = @ \ {o}]
               detailed == [q EXCEPT !.muted = {}, !.solo = {}, !.view = "shown"]
               started == [detailed EXCEPT !.engine = st.current, !.rate = 1, !.heard = PhoneLanes,
                                           !.opens = @ \cup {[o EXCEPT !.step = "audio"]}]
           IN \/ (Phone!outdated(o) \/ st.current = Phone!None) /\ st' = q
              \/ ~Phone!outdated(o) /\ st.current # Phone!None /\ st' = started
              \/ ~Phone!outdated(o) /\ st.current # Phone!None /\ st' = [q EXCEPT !.view = "error"]
              \/ ~Phone!outdated(o) /\ st.current # Phone!None /\ st' = [detailed EXCEPT !.view = "error"]
  BY DEF Phone!DetailArrives
<1> DEFINE b == [o EXCEPT !.step = "audio"]
           q == [st EXCEPT !.opens = st.opens \ {o}]
           d == [q EXCEPT !.muted = {}, !.solo = {}, !.view = "shown"]
           opens == d.opens \cup {b}
<1>3. b \in [n : 1..PhoneActs, step : {"detail", "audio"}] /\ b.n = o.n /\ b.step = "audio"
  BY <1>1 DEF Phone!MobileRecords
<1>4. /\ q \in Phone!MobileRecords /\ q.opens = st.opens \ {o} /\ q.token = st.token /\ q.current = st.current
      /\ q.ready = st.ready /\ q.early = st.early /\ q.speed = st.speed /\ q.engine = st.engine /\ q.rate = st.rate
      /\ q.heard = st.heard /\ q.muted = st.muted /\ q.solo = st.solo
  BY <1>1 DEF Phone!MobileRecords
<1>5. \/ st' = q
      \/ ~Phone!outdated(o)
            /\ st' = [d EXCEPT !.engine = st.current, !.rate = 1, !.heard = PhoneLanes, !.opens = opens]
      \/ st' = [q EXCEPT !.view = "error"]
      \/ ~Phone!outdated(o) /\ st' = [d EXCEPT !.view = "error"]
  BY <1>2
<1> HIDE DEF b, q
<1>6. /\ d \in Phone!MobileRecords /\ d.opens = q.opens /\ d.token = q.token /\ d.current = q.current
      /\ d.ready = q.ready /\ d.early = q.early /\ d.speed = q.speed /\ d.engine = q.engine /\ d.rate = q.rate
  BY <1>4 DEF Phone!MobileRecords
<1> HIDE DEF d
<1>7. opens \in SUBSET [n : 1..PhoneActs, step : {"detail", "audio"}] /\ opens = (st.opens \ {o}) \cup {b}
  BY <1>3, <1>4, <1>6 DEF Phone!MobileRecords
<1> HIDE DEF opens
<1>8. CASE st' = q BY <1>2, <1>3, <1>4, <1>8
<1>9. CASE ~Phone!outdated(o)
           /\ st' = [d EXCEPT !.engine = st.current, !.rate = 1, !.heard = PhoneLanes, !.opens = opens]
  <2>1. st.current \in Songs \cup {Phone!None} /\ 1 \in Phone!Speeds
    BY <1>1 DEF Phone!MobileRecords, Phone!Speeds
  <2>2. PhoneLanes \in SUBSET PhoneLanes OBVIOUS
  <2>3. /\ st' \in Phone!MobileRecords /\ st'.opens = opens /\ st'.engine = st.current /\ st'.rate = 1
        /\ st'.token = d.token /\ st'.current = d.current /\ st'.ready = d.ready /\ st'.early = d.early
        /\ st'.speed = d.speed
    BY <1>6, <1>7, <1>9, <2>1, <2>2 DEF Phone!MobileRecords
  <2> QED BY <1>2, <1>3, <1>4, <1>6, <1>7, <1>9, <2>3
<1>10. CASE st' = [q EXCEPT !.view = "error"]
  <2>1. /\ st' \in Phone!MobileRecords /\ st'.opens = q.opens /\ st'.engine = q.engine /\ st'.rate = q.rate
        /\ st'.token = q.token /\ st'.current = q.current /\ st'.ready = q.ready /\ st'.early = q.early
        /\ st'.speed = q.speed /\ st'.heard = q.heard /\ st'.muted = q.muted /\ st'.solo = q.solo
    BY <1>4, <1>10 DEF Phone!MobileRecords
  <2> QED BY <1>2, <1>3, <1>4, <2>1
<1>11. CASE ~Phone!outdated(o) /\ st' = [d EXCEPT !.view = "error"]
  <2>1. /\ st' \in Phone!MobileRecords /\ st'.opens = d.opens /\ st'.engine = d.engine /\ st'.rate = d.rate
        /\ st'.token = d.token /\ st'.current = d.current /\ st'.ready = d.ready /\ st'.early = d.early
        /\ st'.speed = d.speed
    BY <1>6, <1>11 DEF Phone!MobileRecords
  <2> QED BY <1>2, <1>3, <1>4, <1>6, <1>11, <2>1
<1> QED BY <1>5, <1>8, <1>9, <1>10, <1>11

LEMMA PhoneDetailArrives ==
  ASSUME Phone!MobileAssumption, Phone!MobileIInv, Phone!DetailArrives
  PROVE  Phone!MobileIInv'
<1>1. PICK o \in st.opens, b \in [n : 1..PhoneActs, step : {"detail", "audio"}] :
           /\ o.step = "detail" /\ b.n = o.n /\ b.step = "audio" /\ acts' = acts /\ st' \in Phone!MobileRecords
           /\ st'.token = st.token /\ st'.current = st.current /\ st'.ready = st.ready /\ st'.early = st.early
           /\ st'.speed = st.speed
           /\ \/ /\ st'.opens = st.opens \ {o} /\ st'.engine = st.engine /\ st'.rate = st.rate
                 /\ st'.heard = st.heard /\ st'.muted = st.muted /\ st'.solo = st.solo
              \/ /\ ~Phone!outdated(o) /\ st'.opens = (st.opens \ {o}) \cup {b}
                 /\ st'.engine = st.current /\ st'.rate = 1
              \/ ~Phone!outdated(o) /\ st'.opens = st.opens \ {o} /\ st'.engine = st.engine /\ st'.rate = st.rate
  BY PhoneDetailTaken DEF Phone!MobileIInv
<1>2. Phone!MobileTypeOK' BY <1>1 DEF Phone!MobileIInv, Phone!MobileTypeOK
<1>3. ~Phone!outdated(o) => st.engine = Phone!None /\ ~st.ready /\ (st.early \/ st.speed = 1)
  BY <1>1 DEF Phone!MobileIInv, Phone!NotYetUp
<1>4. ~Phone!outdated(o) => \A p \in st.opens \ {o} : p.n # st.token
  BY DEF Phone!MobileIInv, Phone!OpensApart, Phone!outdated
<1>5. Phone!NotYetUp' BY <1>1, <1>4 DEF Phone!MobileIInv, Phone!NotYetUp, Phone!outdated
<1>6. Phone!EngineAtSpeed' BY <1>1, <1>3 DEF Phone!MobileIInv, Phone!EngineAtSpeed
<1>7. Phone!OpensApart' BY <1>1 DEF Phone!MobileIInv, Phone!OpensApart
<1>8. Phone!NoGhostAudio' BY <1>1 DEF Phone!MobileIInv, Phone!NoGhostAudio
<1>9. Phone!SoundsAsShown'
  BY <1>1, <1>3 DEF Phone!MobileIInv, Phone!SoundsAsShown, Phone!laneActive
<1> QED BY <1>2, <1>5, <1>6, <1>7, <1>8, <1>9 DEF Phone!MobileIInv

(* The switches are applied to the engine, when there is one.               *)
LEMMA PhoneMixed ==
  ASSUME NEW m \in Phone!MobileRecords
  PROVE  LET a == Phone!applyMix(m)
         IN /\ a \in Phone!MobileRecords
            /\ a.opens = m.opens /\ a.token = m.token /\ a.current = m.current /\ a.ready = m.ready
            /\ a.early = m.early /\ a.speed = m.speed /\ a.engine = m.engine /\ a.rate = m.rate
            /\ a.muted = m.muted /\ a.solo = m.solo /\ a.view = m.view
            /\ m.engine # Phone!None => a.heard = {l \in PhoneLanes : Phone!laneActive(m, l)}
<1> DEFINE heard == {l \in PhoneLanes : Phone!laneActive(m, l)}
<1>1. heard \in SUBSET PhoneLanes OBVIOUS
<1>2. Phone!applyMix(m) = IF m.engine = Phone!None THEN m ELSE [m EXCEPT !.heard = heard] BY DEF Phone!applyMix
<1>3. heard = {l \in PhoneLanes : Phone!laneActive(m, l)} OBVIOUS
<1> HIDE DEF heard
<1>4. CASE m.engine = Phone!None BY <1>2, <1>4
<1>5. CASE m.engine # Phone!None BY <1>1, <1>2, <1>3, <1>5 DEF Phone!MobileRecords
<1> QED BY <1>4, <1>5

LEMMA PhoneAudioTaken ==
  ASSUME Phone!MobileAssumption, Phone!MobileTypeOK, Phone!AudioArrives
  PROVE  \E o \in st.opens :
           /\ o.step = "audio" /\ acts' = acts /\ st' \in Phone!MobileRecords
           /\ st'.opens = st.opens \ {o}
           /\ st'.token = st.token /\ st'.current = st.current /\ st'.early = st.early
           /\ st'.speed = st.speed /\ st'.engine = st.engine /\ st'.rate = st.rate
           /\ st'.muted = st.muted /\ st'.solo = st.solo
           /\ \/ st'.ready = st.ready /\ st'.heard = st.heard
              \/ /\ ~Phone!outdated(o)
                 /\ st.engine # Phone!None => st'.heard = {l \in PhoneLanes : Phone!laneActive(st, l)}
<1>1. st \in Phone!MobileRecords BY DEF Phone!MobileTypeOK
<1>2. PICK o \in st.opens :
        /\ o.step = "audio" /\ acts' = acts
        /\ LET q == [st EXCEPT !.opens = @ \ {o}]
               up == Phone!applyMix([q EXCEPT !.ready = TRUE])
           IN \/ Phone!outdated(o) /\ st' = q
              \/ ~Phone!outdated(o) /\
                   st' = [up EXCEPT !.pendingPlay = FALSE, !.playing = st.pendingPlay /\ st.engine # Phone!None]
              \/ ~Phone!outdated(o) /\ st' =
                   (IF st.current = Phone!None THEN q ELSE [q EXCEPT !.view = "error", !.pendingPlay = FALSE])
  BY DEF Phone!AudioArrives
<1> DEFINE q == [st EXCEPT !.opens = st.opens \ {o}]
           r == [q EXCEPT !.ready = TRUE]
           up == Phone!applyMix(r)
           playing == st.pendingPlay /\ st.engine # Phone!None
<1>3. playing \in BOOLEAN BY <1>1 DEF Phone!MobileRecords
<1>4. /\ q \in Phone!MobileRecords /\ q.opens = st.opens \ {o} /\ q.token = st.token /\ q.current = st.current
      /\ q.ready = st.ready /\ q.early = st.early /\ q.speed = st.speed /\ q.engine = st.engine /\ q.rate = st.rate
      /\ q.heard = st.heard /\ q.muted = st.muted /\ q.solo = st.solo
  BY <1>1 DEF Phone!MobileRecords
<1>5. \/ st' = q
      \/ ~Phone!outdated(o) /\ st' = [up EXCEPT !.pendingPlay = FALSE, !.playing = playing]
      \/ st' = [q EXCEPT !.view = "error", !.pendingPlay = FALSE]
  BY <1>2
<1> HIDE DEF playing, q
<1>6. CASE st' = q BY <1>2, <1>4, <1>6
<1>7. CASE st' = [q EXCEPT !.view = "error", !.pendingPlay = FALSE]
  <2>1. /\ st' \in Phone!MobileRecords /\ st'.opens = q.opens /\ st'.engine = q.engine /\ st'.rate = q.rate
        /\ st'.token = q.token /\ st'.current = q.current /\ st'.ready = q.ready /\ st'.early = q.early
        /\ st'.speed = q.speed /\ st'.heard = q.heard /\ st'.muted = q.muted /\ st'.solo = q.solo
    BY <1>4, <1>7 DEF Phone!MobileRecords
  <2> QED BY <1>2, <1>4, <2>1
<1>8. CASE ~Phone!outdated(o) /\ st' = [up EXCEPT !.pendingPlay = FALSE, !.playing = playing]
  <2>1. /\ r \in Phone!MobileRecords /\ r.opens = q.opens /\ r.token = q.token /\ r.current = q.current
        /\ r.early = q.early /\ r.speed = q.speed /\ r.engine = q.engine /\ r.rate = q.rate
        /\ r.muted = q.muted /\ r.solo = q.solo
    BY <1>4 DEF Phone!MobileRecords
  <2> HIDE DEF r
  <2>2. /\ up \in Phone!MobileRecords /\ up.opens = r.opens /\ up.token = r.token /\ up.current = r.current
        /\ up.early = r.early /\ up.speed = r.speed /\ up.engine = r.engine /\ up.rate = r.rate
        /\ up.muted = r.muted /\ up.solo = r.solo
        /\ r.engine # Phone!None => up.heard = {l \in PhoneLanes : Phone!laneActive(r, l)}
    BY <2>1, PhoneMixed
  <2> HIDE DEF up
  <2>3. {l \in PhoneLanes : Phone!laneActive(r, l)} = {l \in PhoneLanes : Phone!laneActive(st, l)}
    BY <1>4, <2>1 DEF Phone!laneActive
  <2>4. /\ st' \in Phone!MobileRecords /\ st'.opens = up.opens /\ st'.engine = up.engine /\ st'.rate = up.rate
        /\ st'.token = up.token /\ st'.current = up.current /\ st'.early = up.early
        /\ st'.speed = up.speed /\ st'.heard = up.heard /\ st'.muted = up.muted /\ st'.solo = up.solo
    BY <1>3, <1>8, <2>2 DEF Phone!MobileRecords
  <2> QED BY <1>2, <1>4, <1>8, <2>1, <2>2, <2>3, <2>4
<1> QED BY <1>5, <1>6, <1>7, <1>8

LEMMA PhoneAudioArrives ==
  ASSUME Phone!MobileAssumption, Phone!MobileIInv, Phone!AudioArrives
  PROVE  Phone!MobileIInv'
<1>1. PICK o \in st.opens :
           /\ o.step = "audio" /\ acts' = acts /\ st' \in Phone!MobileRecords
           /\ st'.opens = st.opens \ {o}
           /\ st'.token = st.token /\ st'.current = st.current /\ st'.early = st.early
           /\ st'.speed = st.speed /\ st'.engine = st.engine /\ st'.rate = st.rate
           /\ st'.muted = st.muted /\ st'.solo = st.solo
           /\ \/ st'.ready = st.ready /\ st'.heard = st.heard
              \/ /\ ~Phone!outdated(o)
                 /\ st.engine # Phone!None => st'.heard = {l \in PhoneLanes : Phone!laneActive(st, l)}
  BY PhoneAudioTaken DEF Phone!MobileIInv
<1>2. Phone!MobileTypeOK' BY <1>1 DEF Phone!MobileIInv, Phone!MobileTypeOK
<1>3. ~Phone!outdated(o) => \A p \in st.opens : p.n = st.token => p = o
  BY DEF Phone!MobileIInv, Phone!OpensApart, Phone!outdated
<1>4. Phone!NotYetUp' BY <1>1, <1>3 DEF Phone!MobileIInv, Phone!NotYetUp, Phone!outdated
<1>5. Phone!EngineAtSpeed' BY <1>1 DEF Phone!MobileIInv, Phone!EngineAtSpeed
<1>6. Phone!OpensApart' BY <1>1 DEF Phone!MobileIInv, Phone!OpensApart
<1>7. Phone!NoGhostAudio' BY <1>1 DEF Phone!MobileIInv, Phone!NoGhostAudio
<1>8. Phone!SoundsAsShown'
  <2>1. {l \in PhoneLanes : Phone!laneActive(st', l)} = {l \in PhoneLanes : Phone!laneActive(st, l)}
    BY <1>1 DEF Phone!laneActive
  <2>2. st'.engine # Phone!None => st'.early \/ st'.rate = st'.speed BY <1>5 DEF Phone!EngineAtSpeed
  <2>3. st'.ready /\ st'.engine # Phone!None => st'.heard = {l \in PhoneLanes : Phone!laneActive(st, l)}
    BY <1>1 DEF Phone!MobileIInv, Phone!SoundsAsShown
  <2> QED BY <2>1, <2>2, <2>3 DEF Phone!SoundsAsShown
<1> QED BY <1>2, <1>4, <1>5, <1>6, <1>7, <1>8 DEF Phone!MobileIInv

LEMMA PhoneSwitch ==
  ASSUME Phone!MobileAssumption, Phone!MobileIInv, Phone!Switch
  PROVE  Phone!MobileIInv'
<1>1. /\ st \in Phone!MobileRecords /\ acts \in 0..PhoneActs /\ PhoneActs \in Nat /\ acts < PhoneActs
      /\ acts' = acts + 1
  BY DEF Phone!MobileIInv, Phone!MobileTypeOK, Phone!Switch, Phone!Act, Phone!MobileAssumption
<1>2. PICK l \in PhoneLanes :
        \/ st' = Phone!applyMix([st EXCEPT !.muted = (@ \ {l}) \cup ({l} \ @)])
        \/ st' = Phone!applyMix([st EXCEPT !.solo = (@ \ {l}) \cup ({l} \ @)])
  BY DEF Phone!Switch
<1> DEFINE muted == (st.muted \ {l}) \cup ({l} \ st.muted)
           solo == (st.solo \ {l}) \cup ({l} \ st.solo)
<1>3. muted \in SUBSET PhoneLanes /\ solo \in SUBSET PhoneLanes BY <1>1 DEF Phone!MobileRecords
<1>4. st' = Phone!applyMix([st EXCEPT !.muted = muted]) \/ st' = Phone!applyMix([st EXCEPT !.solo = solo])
  BY <1>2
<1> HIDE DEF muted, solo
<1>5. PICK m \in Phone!MobileRecords :
        /\ st' = Phone!applyMix(m)
        /\ m.opens = st.opens /\ m.token = st.token /\ m.current = st.current /\ m.ready = st.ready
        /\ m.early = st.early /\ m.speed = st.speed /\ m.engine = st.engine /\ m.rate = st.rate
  <2>1. CASE st' = Phone!applyMix([st EXCEPT !.muted = muted])
    <3> DEFINE m == [st EXCEPT !.muted = muted]
    <3>1. /\ m \in Phone!MobileRecords
          /\ m.opens = st.opens /\ m.token = st.token /\ m.current = st.current /\ m.ready = st.ready
          /\ m.early = st.early /\ m.speed = st.speed /\ m.engine = st.engine /\ m.rate = st.rate
      BY <1>1, <1>3 DEF Phone!MobileRecords
    <3>2. st' = Phone!applyMix(m) BY <2>1
    <3> HIDE DEF m
    <3> QED BY <3>1, <3>2
  <2>2. CASE st' = Phone!applyMix([st EXCEPT !.solo = solo])
    <3> DEFINE m == [st EXCEPT !.solo = solo]
    <3>1. /\ m \in Phone!MobileRecords
          /\ m.opens = st.opens /\ m.token = st.token /\ m.current = st.current /\ m.ready = st.ready
          /\ m.early = st.early /\ m.speed = st.speed /\ m.engine = st.engine /\ m.rate = st.rate
      BY <1>1, <1>3 DEF Phone!MobileRecords
    <3>2. st' = Phone!applyMix(m) BY <2>2
    <3> HIDE DEF m
    <3> QED BY <3>1, <3>2
  <2> QED BY <1>4, <2>1, <2>2
<1>6. /\ st' \in Phone!MobileRecords
      /\ st'.opens = st.opens /\ st'.token = st.token /\ st'.current = st.current /\ st'.ready = st.ready
      /\ st'.early = st.early /\ st'.speed = st.speed /\ st'.engine = st.engine /\ st'.rate = st.rate
      /\ st'.muted = m.muted /\ st'.solo = m.solo
      /\ st.engine # Phone!None => st'.heard = {k \in PhoneLanes : Phone!laneActive(m, k)}
  BY <1>5, PhoneMixed
<1>7. Phone!MobileTypeOK' BY <1>1, <1>6 DEF Phone!MobileTypeOK
<1>8. Phone!NotYetUp' BY <1>6 DEF Phone!MobileIInv, Phone!NotYetUp, Phone!outdated
<1>9. Phone!EngineAtSpeed' BY <1>6 DEF Phone!MobileIInv, Phone!EngineAtSpeed
<1>10. Phone!OpensApart'
  <2>1. st.token \in Int /\ \A o \in st.opens : o.n \in Int BY <1>1 DEF Phone!MobileRecords
  <2> QED BY <1>1, <1>6, <2>1 DEF Phone!MobileIInv, Phone!OpensApart
<1>11. Phone!NoGhostAudio' BY <1>6 DEF Phone!MobileIInv, Phone!NoGhostAudio
<1>12. Phone!SoundsAsShown'
  <2>1. {k \in PhoneLanes : Phone!laneActive(st', k)} = {k \in PhoneLanes : Phone!laneActive(m, k)}
    BY <1>6 DEF Phone!laneActive
  <2> QED BY <1>6, <1>9, <2>1 DEF Phone!EngineAtSpeed, Phone!SoundsAsShown
<1> QED BY <1>7, <1>8, <1>9, <1>10, <1>11, <1>12 DEF Phone!MobileIInv

(* The invariant holds at the start, and through every step and stutter.   *)
LEMMA PhoneStarts == ASSUME Phone!MobileAssumption, Phone!MobileInit PROVE Phone!MobileIInv
<1>1. PhoneActs \in Nat /\ acts = 0 BY DEF Phone!MobileAssumption, Phone!MobileInit
<1>2. Phone!MobileTypeOK
  <2>1. acts \in 0..PhoneActs /\ 0 \in 0..PhoneActs /\ 1 \in Phone!Speeds BY <1>1 DEF Phone!Speeds
  <2>2. {Songs} \in SUBSET SUBSET Songs OBVIOUS
  <2> QED BY <2>1, <2>2 DEF Phone!MobileInit, Phone!MobileTypeOK, Phone!MobileRecords
<1>3. Phone!NotYetUp /\ Phone!EngineAtSpeed /\ Phone!NoGhostAudio /\ Phone!SoundsAsShown
  BY DEF Phone!MobileInit, Phone!NotYetUp, Phone!EngineAtSpeed, Phone!NoGhostAudio, Phone!SoundsAsShown
<1>4. Phone!OpensApart BY DEF Phone!MobileInit, Phone!OpensApart
<1> QED BY <1>2, <1>3, <1>4 DEF Phone!MobileIInv

LEMMA PhoneStep ==
  ASSUME Phone!MobileAssumption, Phone!MobileIInv, Phone!MobileNext
  PROVE  Phone!MobileIInv'
BY PhoneOpen, PhoneSkip, PhoneDetailArrives, PhoneAudioArrives, PhoneTogglePlay, PhoneOnEnded, PhoneSpeed,
   PhoneSwitch, PhoneLoadLibrary, PhoneLibraryArrives, PhoneLibraryFails, PhoneDeleteClicked, PhoneDeleteTrack
   DEF Phone!MobileNext

LEMMA PhoneStutters ==
  ASSUME Phone!MobileIInv, st' = st, acts' = acts
  PROVE  Phone!MobileIInv'
BY DEF Phone!MobileIInv, Phone!MobileTypeOK, Phone!NotYetUp, Phone!outdated, Phone!EngineAtSpeed, Phone!OpensApart,
       Phone!NoGhostAudio, Phone!SoundsAsShown, Phone!laneActive

(* ------------------------ an import on the phone ----------------------- *)
(* What an operation returns is a page again.                               *)
LEMMA ImportStateTyped ==
  ASSUME PhoneImport!None \notin Songs, NEW m \in PhoneImport!ExtractRecords, NEW j \in Songs,
         NEW status \in PhoneImport!Statuses
  PROVE  PhoneImport!onExtractState(m, j, status) \in PhoneImport!ExtractRecords
<1> SUFFICES ASSUME m.card.id = j PROVE PhoneImport!onExtractState(m, j, status) \in PhoneImport!ExtractRecords
  BY DEF PhoneImport!onExtractState
<1> DEFINE card == [m.card EXCEPT !.status = status]
           q == [m EXCEPT !.card = card]
           count == [q.splits EXCEPT ![j] = IF q.splits[j] < 2 THEN q.splits[j] + 1 ELSE q.splits[j]]
           s == [q EXCEPT !.splits = count]
           p == IF status = "done" /\ m.card.split THEN s ELSE q
           leaving == p.leaving \cup {j}
<1>1. card \in PhoneImport!Cards
  BY DEF PhoneImport!ExtractRecords, PhoneImport!Cards, PhoneImport!NoCard
<1>2. PhoneImport!onExtractState(m, j, status) =
        IF status \notin PhoneImport!Ended THEN q ELSE [p EXCEPT !.leaving = leaving]
  BY DEF PhoneImport!onExtractState, PhoneImport!split
<1> HIDE DEF card
<1>3. q \in PhoneImport!ExtractRecords BY <1>1 DEF PhoneImport!ExtractRecords
<1> HIDE DEF q
<1>4. count \in [Songs -> 0..2]
  <2>1. q.splits \in [Songs -> 0..2] /\ q.splits[j] \in 0..2 BY <1>3 DEF PhoneImport!ExtractRecords
  <2>2. (IF q.splits[j] < 2 THEN q.splits[j] + 1 ELSE q.splits[j]) \in 0..2 BY <2>1
  <2> QED BY <2>1, <2>2
<1> HIDE DEF count
<1>5. s \in PhoneImport!ExtractRecords BY <1>3, <1>4 DEF PhoneImport!ExtractRecords
<1> HIDE DEF s
<1>6. p \in PhoneImport!ExtractRecords BY <1>3, <1>5
<1> HIDE DEF p
<1>7. leaving \in SUBSET Songs BY <1>6 DEF PhoneImport!ExtractRecords
<1> HIDE DEF leaving
<1>8. [p EXCEPT !.leaving = leaving] \in PhoneImport!ExtractRecords BY <1>6, <1>7 DEF PhoneImport!ExtractRecords
<1> QED BY <1>2, <1>3, <1>8

LEMMA ImportStartTyped ==
  ASSUME PhoneImport!ExtractAssumption, PhoneImport!ExtractTypeOK, PhoneImport!startExtraction
  PROVE  PhoneImport!ExtractTypeOK'
<1>1. /\ st \in PhoneImport!ExtractRecords /\ acts \in 0..PhoneActs /\ PhoneActs \in Nat /\ acts < PhoneActs
      /\ acts' = acts + 1
  BY DEF PhoneImport!ExtractTypeOK, PhoneImport!startExtraction, PhoneImport!Act, PhoneImport!ExtractAssumption
<1>2. PICK split \in BOOLEAN :
        st' = [st EXCEPT !.card = [id |-> "asked", split |-> split, status |-> "running"],
                         !.asked = @ \cup {[n |-> acts + 1, split |-> split]},
                         !.again = @ \/ st.stream # PhoneImport!None \/ st.poll # PhoneImport!None \/ st.asked # {}]
  BY DEF PhoneImport!startExtraction
<1> DEFINE card == [id |-> "asked", split |-> split, status |-> "running"]
           asked == st.asked \cup {[n |-> acts + 1, split |-> split]}
           again == st.again \/ st.stream # PhoneImport!None \/ st.poll # PhoneImport!None \/ st.asked # {}
<1>3. card \in PhoneImport!Cards BY DEF PhoneImport!Cards, PhoneImport!Statuses
<1>4. asked \in SUBSET [n : 1..PhoneActs, split : BOOLEAN]
  <2>1. acts + 1 \in 1..PhoneActs BY <1>1
  <2>2. [n |-> acts + 1, split |-> split] \in [n : 1..PhoneActs, split : BOOLEAN] BY <2>1
  <2>3. st.asked \in SUBSET [n : 1..PhoneActs, split : BOOLEAN] BY <1>1 DEF PhoneImport!ExtractRecords
  <2> QED BY <2>2, <2>3
<1>5. again \in BOOLEAN BY <1>1 DEF PhoneImport!ExtractRecords
<1>6. st' = [st EXCEPT !.card = card, !.asked = asked, !.again = again] BY <1>2
<1> HIDE DEF card, asked, again
<1>7. st' \in PhoneImport!ExtractRecords BY <1>1, <1>3, <1>4, <1>5, <1>6 DEF PhoneImport!ExtractRecords
<1> QED BY <1>1, <1>7 DEF PhoneImport!ExtractTypeOK

LEMMA ImportAcceptedTyped ==
  ASSUME PhoneImport!ExtractAssumption, PhoneImport!ExtractTypeOK, PhoneImport!Accepted
  PROVE  PhoneImport!ExtractTypeOK'
<1>1. st \in PhoneImport!ExtractRecords /\ acts \in 0..PhoneActs /\ acts' = acts
  BY DEF PhoneImport!ExtractTypeOK, PhoneImport!Accepted
<1>2. PICK a \in st.asked, j \in Songs :
        LET q == [st EXCEPT !.asked = @ \ {a}, !.server[j] = "running"]
        IN st' = IF st.card = PhoneImport!NoCard THEN q
                 ELSE PhoneImport!followExtraction([q EXCEPT !.card.id = j], j)
  BY DEF PhoneImport!Accepted
<1> DEFINE asked == st.asked \ {a}
           states == [st.server EXCEPT ![j] = "running"]
           q == [st EXCEPT !.asked = asked, !.server = states]
           card == [st.card EXCEPT !.id = j]
           m == [q EXCEPT !.card = card]
           frames == {m.server[j]}
<1>3. asked \in SUBSET [n : 1..PhoneActs, split : BOOLEAN] BY <1>1 DEF PhoneImport!ExtractRecords
<1>4. states \in [Songs -> PhoneImport!Statuses \cup {PhoneImport!None}] /\ states[j] = "running"
  BY <1>1 DEF PhoneImport!ExtractRecords, PhoneImport!Statuses
<1>5. st.card # PhoneImport!NoCard => card \in PhoneImport!Cards
  BY <1>1 DEF PhoneImport!ExtractRecords, PhoneImport!Cards
<1>6. q.card = st.card BY <1>1 DEF PhoneImport!ExtractRecords
<1>7. st' = IF st.card = PhoneImport!NoCard THEN q ELSE [m EXCEPT !.stream = j, !.frames = frames, !.poll = PhoneImport!None]
  BY <1>2, <1>6 DEF PhoneImport!followExtraction
<1> HIDE DEF asked, states, card
<1>8. q \in PhoneImport!ExtractRecords /\ q.server = states BY <1>1, <1>3, <1>4 DEF PhoneImport!ExtractRecords
<1> HIDE DEF q
<1>9. CASE st.card = PhoneImport!NoCard BY <1>1, <1>7, <1>8, <1>9 DEF PhoneImport!ExtractTypeOK
<1>10. CASE st.card # PhoneImport!NoCard
  <2>1. m \in PhoneImport!ExtractRecords /\ m.server = states
    BY <1>5, <1>8, <1>10 DEF PhoneImport!ExtractRecords
  <2>2. frames \in SUBSET PhoneImport!Statuses BY <1>4, <2>1 DEF PhoneImport!Statuses
  <2>3. st' = [m EXCEPT !.stream = j, !.frames = frames, !.poll = PhoneImport!None] BY <1>7, <1>10
  <2> HIDE DEF m, frames
  <2>4. st' \in PhoneImport!ExtractRecords BY <2>1, <2>2, <2>3 DEF PhoneImport!ExtractRecords
  <2> QED BY <1>1, <2>4 DEF PhoneImport!ExtractTypeOK
<1> QED BY <1>9, <1>10

LEMMA ImportRefusedTyped ==
  ASSUME PhoneImport!ExtractAssumption, PhoneImport!ExtractTypeOK, PhoneImport!Refused
  PROVE  PhoneImport!ExtractTypeOK'
<1>1. st \in PhoneImport!ExtractRecords /\ acts \in 0..PhoneActs /\ acts' = acts
  BY DEF PhoneImport!ExtractTypeOK, PhoneImport!Refused
<1>2. PICK a \in st.asked : st' = [st EXCEPT !.asked = @ \ {a}, !.card = PhoneImport!NoCard]
  BY DEF PhoneImport!Refused
<1>3. PhoneImport!NoCard \in PhoneImport!Cards BY DEF PhoneImport!Cards
<1>4. st' \in PhoneImport!ExtractRecords BY <1>1, <1>2, <1>3 DEF PhoneImport!ExtractRecords
<1> QED BY <1>1, <1>4 DEF PhoneImport!ExtractTypeOK

LEMMA ImportFrameTyped ==
  ASSUME PhoneImport!ExtractAssumption, PhoneImport!ExtractTypeOK, PhoneImport!Frame
  PROVE  PhoneImport!ExtractTypeOK'
<1>1. /\ st \in PhoneImport!ExtractRecords /\ acts \in 0..PhoneActs /\ acts' = acts
      /\ PhoneImport!None \notin Songs /\ st.stream \in Songs
  BY DEF PhoneImport!ExtractTypeOK, PhoneImport!Frame, PhoneImport!ExtractAssumption, PhoneImport!ExtractRecords
<1>2. PICK status \in st.frames :
        LET q == PhoneImport!onExtractState([st EXCEPT !.frames = @ \ {status}], st.stream, status)
        IN st' = IF PhoneImport!ends(st, st.stream, status)
                 THEN [q EXCEPT !.stream = PhoneImport!None, !.frames = {}] ELSE q
  BY DEF PhoneImport!Frame
<1> DEFINE m == [st EXCEPT !.frames = st.frames \ {status}]
           q == PhoneImport!onExtractState(m, st.stream, status)
<1>3. m \in PhoneImport!ExtractRecords /\ status \in PhoneImport!Statuses BY <1>1 DEF PhoneImport!ExtractRecords
<1>4. st' = IF PhoneImport!ends(st, st.stream, status)
            THEN [q EXCEPT !.stream = PhoneImport!None, !.frames = {}] ELSE q
  BY <1>2
<1> HIDE DEF m
<1>5. q \in PhoneImport!ExtractRecords BY <1>1, <1>3, ImportStateTyped
<1> HIDE DEF q
<1>6. [q EXCEPT !.stream = PhoneImport!None, !.frames = {}] \in PhoneImport!ExtractRecords
  BY <1>5 DEF PhoneImport!ExtractRecords
<1>7. st' \in PhoneImport!ExtractRecords BY <1>4, <1>5, <1>6
<1> QED BY <1>1, <1>7 DEF PhoneImport!ExtractTypeOK

LEMMA ImportAnsweredTyped ==
  ASSUME PhoneImport!ExtractAssumption, PhoneImport!ExtractTypeOK, PhoneImport!PollAnswered
  PROVE  PhoneImport!ExtractTypeOK'
<1>1. /\ st \in PhoneImport!ExtractRecords /\ acts \in 0..PhoneActs /\ acts' = acts
      /\ PhoneImport!None \notin Songs
  BY DEF PhoneImport!ExtractTypeOK, PhoneImport!PollAnswered, PhoneImport!ExtractAssumption
<1>2. PICK p \in st.polls :
        LET q == PhoneImport!onExtractState([st EXCEPT !.polls = @ \ {p}], p.job, p.status)
        IN st' = IF PhoneImport!ends(st, p.job, p.status) THEN [q EXCEPT !.poll = PhoneImport!None] ELSE q
  BY DEF PhoneImport!PollAnswered
<1> DEFINE m == [st EXCEPT !.polls = st.polls \ {p}]
           q == PhoneImport!onExtractState(m, p.job, p.status)
<1>3. m \in PhoneImport!ExtractRecords /\ p.job \in Songs /\ p.status \in PhoneImport!Statuses
  BY <1>1 DEF PhoneImport!ExtractRecords
<1>4. st' = IF PhoneImport!ends(st, p.job, p.status) THEN [q EXCEPT !.poll = PhoneImport!None] ELSE q
  BY <1>2
<1> HIDE DEF m
<1>5. q \in PhoneImport!ExtractRecords BY <1>1, <1>3, ImportStateTyped
<1> HIDE DEF q
<1>6. [q EXCEPT !.poll = PhoneImport!None] \in PhoneImport!ExtractRecords BY <1>5 DEF PhoneImport!ExtractRecords
<1>7. st' \in PhoneImport!ExtractRecords BY <1>4, <1>5, <1>6
<1> QED BY <1>1, <1>7 DEF PhoneImport!ExtractTypeOK

LEMMA ImportBreaksTyped ==
  ASSUME PhoneImport!ExtractAssumption, PhoneImport!ExtractTypeOK, PhoneImport!StreamBreaks
  PROVE  PhoneImport!ExtractTypeOK'
<1> DEFINE poll == IF st.poll = PhoneImport!None THEN st.stream ELSE st.poll
<1>1. /\ st \in PhoneImport!ExtractRecords /\ acts \in 0..PhoneActs /\ PhoneActs \in Nat /\ acts < PhoneActs
      /\ acts' = acts + 1 /\ st' = [st EXCEPT !.stream = PhoneImport!None, !.frames = {}, !.poll = poll]
  BY DEF PhoneImport!ExtractTypeOK, PhoneImport!StreamBreaks, PhoneImport!Act, PhoneImport!ExtractAssumption,
         PhoneImport!broken
<1>2. poll \in Songs \cup {PhoneImport!None} BY <1>1 DEF PhoneImport!ExtractRecords
<1> HIDE DEF poll
<1>3. st' \in PhoneImport!ExtractRecords BY <1>1, <1>2 DEF PhoneImport!ExtractRecords
<1> QED BY <1>1, <1>3 DEF PhoneImport!ExtractTypeOK

LEMMA ImportTickTyped ==
  ASSUME PhoneImport!ExtractAssumption, PhoneImport!ExtractTypeOK, PhoneImport!FollowedIsKnown, PhoneImport!Tick
  PROVE  PhoneImport!ExtractTypeOK'
<1> DEFINE p == [job |-> st.poll, status |-> st.server[st.poll]]
           slow == st.slow \/ st.polls # {}
           polls == st.polls \cup {p}
<1>1. /\ st \in PhoneImport!ExtractRecords /\ acts \in 0..PhoneActs /\ acts' = acts /\ st.poll # PhoneImport!None
      /\ st' = [st EXCEPT !.polls = polls, !.slow = slow]
  BY DEF PhoneImport!ExtractTypeOK, PhoneImport!Tick
<1>2. st.poll \in Songs /\ st.server[st.poll] # PhoneImport!None
  BY <1>1 DEF PhoneImport!FollowedIsKnown, PhoneImport!ExtractRecords
<1>3. st.server[st.poll] \in PhoneImport!Statuses BY <1>1, <1>2 DEF PhoneImport!ExtractRecords
<1>4. polls \in SUBSET [job : Songs, status : PhoneImport!Statuses]
  BY <1>1, <1>2, <1>3 DEF PhoneImport!ExtractRecords
<1>5. slow \in BOOLEAN BY <1>1 DEF PhoneImport!ExtractRecords
<1> HIDE DEF polls, slow
<1>6. st' \in PhoneImport!ExtractRecords BY <1>1, <1>4, <1>5 DEF PhoneImport!ExtractRecords
<1> QED BY <1>1, <1>6 DEF PhoneImport!ExtractTypeOK

LEMMA ImportLeavesTyped ==
  ASSUME PhoneImport!ExtractAssumption, PhoneImport!ExtractTypeOK, PhoneImport!CardLeaves
  PROVE  PhoneImport!ExtractTypeOK'
<1>1. st \in PhoneImport!ExtractRecords /\ acts \in 0..PhoneActs /\ acts' = acts
  BY DEF PhoneImport!ExtractTypeOK, PhoneImport!CardLeaves
<1>2. PICK j \in st.leaving :
        st' = [st EXCEPT !.leaving = @ \ {j}, !.card = IF st.card.id = j THEN PhoneImport!NoCard ELSE @]
  BY DEF PhoneImport!CardLeaves
<1> DEFINE card == IF st.card.id = j THEN PhoneImport!NoCard ELSE st.card
           leaving == st.leaving \ {j}
<1>3. card \in PhoneImport!Cards /\ leaving \in SUBSET Songs
  BY <1>1 DEF PhoneImport!ExtractRecords, PhoneImport!Cards
<1>4. st' = [st EXCEPT !.leaving = leaving, !.card = card] BY <1>2
<1> HIDE DEF card, leaving
<1>5. st' \in PhoneImport!ExtractRecords BY <1>1, <1>3, <1>4 DEF PhoneImport!ExtractRecords
<1> QED BY <1>1, <1>5 DEF PhoneImport!ExtractTypeOK

LEMMA ImportEndsTyped ==
  ASSUME PhoneImport!ExtractAssumption, PhoneImport!ExtractTypeOK, PhoneImport!ServerEnds
  PROVE  PhoneImport!ExtractTypeOK'
<1>1. st \in PhoneImport!ExtractRecords /\ acts \in 0..PhoneActs /\ acts' = acts
  BY DEF PhoneImport!ExtractTypeOK, PhoneImport!ServerEnds
<1>2. PICK j \in Songs, status \in PhoneImport!Ended :
        st' = [st EXCEPT !.server[j] = status, !.frames = IF st.stream = j THEN @ \cup {status} ELSE @]
  BY DEF PhoneImport!ServerEnds
<1> DEFINE states == [st.server EXCEPT ![j] = status]
           frames == IF st.stream = j THEN st.frames \cup {status} ELSE st.frames
<1>3. /\ states \in [Songs -> PhoneImport!Statuses \cup {PhoneImport!None}]
      /\ frames \in SUBSET PhoneImport!Statuses
  BY <1>1 DEF PhoneImport!ExtractRecords, PhoneImport!Statuses
<1>4. st' = [st EXCEPT !.server = states, !.frames = frames] BY <1>2
<1> HIDE DEF states, frames
<1>5. st' \in PhoneImport!ExtractRecords BY <1>1, <1>3, <1>4 DEF PhoneImport!ExtractRecords
<1> QED BY <1>1, <1>5 DEF PhoneImport!ExtractTypeOK

LEMMA PhoneImportStartExtraction ==
  ASSUME PhoneImport!ExtractAssumption, PhoneImport!ExtractIInv, PhoneImport!startExtraction
  PROVE  PhoneImport!ExtractIInv'
<1>0. st \in PhoneImport!ExtractRecords /\ acts \in 0..PhoneActs /\ PhoneActs \in Nat
      /\ PhoneImport!None \notin Songs /\ "asked" \notin Songs
  BY DEF PhoneImport!ExtractIInv, PhoneImport!ExtractTypeOK, PhoneImport!ExtractAssumption
<1>1. PhoneImport!ExtractTypeOK' BY ImportStartTyped DEF PhoneImport!ExtractIInv
<1>2. PhoneImport!OneWay'
  BY <1>0 DEF PhoneImport!ExtractIInv, PhoneImport!startExtraction, PhoneImport!Act, PhoneImport!OneWay
<1>3. PhoneImport!FollowedIsKnown'
  BY <1>0 DEF PhoneImport!ExtractIInv, PhoneImport!startExtraction, PhoneImport!Act, PhoneImport!FollowedIsKnown
<1>4. PhoneImport!SaidIsSo'
  BY <1>0 DEF PhoneImport!ExtractIInv, PhoneImport!startExtraction, PhoneImport!Act, PhoneImport!SaidIsSo
<1>5. PhoneImport!AnswersKeepUp'
  BY <1>0 DEF PhoneImport!ExtractIInv, PhoneImport!startExtraction, PhoneImport!Act, PhoneImport!AnswersKeepUp
<1>6. PhoneImport!SplitIsLast'
  BY <1>0 DEF PhoneImport!ExtractIInv, PhoneImport!startExtraction, PhoneImport!Act, PhoneImport!SplitIsLast
<1>7. PhoneImport!SplitAskedOnce'
  BY <1>0 DEF PhoneImport!ExtractIInv, PhoneImport!startExtraction, PhoneImport!Act, PhoneImport!SplitAskedOnce
<1> QED BY <1>1, <1>2, <1>3, <1>4, <1>5, <1>6, <1>7 DEF PhoneImport!ExtractIInv

LEMMA PhoneImportAccepted ==
  ASSUME PhoneImport!ExtractAssumption, PhoneImport!ExtractIInv, PhoneImport!Accepted
  PROVE  PhoneImport!ExtractIInv'
<1>0. st \in PhoneImport!ExtractRecords /\ acts \in 0..PhoneActs /\ PhoneActs \in Nat
      /\ PhoneImport!None \notin Songs /\ "asked" \notin Songs
  BY DEF PhoneImport!ExtractIInv, PhoneImport!ExtractTypeOK, PhoneImport!ExtractAssumption
<1>1. PhoneImport!ExtractTypeOK' BY ImportAcceptedTyped DEF PhoneImport!ExtractIInv
<1>2. PhoneImport!OneWay'
  BY <1>0 DEF PhoneImport!ExtractIInv, PhoneImport!Accepted, PhoneImport!followExtraction, PhoneImport!ExtractRecords,
     PhoneImport!Cards, PhoneImport!NoCard, PhoneImport!Statuses, PhoneImport!Ended, PhoneImport!None, PhoneImport!OneWay, PhoneImport!FollowedIsKnown, PhoneImport!SaidIsSo, PhoneImport!AnswersKeepUp, PhoneImport!SplitIsLast, PhoneImport!SplitAskedOnce
<1>3. PhoneImport!FollowedIsKnown'
  BY <1>0 DEF PhoneImport!ExtractIInv, PhoneImport!Accepted, PhoneImport!followExtraction,
     PhoneImport!FollowedIsKnown, PhoneImport!ExtractRecords, PhoneImport!Cards, PhoneImport!NoCard, PhoneImport!Statuses, PhoneImport!Ended, PhoneImport!None
<1>4. PhoneImport!SaidIsSo'
  BY <1>0 DEF PhoneImport!ExtractIInv, PhoneImport!Accepted, PhoneImport!followExtraction, PhoneImport!SaidIsSo,
     PhoneImport!ExtractRecords, PhoneImport!Cards, PhoneImport!NoCard, PhoneImport!Statuses, PhoneImport!Ended, PhoneImport!None
<1>5. PhoneImport!AnswersKeepUp'
  BY <1>0 DEF PhoneImport!ExtractIInv, PhoneImport!Accepted, PhoneImport!followExtraction, PhoneImport!AnswersKeepUp
<1>6. PhoneImport!SplitIsLast'
  BY <1>0 DEF PhoneImport!ExtractIInv, PhoneImport!Accepted, PhoneImport!followExtraction, PhoneImport!ExtractRecords,
     PhoneImport!Cards, PhoneImport!NoCard, PhoneImport!Statuses, PhoneImport!Ended, PhoneImport!None, PhoneImport!OneWay, PhoneImport!FollowedIsKnown, PhoneImport!SaidIsSo, PhoneImport!AnswersKeepUp, PhoneImport!SplitIsLast, PhoneImport!SplitAskedOnce
<1>7. PhoneImport!SplitAskedOnce'
  BY <1>0 DEF PhoneImport!ExtractIInv, PhoneImport!Accepted, PhoneImport!followExtraction, PhoneImport!SplitAskedOnce,
     PhoneImport!ExtractRecords, PhoneImport!Cards, PhoneImport!NoCard, PhoneImport!Statuses, PhoneImport!Ended, PhoneImport!None
<1> QED BY <1>1, <1>2, <1>3, <1>4, <1>5, <1>6, <1>7 DEF PhoneImport!ExtractIInv

LEMMA PhoneImportRefused ==
  ASSUME PhoneImport!ExtractAssumption, PhoneImport!ExtractIInv, PhoneImport!Refused
  PROVE  PhoneImport!ExtractIInv'
<1>0. st \in PhoneImport!ExtractRecords /\ acts \in 0..PhoneActs /\ PhoneActs \in Nat
      /\ PhoneImport!None \notin Songs /\ "asked" \notin Songs
  BY DEF PhoneImport!ExtractIInv, PhoneImport!ExtractTypeOK, PhoneImport!ExtractAssumption
<1>1. PhoneImport!ExtractTypeOK' BY ImportRefusedTyped DEF PhoneImport!ExtractIInv
<1>2. PhoneImport!OneWay' BY <1>0 DEF PhoneImport!ExtractIInv, PhoneImport!Refused, PhoneImport!OneWay
<1>3. PhoneImport!FollowedIsKnown'
  BY <1>0 DEF PhoneImport!ExtractIInv, PhoneImport!Refused, PhoneImport!FollowedIsKnown
<1>4. PhoneImport!SaidIsSo' BY <1>0 DEF PhoneImport!ExtractIInv, PhoneImport!Refused, PhoneImport!SaidIsSo
<1>5. PhoneImport!AnswersKeepUp' BY <1>0 DEF PhoneImport!ExtractIInv, PhoneImport!Refused, PhoneImport!AnswersKeepUp
<1>6. PhoneImport!SplitIsLast' BY <1>0 DEF PhoneImport!ExtractIInv, PhoneImport!Refused, PhoneImport!SplitIsLast
<1>7. PhoneImport!SplitAskedOnce' BY <1>0 DEF PhoneImport!ExtractIInv, PhoneImport!Refused, PhoneImport!SplitAskedOnce
<1> QED BY <1>1, <1>2, <1>3, <1>4, <1>5, <1>6, <1>7 DEF PhoneImport!ExtractIInv

LEMMA PhoneImportFrame ==
  ASSUME PhoneImport!ExtractAssumption, PhoneImport!ExtractIInv, PhoneImport!Frame
  PROVE  PhoneImport!ExtractIInv'
<1>0. st \in PhoneImport!ExtractRecords /\ acts \in 0..PhoneActs /\ PhoneActs \in Nat
      /\ PhoneImport!None \notin Songs /\ "asked" \notin Songs
  BY DEF PhoneImport!ExtractIInv, PhoneImport!ExtractTypeOK, PhoneImport!ExtractAssumption
<1>1. PhoneImport!ExtractTypeOK' BY ImportFrameTyped DEF PhoneImport!ExtractIInv
<1>2. PhoneImport!OneWay'
  BY <1>0 DEF PhoneImport!ExtractIInv, PhoneImport!Frame, PhoneImport!onExtractState, PhoneImport!split,
     PhoneImport!ends, PhoneImport!OneWay
<1>3. PhoneImport!FollowedIsKnown'
  BY <1>0 DEF PhoneImport!ExtractIInv, PhoneImport!Frame, PhoneImport!onExtractState, PhoneImport!split,
     PhoneImport!ends, PhoneImport!FollowedIsKnown
<1>4. PhoneImport!SaidIsSo'
  BY <1>0 DEF PhoneImport!ExtractIInv, PhoneImport!Frame, PhoneImport!onExtractState, PhoneImport!split,
     PhoneImport!ends, PhoneImport!SaidIsSo
<1>5. PhoneImport!AnswersKeepUp'
  BY <1>0 DEF PhoneImport!ExtractIInv, PhoneImport!Frame, PhoneImport!onExtractState, PhoneImport!split,
     PhoneImport!ends, PhoneImport!AnswersKeepUp
<1>6. PhoneImport!SplitIsLast'
  BY <1>0 DEF PhoneImport!ExtractIInv, PhoneImport!Frame, PhoneImport!onExtractState, PhoneImport!split,
     PhoneImport!ends, PhoneImport!ExtractRecords, PhoneImport!Cards, PhoneImport!NoCard, PhoneImport!Statuses, PhoneImport!Ended, PhoneImport!None, PhoneImport!OneWay, PhoneImport!FollowedIsKnown, PhoneImport!SaidIsSo, PhoneImport!AnswersKeepUp, PhoneImport!SplitIsLast, PhoneImport!SplitAskedOnce
<1>7. PhoneImport!SplitAskedOnce'
  BY <1>0 DEF PhoneImport!ExtractIInv, PhoneImport!Frame, PhoneImport!onExtractState, PhoneImport!split,
     PhoneImport!ends, PhoneImport!ExtractRecords, PhoneImport!Cards, PhoneImport!NoCard, PhoneImport!Statuses, PhoneImport!Ended, PhoneImport!None, PhoneImport!OneWay, PhoneImport!FollowedIsKnown, PhoneImport!SaidIsSo, PhoneImport!AnswersKeepUp, PhoneImport!SplitIsLast, PhoneImport!SplitAskedOnce
<1> QED BY <1>1, <1>2, <1>3, <1>4, <1>5, <1>6, <1>7 DEF PhoneImport!ExtractIInv

LEMMA PhoneImportStreamEnds ==
  ASSUME PhoneImport!ExtractAssumption, PhoneImport!ExtractIInv, PhoneImport!StreamEnds
  PROVE  PhoneImport!ExtractIInv'
<1>0. st \in PhoneImport!ExtractRecords /\ acts \in 0..PhoneActs /\ PhoneActs \in Nat
      /\ PhoneImport!None \notin Songs /\ "asked" \notin Songs
  BY DEF PhoneImport!ExtractIInv, PhoneImport!ExtractTypeOK, PhoneImport!ExtractAssumption
<1>1. PhoneImport!ExtractTypeOK'
  BY <1>0 DEF PhoneImport!StreamEnds, PhoneImport!broken, PhoneImport!ExtractTypeOK, PhoneImport!ExtractRecords
<1>2. PhoneImport!OneWay'
  BY <1>0 DEF PhoneImport!ExtractIInv, PhoneImport!StreamEnds, PhoneImport!broken, PhoneImport!OneWay
<1>3. PhoneImport!FollowedIsKnown'
  BY <1>0 DEF PhoneImport!ExtractIInv, PhoneImport!StreamEnds, PhoneImport!broken, PhoneImport!FollowedIsKnown
<1>4. PhoneImport!SaidIsSo'
  BY <1>0 DEF PhoneImport!ExtractIInv, PhoneImport!StreamEnds, PhoneImport!broken, PhoneImport!SaidIsSo
<1>5. PhoneImport!AnswersKeepUp'
  BY <1>0 DEF PhoneImport!ExtractIInv, PhoneImport!StreamEnds, PhoneImport!broken, PhoneImport!AnswersKeepUp
<1>6. PhoneImport!SplitIsLast'
  BY <1>0 DEF PhoneImport!ExtractIInv, PhoneImport!StreamEnds, PhoneImport!broken, PhoneImport!SplitIsLast
<1>7. PhoneImport!SplitAskedOnce'
  BY <1>0 DEF PhoneImport!ExtractIInv, PhoneImport!StreamEnds, PhoneImport!broken, PhoneImport!SplitAskedOnce
<1> QED BY <1>1, <1>2, <1>3, <1>4, <1>5, <1>6, <1>7 DEF PhoneImport!ExtractIInv

LEMMA PhoneImportStreamBreaks ==
  ASSUME PhoneImport!ExtractAssumption, PhoneImport!ExtractIInv, PhoneImport!StreamBreaks
  PROVE  PhoneImport!ExtractIInv'
<1>0. st \in PhoneImport!ExtractRecords /\ acts \in 0..PhoneActs /\ PhoneActs \in Nat
      /\ PhoneImport!None \notin Songs /\ "asked" \notin Songs
  BY DEF PhoneImport!ExtractIInv, PhoneImport!ExtractTypeOK, PhoneImport!ExtractAssumption
<1>1. PhoneImport!ExtractTypeOK' BY ImportBreaksTyped DEF PhoneImport!ExtractIInv
<1>2. PhoneImport!OneWay'
  BY <1>0 DEF PhoneImport!ExtractIInv, PhoneImport!StreamBreaks, PhoneImport!Act, PhoneImport!broken,
     PhoneImport!OneWay
<1>3. PhoneImport!FollowedIsKnown'
  BY <1>0 DEF PhoneImport!ExtractIInv, PhoneImport!StreamBreaks, PhoneImport!Act, PhoneImport!broken,
     PhoneImport!FollowedIsKnown
<1>4. PhoneImport!SaidIsSo'
  BY <1>0 DEF PhoneImport!ExtractIInv, PhoneImport!StreamBreaks, PhoneImport!Act, PhoneImport!broken,
     PhoneImport!SaidIsSo
<1>5. PhoneImport!AnswersKeepUp'
  BY <1>0 DEF PhoneImport!ExtractIInv, PhoneImport!StreamBreaks, PhoneImport!Act, PhoneImport!broken,
     PhoneImport!AnswersKeepUp
<1>6. PhoneImport!SplitIsLast'
  BY <1>0 DEF PhoneImport!ExtractIInv, PhoneImport!StreamBreaks, PhoneImport!Act, PhoneImport!broken,
     PhoneImport!SplitIsLast
<1>7. PhoneImport!SplitAskedOnce'
  BY <1>0 DEF PhoneImport!ExtractIInv, PhoneImport!StreamBreaks, PhoneImport!Act, PhoneImport!broken,
     PhoneImport!SplitAskedOnce
<1> QED BY <1>1, <1>2, <1>3, <1>4, <1>5, <1>6, <1>7 DEF PhoneImport!ExtractIInv

LEMMA PhoneImportTick ==
  ASSUME PhoneImport!ExtractAssumption, PhoneImport!ExtractIInv, PhoneImport!Tick
  PROVE  PhoneImport!ExtractIInv'
<1>0. st \in PhoneImport!ExtractRecords /\ acts \in 0..PhoneActs /\ PhoneActs \in Nat
      /\ PhoneImport!None \notin Songs /\ "asked" \notin Songs
  BY DEF PhoneImport!ExtractIInv, PhoneImport!ExtractTypeOK, PhoneImport!ExtractAssumption
<1>1. PhoneImport!ExtractTypeOK' BY ImportTickTyped DEF PhoneImport!ExtractIInv
<1>2. PhoneImport!OneWay' BY <1>0 DEF PhoneImport!ExtractIInv, PhoneImport!Tick, PhoneImport!OneWay
<1>3. PhoneImport!FollowedIsKnown' BY <1>0 DEF PhoneImport!ExtractIInv, PhoneImport!Tick, PhoneImport!FollowedIsKnown
<1>4. PhoneImport!SaidIsSo' BY <1>0 DEF PhoneImport!ExtractIInv, PhoneImport!Tick, PhoneImport!SaidIsSo
<1>5. PhoneImport!AnswersKeepUp'
  BY <1>0 DEF PhoneImport!ExtractIInv, PhoneImport!Tick, PhoneImport!AnswersKeepUp, PhoneImport!ExtractRecords
<1>6. PhoneImport!SplitIsLast'
  BY <1>0 DEF PhoneImport!ExtractIInv, PhoneImport!Tick, PhoneImport!SplitIsLast, PhoneImport!ExtractRecords
<1>7. PhoneImport!SplitAskedOnce'
  BY <1>0 DEF PhoneImport!ExtractIInv, PhoneImport!Tick, PhoneImport!SplitAskedOnce, PhoneImport!ExtractRecords
<1> QED BY <1>1, <1>2, <1>3, <1>4, <1>5, <1>6, <1>7 DEF PhoneImport!ExtractIInv

LEMMA PhoneImportPollAnswered ==
  ASSUME PhoneImport!ExtractAssumption, PhoneImport!ExtractIInv, PhoneImport!PollAnswered
  PROVE  PhoneImport!ExtractIInv'
<1>0. st \in PhoneImport!ExtractRecords /\ acts \in 0..PhoneActs /\ PhoneActs \in Nat
      /\ PhoneImport!None \notin Songs /\ "asked" \notin Songs
  BY DEF PhoneImport!ExtractIInv, PhoneImport!ExtractTypeOK, PhoneImport!ExtractAssumption
<1>1. PhoneImport!ExtractTypeOK' BY ImportAnsweredTyped DEF PhoneImport!ExtractIInv
<1>2. PhoneImport!OneWay'
  BY <1>0 DEF PhoneImport!ExtractIInv, PhoneImport!PollAnswered, PhoneImport!onExtractState, PhoneImport!split,
     PhoneImport!ends, PhoneImport!OneWay
<1>3. PhoneImport!FollowedIsKnown'
  BY <1>0 DEF PhoneImport!ExtractIInv, PhoneImport!PollAnswered, PhoneImport!onExtractState, PhoneImport!split,
     PhoneImport!ends, PhoneImport!FollowedIsKnown
<1>4. PhoneImport!SaidIsSo'
  BY <1>0 DEF PhoneImport!ExtractIInv, PhoneImport!PollAnswered, PhoneImport!onExtractState, PhoneImport!split,
     PhoneImport!ends, PhoneImport!SaidIsSo
<1>5. PhoneImport!AnswersKeepUp'
  BY <1>0 DEF PhoneImport!ExtractIInv, PhoneImport!PollAnswered, PhoneImport!onExtractState, PhoneImport!split,
     PhoneImport!ends, PhoneImport!AnswersKeepUp
<1>6. PhoneImport!SplitIsLast'
  BY <1>0 DEF PhoneImport!ExtractIInv, PhoneImport!PollAnswered, PhoneImport!onExtractState, PhoneImport!split,
     PhoneImport!ends, PhoneImport!ExtractRecords, PhoneImport!Cards, PhoneImport!NoCard, PhoneImport!Statuses, PhoneImport!Ended, PhoneImport!None, PhoneImport!OneWay, PhoneImport!FollowedIsKnown, PhoneImport!SaidIsSo, PhoneImport!AnswersKeepUp, PhoneImport!SplitIsLast, PhoneImport!SplitAskedOnce
<1>7. PhoneImport!SplitAskedOnce'
  BY <1>0 DEF PhoneImport!ExtractIInv, PhoneImport!PollAnswered, PhoneImport!onExtractState, PhoneImport!split,
     PhoneImport!ends, PhoneImport!ExtractRecords, PhoneImport!Cards, PhoneImport!NoCard, PhoneImport!Statuses, PhoneImport!Ended, PhoneImport!None, PhoneImport!OneWay, PhoneImport!FollowedIsKnown, PhoneImport!SaidIsSo, PhoneImport!AnswersKeepUp, PhoneImport!SplitIsLast, PhoneImport!SplitAskedOnce
<1> QED BY <1>1, <1>2, <1>3, <1>4, <1>5, <1>6, <1>7 DEF PhoneImport!ExtractIInv

LEMMA PhoneImportPollFails ==
  ASSUME PhoneImport!ExtractAssumption, PhoneImport!ExtractIInv, PhoneImport!PollFails
  PROVE  PhoneImport!ExtractIInv'
<1>0. st \in PhoneImport!ExtractRecords /\ acts \in 0..PhoneActs /\ PhoneActs \in Nat
      /\ PhoneImport!None \notin Songs /\ "asked" \notin Songs
  BY DEF PhoneImport!ExtractIInv, PhoneImport!ExtractTypeOK, PhoneImport!ExtractAssumption
<1>1. PhoneImport!ExtractTypeOK'
  BY <1>0 DEF PhoneImport!PollFails, PhoneImport!Act, PhoneImport!ExtractTypeOK, PhoneImport!ExtractRecords
<1>2. PhoneImport!OneWay'
  BY <1>0 DEF PhoneImport!ExtractIInv, PhoneImport!PollFails, PhoneImport!Act, PhoneImport!OneWay
<1>3. PhoneImport!FollowedIsKnown'
  BY <1>0 DEF PhoneImport!ExtractIInv, PhoneImport!PollFails, PhoneImport!Act, PhoneImport!FollowedIsKnown
<1>4. PhoneImport!SaidIsSo'
  BY <1>0 DEF PhoneImport!ExtractIInv, PhoneImport!PollFails, PhoneImport!Act, PhoneImport!SaidIsSo
<1>5. PhoneImport!AnswersKeepUp'
  BY <1>0 DEF PhoneImport!ExtractIInv, PhoneImport!PollFails, PhoneImport!Act, PhoneImport!AnswersKeepUp
<1>6. PhoneImport!SplitIsLast'
  BY <1>0 DEF PhoneImport!ExtractIInv, PhoneImport!PollFails, PhoneImport!Act, PhoneImport!SplitIsLast
<1>7. PhoneImport!SplitAskedOnce'
  BY <1>0 DEF PhoneImport!ExtractIInv, PhoneImport!PollFails, PhoneImport!Act, PhoneImport!SplitAskedOnce
<1> QED BY <1>1, <1>2, <1>3, <1>4, <1>5, <1>6, <1>7 DEF PhoneImport!ExtractIInv

LEMMA PhoneImportCardLeaves ==
  ASSUME PhoneImport!ExtractAssumption, PhoneImport!ExtractIInv, PhoneImport!CardLeaves
  PROVE  PhoneImport!ExtractIInv'
<1>0. st \in PhoneImport!ExtractRecords /\ acts \in 0..PhoneActs /\ PhoneActs \in Nat
      /\ PhoneImport!None \notin Songs /\ "asked" \notin Songs
  BY DEF PhoneImport!ExtractIInv, PhoneImport!ExtractTypeOK, PhoneImport!ExtractAssumption
<1>1. PhoneImport!ExtractTypeOK' BY ImportLeavesTyped DEF PhoneImport!ExtractIInv
<1>2. PhoneImport!OneWay' BY <1>0 DEF PhoneImport!ExtractIInv, PhoneImport!CardLeaves, PhoneImport!OneWay
<1>3. PhoneImport!FollowedIsKnown'
  BY <1>0 DEF PhoneImport!ExtractIInv, PhoneImport!CardLeaves, PhoneImport!FollowedIsKnown
<1>4. PhoneImport!SaidIsSo' BY <1>0 DEF PhoneImport!ExtractIInv, PhoneImport!CardLeaves, PhoneImport!SaidIsSo
<1>5. PhoneImport!AnswersKeepUp'
  BY <1>0 DEF PhoneImport!ExtractIInv, PhoneImport!CardLeaves, PhoneImport!AnswersKeepUp
<1>6. PhoneImport!SplitIsLast' BY <1>0 DEF PhoneImport!ExtractIInv, PhoneImport!CardLeaves, PhoneImport!SplitIsLast
<1>7. PhoneImport!SplitAskedOnce'
  BY <1>0 DEF PhoneImport!ExtractIInv, PhoneImport!CardLeaves, PhoneImport!SplitAskedOnce
<1> QED BY <1>1, <1>2, <1>3, <1>4, <1>5, <1>6, <1>7 DEF PhoneImport!ExtractIInv

LEMMA PhoneImportServerEnds ==
  ASSUME PhoneImport!ExtractAssumption, PhoneImport!ExtractIInv, PhoneImport!ServerEnds
  PROVE  PhoneImport!ExtractIInv'
<1>0. st \in PhoneImport!ExtractRecords /\ acts \in 0..PhoneActs /\ PhoneActs \in Nat
      /\ PhoneImport!None \notin Songs /\ "asked" \notin Songs
  BY DEF PhoneImport!ExtractIInv, PhoneImport!ExtractTypeOK, PhoneImport!ExtractAssumption
<1>1. PhoneImport!ExtractTypeOK' BY ImportEndsTyped DEF PhoneImport!ExtractIInv
<1>2. PhoneImport!OneWay' BY <1>0 DEF PhoneImport!ExtractIInv, PhoneImport!ServerEnds, PhoneImport!OneWay
<1>3. PhoneImport!FollowedIsKnown'
  BY <1>0 DEF PhoneImport!ExtractIInv, PhoneImport!ServerEnds, PhoneImport!FollowedIsKnown,
     PhoneImport!ExtractRecords, PhoneImport!Cards, PhoneImport!NoCard, PhoneImport!Statuses, PhoneImport!Ended, PhoneImport!None
<1>4. PhoneImport!SaidIsSo'
  BY <1>0 DEF PhoneImport!ExtractIInv, PhoneImport!ServerEnds, PhoneImport!SaidIsSo, PhoneImport!ExtractRecords
<1>5. PhoneImport!AnswersKeepUp'
  BY <1>0 DEF PhoneImport!ExtractIInv, PhoneImport!ServerEnds, PhoneImport!AnswersKeepUp
<1>6. PhoneImport!SplitIsLast' BY <1>0 DEF PhoneImport!ExtractIInv, PhoneImport!ServerEnds, PhoneImport!SplitIsLast
<1>7. PhoneImport!SplitAskedOnce'
  BY <1>0 DEF PhoneImport!ExtractIInv, PhoneImport!ServerEnds, PhoneImport!SplitAskedOnce
<1> QED BY <1>1, <1>2, <1>3, <1>4, <1>5, <1>6, <1>7 DEF PhoneImport!ExtractIInv

(* The invariant holds at the start, and through every step and stutter.   *)
LEMMA ImportStarts == ASSUME PhoneImport!ExtractAssumption, PhoneImport!ExtractInit PROVE PhoneImport!ExtractIInv
<1> DEFINE states == [j \in Songs |-> PhoneImport!None]
           splits == [j \in Songs |-> 0]
<1>1. /\ PhoneActs \in Nat /\ acts = 0
      /\ st = [card |-> PhoneImport!NoCard, asked |-> {}, server |-> states, stream |-> PhoneImport!None,
               frames |-> {}, poll |-> PhoneImport!None, polls |-> {}, leaving |-> {}, splits |-> splits,
               slow |-> FALSE, again |-> FALSE]
  BY DEF PhoneImport!ExtractAssumption, PhoneImport!ExtractInit
<1>2. states \in [Songs -> PhoneImport!Statuses \cup {PhoneImport!None}] /\ splits \in [Songs -> 0..2] OBVIOUS
<1>3. \A j \in Songs : ~(splits[j] > 0) OBVIOUS
<1> HIDE DEF states, splits
<1>4. PhoneImport!ExtractTypeOK
  <2>1. acts \in 0..PhoneActs BY <1>1
  <2> QED BY <1>1, <1>2, <2>1 DEF PhoneImport!ExtractTypeOK, PhoneImport!ExtractRecords, PhoneImport!Cards
<1>5. PhoneImport!OneWay /\ PhoneImport!FollowedIsKnown /\ PhoneImport!SaidIsSo /\ PhoneImport!AnswersKeepUp
  BY <1>1 DEF PhoneImport!OneWay, PhoneImport!FollowedIsKnown, PhoneImport!SaidIsSo, PhoneImport!AnswersKeepUp
<1>6. PhoneImport!SplitIsLast /\ PhoneImport!SplitAskedOnce
  BY <1>1, <1>3 DEF PhoneImport!SplitIsLast, PhoneImport!SplitAskedOnce
<1> QED BY <1>4, <1>5, <1>6 DEF PhoneImport!ExtractIInv

LEMMA ImportStep ==
  ASSUME PhoneImport!ExtractAssumption, PhoneImport!ExtractIInv, PhoneImport!ExtractNext
  PROVE  PhoneImport!ExtractIInv'
BY PhoneImportStartExtraction, PhoneImportAccepted, PhoneImportRefused, PhoneImportFrame, PhoneImportStreamEnds,
   PhoneImportStreamBreaks, PhoneImportTick, PhoneImportPollAnswered, PhoneImportPollFails, PhoneImportCardLeaves,
   PhoneImportServerEnds DEF PhoneImport!ExtractNext

LEMMA ImportStutters ==
  ASSUME PhoneImport!ExtractIInv, st' = st, acts' = acts
  PROVE  PhoneImport!ExtractIInv'
BY DEF PhoneImport!ExtractIInv, PhoneImport!ExtractTypeOK, PhoneImport!OneWay, PhoneImport!FollowedIsKnown,
       PhoneImport!SaidIsSo, PhoneImport!AnswersKeepUp, PhoneImport!SplitIsLast, PhoneImport!SplitAskedOnce

(* ----------------------------- all of them ----------------------------- *)
PanelsInv ==
  /\ part = "setup" => SetupInv
  /\ part = "search" => Finder!SearchIInv
  /\ part = "choice" => Choice!ChoiceIInv
  /\ part = "auto" => Sectioning!AutoIInv
  /\ part = "export" => Export!ExportIInv
  /\ part = "start" => Start!MigrationIInv
  /\ part = "phone" => Phone!MobileIInv
  /\ part = "phoneimport" => PhoneImport!ExtractIInv

LEMMA PanelsStart == Init => PanelsInv
<1> SUFFICES ASSUME Init PROVE PanelsInv OBVIOUS
<1>1. part = "setup" => SetupInv BY PanelConstants, SetupStarts DEF Init
<1>2. part = "search" => Finder!SearchIInv BY PanelConstants, FinderStarts DEF Init
<1>3. part = "choice" => Choice!ChoiceIInv BY PanelConstants, ChoiceStarts DEF Init
<1>4. part = "auto" => Sectioning!AutoIInv BY PanelConstants, SectioningStarts DEF Init
<1>5. part = "export" => Export!ExportIInv BY PanelConstants, ExportStarts DEF Init
<1>6. part = "start" => Start!MigrationIInv BY PanelConstants, StartStarts DEF Init
<1>7. part = "phone" => Phone!MobileIInv BY PanelConstants, PhoneStarts DEF Init
<1>8. part = "phoneimport" => PhoneImport!ExtractIInv BY PanelConstants, ImportStarts DEF Init
<1> QED BY <1>1, <1>2, <1>3, <1>4, <1>5, <1>6, <1>7, <1>8 DEF PanelsInv

(* A behaviour stays in the part it starts in.                              *)
LEMMA PanelsStep == PanelsInv /\ [Next]_vars => PanelsInv'
<1> SUFFICES ASSUME PanelsInv, [Next]_vars PROVE PanelsInv' OBVIOUS
<1>0. part' = part BY DEF Next, vars, Still
<1>1. part = "setup" => SetupInv'
  <2> HAVE part = "setup"
  <2>1. SetupInv BY DEF PanelsInv
  <2>2. Setup!SetupNext \/ (st' = st /\ acts' = acts) BY DEF Next, vars
  <2> QED BY <2>1, <2>2, PanelConstants, SetupStep, SetupStutters
<1>2. part = "search" => Finder!SearchIInv'
  <2> HAVE part = "search"
  <2>1. Finder!SearchIInv BY DEF PanelsInv
  <2>2. Finder!SearchNext \/ (st' = st /\ acts' = acts) BY DEF Next, vars
  <2> QED BY <2>1, <2>2, PanelConstants, FinderStep, FinderStutters
<1>3. part = "choice" => Choice!ChoiceIInv'
  <2> HAVE part = "choice"
  <2>1. Choice!ChoiceIInv BY DEF PanelsInv
  <2>2. Choice!ChoiceNext \/ (st' = st /\ acts' = acts) BY DEF Next, vars
  <2> QED BY <2>1, <2>2, PanelConstants, ChoiceStep, ChoiceStutters
<1>4. part = "auto" => Sectioning!AutoIInv'
  <2> HAVE part = "auto"
  <2>1. Sectioning!AutoIInv BY DEF PanelsInv
  <2>2. Sectioning!AutoNext \/ (st' = st /\ acts' = acts) BY DEF Next, vars
  <2> QED BY <2>1, <2>2, PanelConstants, SectioningStep, SectioningStutters
<1>5. part = "export" => Export!ExportIInv'
  <2> HAVE part = "export"
  <2>1. Export!ExportIInv BY DEF PanelsInv
  <2>2. Export!ExportNext \/ (st' = st /\ acts' = acts) BY DEF Next, vars
  <2> QED BY <2>1, <2>2, PanelConstants, ExportStep, ExportStutters
<1>6. part = "start" => Start!MigrationIInv'
  <2> HAVE part = "start"
  <2>1. Start!MigrationIInv BY DEF PanelsInv
  <2>2. Start!MigrationNext \/ (st' = st /\ acts' = acts) BY DEF Next, vars
  <2> QED BY <2>1, <2>2, PanelConstants, StartStep, StartStutters
<1>7. part = "phone" => Phone!MobileIInv'
  <2> HAVE part = "phone"
  <2>1. Phone!MobileIInv BY DEF PanelsInv
  <2>2. Phone!MobileNext \/ (st' = st /\ acts' = acts) BY DEF Next, vars
  <2> QED BY <2>1, <2>2, PanelConstants, PhoneStep, PhoneStutters
<1>8. part = "phoneimport" => PhoneImport!ExtractIInv'
  <2> HAVE part = "phoneimport"
  <2>1. PhoneImport!ExtractIInv BY DEF PanelsInv
  <2>2. PhoneImport!ExtractNext \/ (st' = st /\ acts' = acts) BY DEF Next, vars
  <2> QED BY <2>1, <2>2, PanelConstants, ImportStep, ImportStutters
<1> QED BY <1>0, <1>1, <1>2, <1>3, <1>4, <1>5, <1>6, <1>7, <1>8 DEF PanelsInv

LEMMA PanelsShow == PanelsInv => PanelsTellTheTruth
<1> SUFFICES ASSUME PanelsInv PROVE PanelsTellTheTruth OBVIOUS
<1>1. part = "setup" => /\ Setup!SetupTypeOK /\ Setup!NeverStartsStale /\ Setup!TickedIsDone
                       /\ Setup!OneProgressListener /\ Setup!NeverLeftAlone
  BY PanelConstants, SetupShows DEF PanelsInv
<1>2. part = "search" => /\ Finder!SearchTypeOK /\ Finder!RowsAnswerTheBox /\ Finder!PreviewHasItsRow
                        /\ Finder!EnterTakesAShownRow
  BY DEF PanelsInv, Finder!SearchIInv
<1>3. part = "choice" => /\ Choice!ChoiceTypeOK /\ Choice!ControlsShowTheChoice /\ Choice!ChoiceIsKept
                        /\ Choice!ImportedOnce
  BY DEF PanelsInv, Choice!ChoiceIInv
<1>4. part = "auto" => Sectioning!AutoTypeOK /\ Sectioning!OffMeansOff BY DEF PanelsInv, Sectioning!AutoIInv
<1>5. part = "export" => /\ Export!ExportTypeOK /\ Export!OneExportAtATime /\ Export!RowsComeBack
                        /\ Export!FailureNamesItsTrack
  BY DEF PanelsInv, Export!ExportIInv
<1>6. part = "start" => Start!StoreTypeOK /\ Start!NothingReverts BY DEF PanelsInv, Start!MigrationIInv
<1>7. part = "phone" => Phone!MobileTypeOK /\ Phone!NoGhostAudio /\ Phone!SoundsAsShown
  BY DEF PanelsInv, Phone!MobileIInv
<1>8. part = "phoneimport" => PhoneImport!ExtractTypeOK /\ PhoneImport!SplitAskedOnce
  BY DEF PanelsInv, PhoneImport!ExtractIInv
<1> QED BY <1>1, <1>2, <1>3, <1>4, <1>5, <1>6, <1>7, <1>8 DEF PanelsTellTheTruth

(* What panels show is what is so, whatever answers come late, out of order *)
(* or not at all, whatever is clicked meanwhile and whatever fails.         *)
THEOREM TheTruthIsShown == Spec => []PanelsTellTheTruth
<1>1. Init => PanelsInv BY PanelsStart
<1>2. PanelsInv /\ [Next]_vars => PanelsInv' BY PanelsStep
<1>3. PanelsInv => PanelsTellTheTruth BY PanelsShow
<1> QED BY <1>1, <1>2, <1>3, PTL DEF Spec

(* Every step of the window keeps the invariant, whatever number of runs    *)
(* of setup overlap and whatever commands fail.                             *)
THEOREM SetupAlwaysHolds == ASSUME Setup!SetupAssumption PROVE Setup!SetupSpec => []SetupInv
<1>1. Setup!SetupInit => SetupInv BY SetupStarts
<1>2. SetupInv /\ [Setup!SetupNext]_(Setup!setupVars) => SetupInv'
  BY SetupStep, SetupStutters DEF Setup!setupVars
<1> QED BY <1>1, <1>2, PTL DEF Setup!SetupSpec

(* A backend is only ever started on the runtime this build expects, with   *)
(* ffmpeg in place (the check of the version between the probe and the      *)
(* early return of runSetup).                                               *)
THEOREM AlwaysStartsFresh == ASSUME Setup!SetupAssumption PROVE Setup!SetupSpec => []Setup!NeverStartsStale
<1>1. SetupInv => Setup!NeverStartsStale BY DEF SetupInv
<1> QED BY <1>1, SetupAlwaysHolds, PTL

(* A step shown as done is done, though overlapping runs paint one list.    *)
THEOREM AlwaysTickedIsDone == ASSUME Setup!SetupAssumption PROVE Setup!SetupSpec => []Setup!TickedIsDone
<1>1. SetupInv => Setup!TickedIsDone BY DEF SetupInv
<1> QED BY <1>1, SetupAlwaysHolds, PTL

(* When every run is over, the app is open or Retry can be clicked.         *)
THEOREM AlwaysAWayOn == ASSUME Setup!SetupAssumption PROVE Setup!SetupSpec => []Setup!NeverLeftAlone
<1>1. SetupInv => Setup!NeverLeftAlone BY DEF SetupInv
<1> QED BY <1>1, SetupAlwaysHolds, PTL
=============================================================================
