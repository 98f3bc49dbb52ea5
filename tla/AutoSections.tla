---------------------------- MODULE AutoSections -----------------------------
(***************************************************************************)
(* The song-structure button: wireAutoSectionsToggle of                    *)
(* src/static/js/main.js.  The server owns the setting; the button shows   *)
(* its answer, and is put back to off at start and with every track that   *)
(* is loaded.  Requests travel on connections of their own: they are       *)
(* served in any order, and one may fail before or after it was served.    *)
(***************************************************************************)
EXTENDS Integers, FiniteSets

CONSTANT MaxActs  \* bound: clicks, tracks loaded and pages opened

VARIABLES au, acts

autoVars == <<au, acts>>
(* A request: its number, what it asks for ("read" for the first one),      *)
(* whether it was served and what the answer says.                          *)
Asks == {"on", "off", "read"}

AutoAssumption == MaxActs \in Nat
Requests == [id : Nat, ask : Asks, click : BOOLEAN, at : {"way", "back", "lost"}, says : BOOLEAN]
AutoRecords ==
  [server : BOOLEAN, button : BOOLEAN, disabled : BOOLEAN, failed : BOOLEAN, early : BOOLEAN,
   flying : SUBSET Requests]
AutoTypeOK == au \in AutoRecords /\ acts \in 0..MaxActs

Request(n, ask, click) == [id |-> n, ask |-> ask, click |-> click, at |-> "way", says |-> FALSE]

(* What the page before asked for is not waited for: it is gone or served.  *)
AutoInit ==
  /\ \E on \in BOOLEAN :
       au = [server |-> on, button |-> FALSE, disabled |-> FALSE, failed |-> FALSE,
             early |-> FALSE, flying |-> {Request(0, "read", FALSE)}]
  /\ acts = 0

Act == acts < MaxActs /\ acts' = acts + 1

paint(q, on) == [q EXCEPT !.button = on]
sent(q, r) == [q EXCEPT !.flying = @ \cup {r}]

Clicked == Act /\ ~au.disabled /\
  LET next == ~au.button
  IN au' = sent([paint(au, next) EXCEPT !.disabled = TRUE, !.early = @ \/ \E r \in au.flying : r.ask = "read"],
                Request(acts', IF next THEN "on" ELSE "off", TRUE))

forceOff(q, n) ==
  IF ~q.button THEN q ELSE sent(paint(q, FALSE), Request(n, "off", FALSE))

TrackLoaded == Act /\ au' = forceOff(au, acts')

Served == \E r \in au.flying :
  /\ r.at = "way"
  /\ LET on == IF r.ask = "read" THEN au.server ELSE r.ask = "on"
     IN au' = [au EXCEPT !.server = on, !.flying = (@ \ {r}) \cup {[r EXCEPT !.at = "back", !.says = on]}]
  /\ UNCHANGED acts

(* On its way there or back.                                                *)
Lost == \E r \in au.flying :
  r.at # "lost" /\ au' = [au EXCEPT !.failed = TRUE, !.flying = (@ \ {r}) \cup {[r EXCEPT !.at = "lost"]}]
  /\ UNCHANGED acts

answered(q, r, n) ==
  CASE r.click /\ r.at = "back" -> [paint(q, r.says) EXCEPT !.disabled = FALSE]
    [] r.click /\ r.at = "lost" -> [paint(q, r.ask = "off") EXCEPT !.disabled = FALSE]
    [] r.ask = "read" /\ r.at = "back" -> forceOff(paint(q, r.says), n)
    [] OTHER -> q

Answered == \E r \in au.flying :
  /\ r.at \in {"back", "lost"}
  /\ au' = answered([au EXCEPT !.flying = @ \ {r}], r, 100 + r.id)
  /\ UNCHANGED acts

AutoNext == Clicked \/ TrackLoaded \/ Served \/ Lost \/ Answered
AutoFairness == WF_autoVars(Served) /\ WF_autoVars(Answered)
AutoSpec == AutoInit /\ [][AutoNext]_autoVars /\ AutoFairness

(* ------------------------------ properties ------------------------------ *)
(* Once everything is answered and no request failed, no import pays for    *)
(* an analysis the button does not show: for a page that was left alone     *)
(* until its first read was answered.                                       *)
OffMeansOff == au.flying = {} /\ ~au.failed /\ ~au.early /\ au.server => au.button

(* What makes it inductive: a setting that is on and not shown is about to  *)
(* be put off, or to be shown; one click at a time is unanswered, and the   *)
(* button stays as that click left it; the first read is alone.             *)
WillAgree(r) == r.ask = "read" \/ r.ask = "on" \/ (r.ask = "off" /\ r.at = "way")
OnIsAnswered ==
  ~au.failed /\ ~au.early /\ au.server /\ ~au.button => \E r \in au.flying : WillAgree(r)
AnswersAreTrue ==
  \A r \in au.flying : /\ r.ask = "on" => r.click
                       /\ r.ask = "read" => ~r.click
                       /\ r.at = "back" /\ r.ask # "read" => r.says = (r.ask = "on")
                       /\ r.at = "lost" => au.failed
OneClick ==
  /\ \A r, s \in au.flying : r.click /\ s.click => r = s
  /\ \A r \in au.flying : r.click => au.disabled /\ (r.ask = "off" => ~au.button)
ReadIsAlone ==
  ~au.early => \A r \in au.flying : r.ask = "read" =>
    au.flying = {r} /\ ~au.button /\ (r.at = "back" => r.says = au.server)
AutoIInv == AutoTypeOK /\ OnIsAnswered /\ AnswersAreTrue /\ OneClick /\ ReadIsAlone /\ OffMeansOff

(* Must end: the button can always be used again.                           *)
ButtonWaits == au.disabled
=============================================================================
