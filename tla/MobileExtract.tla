--------------------------- MODULE MobileExtract ----------------------------
(***************************************************************************)
(* An import from the mobile page: startExtraction, followExtraction and   *)
(* what they call in src/static/mobile/app.js.                             *)
(*                                                                         *)
(* One card shows one import.  It is followed on an event stream, or by    *)
(* asking every few seconds once the stream breaks; at the end a vocal     *)
(* split may be asked for, and the card goes a few seconds later.          *)
(***************************************************************************)
EXTENDS Integers, FiniteSets

CONSTANTS
  Jobs,
  MaxActs  \* bound: imports submitted and streams that break

VARIABLES me, acts

extractVars == <<me, acts>>
None == "none"
Ended == {"done", "error"}
Statuses == {"running"} \cup Ended
NoCard == [id |-> None, split |-> FALSE, status |-> "running"]

ExtractAssumption == {None, "asked"} \cap Jobs = {} /\ MaxActs \in Nat

Cards == [id : Jobs \cup {"asked"}, split : BOOLEAN, status : Statuses] \cup {NoCard}
ExtractRecords ==
  [card : Cards, asked : SUBSET [n : 1..MaxActs, split : BOOLEAN], server : [Jobs -> Statuses \cup {None}],
   stream : Jobs \cup {None}, frames : SUBSET Statuses, poll : Jobs \cup {None},
   polls : SUBSET [job : Jobs, status : Statuses], leaving : SUBSET Jobs, splits : [Jobs -> 0..2],
   slow : BOOLEAN, again : BOOLEAN]
ExtractTypeOK == me \in ExtractRecords /\ acts \in 0..MaxActs

ExtractInit ==
  /\ me = [card |-> NoCard, asked |-> {}, server |-> [j \in Jobs |-> None], stream |-> None,
           frames |-> {}, poll |-> None, polls |-> {}, leaving |-> {},
           splits |-> [j \in Jobs |-> 0], slow |-> FALSE, again |-> FALSE]
  /\ acts = 0

Act == acts < MaxActs /\ acts' = acts + 1

(* ------------------------------ submitting ------------------------------ *)
(* The card is put up before the server answers, in place of any other.     *)
startExtraction == Act /\ \E split \in BOOLEAN :
  me' = [me EXCEPT !.card = [id |-> "asked", split |-> split, status |-> "running"],
                   !.asked = @ \cup {[n |-> acts + 1, split |-> split]},
                   !.again = @ \/ me.stream # None \/ me.poll # None \/ me.asked # {}]

followExtraction(m, j) == [m EXCEPT !.stream = j, !.frames = {m.server[j]}, !.poll = None]

Accepted == \E a \in me.asked, j \in Jobs :
  /\ me.server[j] = None
  /\ LET q == [me EXCEPT !.asked = @ \ {a}, !.server[j] = "running"]
     IN me' = (IF me.card = NoCard THEN q
               ELSE followExtraction([q EXCEPT !.card.id = j], j))
  /\ UNCHANGED acts
Refused == \E a \in me.asked :
  me' = [me EXCEPT !.asked = @ \ {a}, !.card = NoCard] /\ UNCHANGED acts

(* ------------------------------ following ------------------------------- *)
(* A state of another import is passed over, and the caller goes on.        *)
ends(m, j, status) == m.card.id = j /\ status \in Ended

split(m, j) == [m EXCEPT !.splits[j] = IF @ < 2 THEN @ + 1 ELSE @]
onExtractState(m, j, status) ==
  IF m.card.id # j THEN m
  ELSE LET q == [m EXCEPT !.card.status = status]
       IN IF status \notin Ended THEN q
          ELSE [(IF status = "done" /\ m.card.split THEN split(q, j) ELSE q)
                  EXCEPT !.leaving = @ \cup {j}]

Frame == me.stream # None /\ \E status \in me.frames :
  LET j == me.stream
      q == onExtractState([me EXCEPT !.frames = @ \ {status}], j, status)
  IN /\ me' = (IF ends(me, j, status) THEN [q EXCEPT !.stream = None, !.frames = {}] ELSE q)
     /\ UNCHANGED acts

(* A stream closed by the server breaks like any other.                     *)
brokenForGood(m) == [m EXCEPT !.stream = None, !.frames = {}]
broken(m) == [m EXCEPT !.stream = None, !.frames = {}, !.poll = IF @ = None THEN m.stream ELSE @]
StreamEnds == me.stream # None /\ me.server[me.stream] \in Ended /\ me.frames = {}
  /\ me' = broken(me) /\ UNCHANGED acts
StreamBreaks == Act /\ me.stream # None /\ me' = broken(me)

(* slow: an answer is still on its way when the next one is asked for.      *)
Tick == me.poll # None /\ Cardinality(me.polls) < 2
  /\ me' = [me EXCEPT !.polls = @ \cup {[job |-> me.poll, status |-> me.server[me.poll]]},
                      !.slow = @ \/ me.polls # {}]
  /\ UNCHANGED acts
PollAnswered == \E p \in me.polls :
  LET q == onExtractState([me EXCEPT !.polls = @ \ {p}], p.job, p.status)
  IN /\ me' = (IF ends(me, p.job, p.status) THEN [q EXCEPT !.poll = None] ELSE q)
     /\ UNCHANGED acts
PollFails == Act /\ \E p \in me.polls : me' = [me EXCEPT !.polls = @ \ {p}]

CardLeaves == \E j \in me.leaving :
  me' = [me EXCEPT !.leaving = @ \ {j}, !.card = IF @.id = j THEN NoCard ELSE @] /\ UNCHANGED acts

(* ------------------------------- the server ----------------------------- *)
ServerEnds == \E j \in Jobs, status \in Ended :
  /\ me.server[j] = "running"
  /\ me' = [me EXCEPT !.server[j] = status,
                      !.frames = IF me.stream = j THEN @ \cup {status} ELSE @]
  /\ UNCHANGED acts

ExtractNext ==
  \/ startExtraction \/ Accepted \/ Refused \/ Frame \/ StreamEnds \/ StreamBreaks
  \/ Tick \/ PollAnswered \/ PollFails \/ CardLeaves \/ ServerEnds

(* Frames, timers and answers come; jobs end.                               *)
ExtractFairness ==
  /\ WF_extractVars(Frame \/ StreamEnds) /\ WF_extractVars(Tick) /\ WF_extractVars(CardLeaves)
  /\ WF_extractVars(PollAnswered) /\ WF_extractVars(ServerEnds)
ExtractSpec == ExtractInit /\ [][ExtractNext]_extractVars /\ ExtractFairness

(* ------------------------------ properties ------------------------------ *)
(* The split is asked for once, for an import that is done, as long as the  *)
(* answers keep up with the questions.                                      *)
SplitAskedOnce ==
  \A j \in Jobs : me.splits[j] > 0 =>
    me.server[j] = "done" /\ (me.slow \/ me.splits[j] = 1)

(* What makes it inductive: an import is followed in one way at a time, and *)
(* no longer once its split was asked for; what its frames and answers say  *)
(* is so for good.                                                          *)
OneWay == me.stream # None => me.poll = None /\ \A p \in me.polls : p.job # me.stream
FollowedIsKnown ==
  /\ \A j \in {me.stream, me.poll} \ {None} : me.server[j] # None
  /\ me.stream = None => me.frames = {}
  /\ \A p \in me.polls : me.server[p.job] # None
SaidIsSo ==
  /\ "done" \in me.frames => me.server[me.stream] = "done"
  /\ \A p \in me.polls : p.status = "done" => me.server[p.job] = "done"
AnswersKeepUp == ~me.slow => \A p, q \in me.polls : p = q
SplitIsLast ==
  \A j \in Jobs : me.splits[j] > 0 =>
    j \notin {me.stream, me.poll} /\ (me.slow \/ \A p \in me.polls : p.job # j)
ExtractIInv ==
  /\ ExtractTypeOK /\ OneWay /\ FollowedIsKnown /\ SaidIsSo /\ AnswersKeepUp /\ SplitIsLast
  /\ SplitAskedOnce

(* Must end, whatever streams break and answers fail: the card of an import *)
(* whose submission is answered, and the asking after it; unless another    *)
(* import was submitted while it was followed.                              *)
Following == ~me.again /\ me.asked = {} /\ (me.card # NoCard \/ me.poll # None)
=============================================================================
