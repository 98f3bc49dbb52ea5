--------------------------- MODULE Notifications ----------------------------
(***************************************************************************)
(* The notification centre: src/static/js/notifications.js.                *)
(*                                                                         *)
(* Failures are reported by whoever notices them, the same one more than   *)
(* once; they are listed newest first, kept in the store and merged with   *)
(* what the store held when the page was opened.  The details of one are   *)
(* asked for when it is looked at, and written into it when they come, or  *)
(* that there are none when they do not.                                   *)
(***************************************************************************)
EXTENDS Integers, Sequences, FiniteSets, SequencesExt

CONSTANTS
  Jobs,
  MaxFailures,  \* MAX_FAILURES
  MaxActs       \* bound: reports and what the user does

VARIABLES nt, acts

notifVars == <<nt, acts>>
None == "none"
Kinds == {"import", "playback"}

(* rich: it has a detail or a cause.  An empty tail counts as one, and is   *)
(* not asked for again.                                                     *)
Details == {"unasked", "empty", "there"}
Failures == [id : 1..MaxActs, at : 1..MaxActs, kind : Kinds, job : Jobs \cup {None},
             rich : BOOLEAN, tail : Details, traceback : Details]
Lists == Seq(Failures)
Requests == (1..MaxActs) \X (1..MaxActs)  \* for the failure of a moment, and by which act

NotifAssumption == MaxFailures \in Nat \ {0} /\ MaxActs \in Nat /\ None \notin Jobs

NotifTypeOK ==
  /\ nt.list \in Lists /\ Len(nt.list) <= MaxFailures /\ nt.stored \in Lists
  /\ nt.page \in {"opening", "reading", "open"} /\ nt.read \in Lists
  /\ nt.asked \subseteq Requests /\ nt.early \in BOOLEAN /\ acts \in 0..MaxActs

NotifInit ==
  /\ nt = [list |-> <<>>, stored |-> <<>>, page |-> "opening", read |-> <<>>, asked |-> {},
           early |-> FALSE]
  /\ acts = 0

Act == acts < MaxActs /\ acts' = acts + 1

persist(n) == [n EXCEPT !.stored = n.list]
First(list, max) == SubSeq(list, 1, IF Len(list) < max THEN Len(list) ELSE max)
Kept(list, gone) ==
  LET kept[n \in 0..Len(list)] ==
        IF n = 0 THEN <<>> ELSE IF list[n] \in gone THEN kept[n - 1] ELSE Append(kept[n - 1], list[n])
  IN kept[Len(list)]

(* A sighting of what is already listed: by its job, or by its wording      *)
(* within a few seconds (here: the very next thing that happens).           *)
same(r, f) ==
  f.kind = r.kind /\ (IF r.job # None THEN f.job = r.job ELSE r.at - f.at < 2)

(* The later sighting takes the place of the earlier, with what either of   *)
(* them knew, but for the traceback, which stays behind.                    *)
refreshed(r, prev) == [r EXCEPT !.id = prev.id, !.rich = @ \/ prev.rich, !.tail = prev.tail]

notifyFailure(n, r) ==
  LET dupes == {i \in DOMAIN n.list : same(r, n.list[i])}
      dupe == CHOOSE i \in dupes : \A k \in dupes : i <= k
      listed == IF dupes = {} THEN <<r>> \o n.list
                ELSE <<refreshed(r, n.list[dupe])>> \o RemoveAt(n.list, dupe)
  IN persist([n EXCEPT !.list = First(listed, MaxFailures), !.early = @ \/ n.page # "open"])

Report == Act /\ \E kind \in Kinds, job \in Jobs \cup {None}, rich \in BOOLEAN :
  nt' = notifyFailure(nt, [id |-> acts + 1, at |-> acts + 1, kind |-> kind, job |-> job,
                           rich |-> rich, tail |-> "unasked", traceback |-> "unasked"])

dismissed(n, gone) ==
  LET q == [n EXCEPT !.list = Kept(@, gone)]
  IN IF q.list = n.list THEN n ELSE [persist(q) EXCEPT !.early = @ \/ n.page # "open"]

dismissFailure == Act /\ \E id \in {nt.list[i].id : i \in DOMAIN nt.list} :
  nt' = dismissed(nt, {r \in Failures : r.id = id})
dismissFailuresByJobId == Act /\ \E job \in Jobs, kinds \in {Kinds} \cup {{k} : k \in Kinds} :
  nt' = dismissed(nt, {r \in Failures : r.job = job /\ r.kind \in kinds})
dismissFailuresByKind == Act /\ \E kind \in Kinds :
  nt' = dismissed(nt, {r \in Failures : r.job = None /\ r.kind = kind})
(* Clear all can be clicked, and is written, when nothing is listed too.    *)
cleared(n) == [persist([n EXCEPT !.list = <<>>]) EXCEPT !.early = @ \/ n.page # "open"]
clearFailures == Act /\ nt' = cleared(nt)

(* -------------------------------- details ------------------------------- *)
(* The request holds the record itself, which a later sighting replaces.    *)
openFailureDialog == Act /\ \E i \in DOMAIN nt.list :
  LET r == nt.list[i]
  IN r.job # None /\ r.tail = "unasked" /\ nt' = [nt EXCEPT !.asked = @ \cup {<<r.at, acts + 1>>}]

(* What was told is written; that nothing could be had only stands on the   *)
(* page, also over what an earlier answer had told.                         *)
told(n, at, details, cause) ==
  LET written(r) == [r EXCEPT !.tail = details, !.traceback = details, !.rich = @ \/ cause]
  IN [n EXCEPT !.list = [i \in DOMAIN @ |-> IF @[i].at = at THEN written(@[i]) ELSE @[i]]]

DetailsArrive == \E q \in nt.asked :
  LET n == [nt EXCEPT !.asked = @ \ {q}]
  IN /\ \/ \E cause \in BOOLEAN : nt' = persist(told(n, q[1], "there", cause))
        \/ nt' = told(n, q[1], "empty", FALSE)
     /\ UNCHANGED acts

(* ------------------------------- the page ------------------------------- *)
ReadStore == nt.page = "opening" /\
  nt' = [nt EXCEPT !.page = "reading", !.read = nt.stored] /\ UNCHANGED acts

(* Sorted by time, the order kept of what is of one moment.                 *)
newestFirst(all) ==
  LET place == CHOOSE p \in [DOMAIN all -> DOMAIN all] : \A i, k \in DOMAIN all : i < k =>
                 LET a == all[p[i]]  b == all[p[k]] IN a.at > b.at \/ (a.at = b.at /\ p[i] < p[k])
  IN [i \in DOMAIN all |-> all[place[i]]]

(* Merged, newest first; not written back.                                  *)
merged(live, read) ==
  LET known == {live[i].id : i \in DOMAIN live}
  IN First(newestFirst(live \o Kept(read, {r \in Failures : r.id \in known})), MaxFailures)
initNotifications == nt.page = "reading" /\
  nt' = [nt EXCEPT !.page = "open", !.read = <<>>, !.list = merged(nt.list, nt.read)]
  /\ UNCHANGED acts

Reload == Act /\ nt.page = "open" /\
  nt' = [nt EXCEPT !.page = "opening", !.list = <<>>, !.asked = {}]

NotifNext ==
  \/ Report \/ dismissFailure \/ dismissFailuresByJobId \/ dismissFailuresByKind \/ clearFailures
  \/ openFailureDialog \/ DetailsArrive \/ ReadStore \/ initNotifications \/ Reload

NotifSpec == NotifInit /\ [][NotifNext]_notifVars

(* ------------------------------ properties ------------------------------ *)
(* One failure of a job, one card, however many paths report it; and the    *)
(* cards run from the newest to the oldest.  (nt.early: something was       *)
(* reported or dismissed before the page had read its store.)               *)
OneCardPerFailure ==
  \A i, k \in DOMAIN nt.list : i < k =>
    /\ nt.list[i].at > nt.list[k].at
    /\ ~nt.early /\ nt.list[i].job # None =>
         nt.list[i].job # nt.list[k].job \/ nt.list[i].kind # nt.list[k].kind

(* Opened again, the page shows what it showed; only that details could not *)
(* be had is forgotten, and they can be asked for again.                    *)
Given(r, s) == r = s \/ r = [s EXCEPT !.tail = "empty", !.traceback = "empty"]
Mirrors(list, stored) ==
  Len(list) = Len(stored) /\ \A i \in DOMAIN list : Given(list[i], stored[i])
StoreKeepsTheList == nt.page = "open" /\ ~nt.early => Mirrors(nt.list, nt.stored)

(* A failure reported while the store is read is listed with what the store *)
(* held.  A later sighting knows the detail, the cause and the tail of the  *)
(* one it replaces, and only it forgets the traceback, for good if there is *)
(* a tail; else only an answer changes what is known.                       *)
SightingsAddUp ==
  /\ \A i \in DOMAIN nt.list, k \in DOMAIN nt'.list :
       LET r == nt.list[i]
           s == nt'.list[k]
       IN r.id = s.id =>
            /\ r.rich => s.rich
            /\ r.tail # s.tail => nt'.asked # nt.asked /\ s.tail # "unasked"
            /\ r.traceback # s.traceback => nt'.asked # nt.asked \/ s.at > r.at
  /\ nt.page = "reading" /\ nt'.page = "open" =>
       \A i \in DOMAIN nt.list : Len(nt'.list) = MaxFailures \/ \E k \in DOMAIN nt'.list : nt'.list[k] = nt.list[i]

(* What it rests on.  A list runs from the newest to the oldest, and no two *)
(* of its failures have one id; a failure of one moment has one id in every *)
(* list; and while nothing came early the store has what is listed, or will *)
(* be.                                                                      *)
Centres ==
  [list : Lists, stored : Lists, page : {"opening", "reading", "open"}, read : Lists,
   asked : SUBSET Requests, early : BOOLEAN]
Listed(s, n) ==
  /\ Len(s) <= MaxFailures
  /\ \A i, k \in DOMAIN s : i < k => s[i].at > s[k].at /\ s[i].id # s[k].id
  /\ \A i \in DOMAIN s : s[i].id <= s[i].at /\ s[i].at <= n
Agree(s, t) == \A i \in DOMAIN s, k \in DOMAIN t : s[i].at = t[k].at => s[i].id = t[k].id
OneEach(s) ==
  \A i, k \in DOMAIN s : i < k /\ s[i].job # None => s[i].job # s[k].job \/ s[i].kind # s[k].kind
Kempt(n) ==
  /\ OneEach(n.list) /\ OneEach(n.stored)
  /\ n.page = "open" => Mirrors(n.list, n.stored)
  /\ n.page # "open" => n.list = <<>> /\ n.asked = {}
  /\ n.page = "reading" => n.read = n.stored
NotifIInv ==
  /\ nt \in Centres /\ acts \in 0..MaxActs
  /\ Listed(nt.list, acts) /\ Listed(nt.stored, acts) /\ Listed(nt.read, acts)
  /\ Agree(nt.list, nt.stored) /\ Agree(nt.list, nt.read) /\ Agree(nt.stored, nt.read)
  /\ ~nt.early => Kempt(nt)
=============================================================================
