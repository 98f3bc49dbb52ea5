------------------------------- MODULE Search -------------------------------
(***************************************************************************)
(* Live search in the topbar: src/static/js/search.js.                     *)
(*                                                                         *)
(* What is typed is searched for after a pause, under the open tab.  A     *)
(* newer search, a tab, a link, a pick or a click elsewhere make an answer *)
(* on its way obsolete; a row may be auditioned before it is picked.       *)
(* Answers have two rows here, the second too long to be imported.         *)
(***************************************************************************)
EXTENDS Integers, FiniteSets

CONSTANTS
  Queries,
  MaxActs  \* bound: what the user does

VARIABLES se, acts

searchVars == <<se, acts>>
None == "none"
Tabs == {"songs", "playlists"}
Asked == [query : Queries, tab : Tabs]
Nothing == [query |-> None, tab |-> None]
Rows == 0..1
TooLong == 1
Silent == [of |-> Nothing, row |-> -1]

SearchAssumption == None \notin Queries /\ MaxActs \in Nat

SearchRecords ==
  [text : Queries \cup {None}, tab : Tabs, timer : Queries \cup {None}, lastQuery : Queries \cup {None},
   open : BOOLEAN, flights : SUBSET [n : 1..MaxActs, of : Asked], mine : 0..MaxActs,
   items : Asked \cup {Nothing}, rows : Asked \cup {Nothing},
   status : {"clear", "searching", "none", "failed"}, cursor : {-1} \cup Rows, buttons : BOOLEAN,
   preview : [of : Asked, row : Rows] \cup {Silent}]
SearchTypeOK == se \in SearchRecords /\ acts \in 0..MaxActs

(* None is a text that is too short, or a link.                             *)
SearchInit ==
  /\ se = [text |-> None, tab |-> "songs", timer |-> None, lastQuery |-> None, open |-> FALSE,
           flights |-> {}, mine |-> 0, items |-> Nothing, rows |-> Nothing, status |-> "clear",
           cursor |-> -1, buttons |-> FALSE, preview |-> Silent]
  /\ acts = 0

Act == acts < MaxActs /\ acts' = acts + 1

stopPreview(s) == [s EXCEPT !.preview = Silent]

(* The status line takes the place of the rows.                             *)
setStatus(s, text) == [stopPreview(s) EXCEPT !.rows = Nothing, !.status = text]

close(s) ==
  [stopPreview(s) EXCEPT !.timer = None, !.mine = 0, !.items = Nothing, !.cursor = -1,
                         !.lastQuery = None, !.open = FALSE]

schedule(s, force) ==
  IF s.text = None THEN close(s)
  ELSE IF ~force /\ s.text = s.lastQuery THEN [s EXCEPT !.timer = None]
  ELSE [s EXCEPT !.timer = s.text]

(* Every search has a controller of its own, and ends the one before it.    *)
Fresh(s) == CHOOSE n \in 1..MaxActs : n \notin {f.n : f \in s.flights}
run(s, query) ==
  LET n == Fresh(s)
  IN [setStatus(s, "searching") EXCEPT !.mine = n, !.open = TRUE,
        !.flights = @ \cup {[n |-> n, of |-> [query |-> query, tab |-> s.tab]]}]

landsAnyway(s, f) == TRUE
lands(s, f) == f.n = s.mine

(* A playlist has nothing to audition; the open tab says what the rows are. *)
rendered(s, of) ==
  [stopPreview(s) EXCEPT !.items = of, !.rows = of, !.status = "clear", !.cursor = -1,
                         !.buttons = s.tab = "songs"]
failed(s) == [setStatus(s, "failed") EXCEPT !.items = Nothing, !.lastQuery = None]

(* ------------------------------- the steps ------------------------------ *)
Type == Act /\ \E text \in Queries \cup {None} :
  text # se.text /\ se' = schedule([se EXCEPT !.text = text], FALSE)

TimerDue == se.timer # None /\
  se' = run([se EXCEPT !.timer = None, !.lastQuery = se.timer], se.timer) /\ UNCHANGED acts

(* An answer that came too late is dropped; a failed search may be typed    *)
(* again.                                                                   *)
Answered == \E f \in se.flights :
  LET q == [se EXCEPT !.flights = @ \ {f}]
  IN /\ \/ ~lands(se, f) /\ se' = q
        \/ lands(se, f) /\ se' = rendered(q, f.of)
        \/ lands(se, f) /\ se' = [setStatus(q, "none") EXCEPT !.items = Nothing]
        \/ lands(se, f) /\ se' = failed(q)
     /\ UNCHANGED acts

ClickTab == Act /\ se.open /\ \E tab \in Tabs :
  se' = schedule([se EXCEPT !.tab = tab, !.items = Nothing, !.lastQuery = None], TRUE)

Dismiss == Act /\ se.open /\ se' = close(se)

highlight == Act /\ se.open /\ se.rows # Nothing /\ se' = [se EXCEPT !.cursor = (@ + 1) % 2]

startPreview == Act /\ se.open /\ se.rows # Nothing /\ se.buttons /\ se.items # Nothing /\ \E row \in Rows :
  se' = (IF se.preview.row = row THEN stopPreview(se)
         ELSE [se EXCEPT !.preview = [of |-> se.items, row |-> row]])

Pickable(row) == se.items # Nothing /\ row # TooLong
ClickRow == Act /\ se.open /\ se.rows # Nothing /\ \E row \in Rows :
  Pickable(row) /\ se' = close([se EXCEPT !.text = None])
PressEnter == Act /\ se.open /\ se.cursor >= 0 /\ Pickable(se.cursor) /\
  se' = close([se EXCEPT !.text = None])

SearchNext ==
  \/ Type \/ TimerDue \/ Answered \/ ClickTab \/ Dismiss \/ highlight \/ startPreview
  \/ ClickRow \/ PressEnter

SearchSpec == SearchInit /\ [][SearchNext]_searchVars

(* ------------------------------ properties ------------------------------ *)
(* The rows on the screen answer what is typed, under the tab that is open, *)
(* unless that is about to be asked.                                        *)
RowsAnswerTheBox ==
  se.open /\ se.rows # Nothing /\ se.timer = None =>
    /\ se.rows = [query |-> se.lastQuery, tab |-> se.tab]
    /\ se.text = se.lastQuery

(* What plays is a row that can be seen, and is stopped from there.         *)
PreviewHasItsRow ==
  se.preview # Silent => se.open /\ se.rows = se.preview.of

(* Enter takes a row that can be seen, once no search is on its way.        *)
EnterTakesAShownRow ==
  se.open /\ se.cursor >= 0 /\ se.items # Nothing /\ se.status # "searching" => se.rows = se.items

(* What makes them inductive: what is about to be asked is in the box; the  *)
(* search on its way is for what was asked last, under the tab it was asked *)
(* under, unless another is about to be; no two on their way share a        *)
(* number, and each was an act of the user.                                 *)
TimerHasTheBox == se.timer # None => se.text = se.timer
AskedLast(of) == se.lastQuery # None /\ of = [query |-> se.lastQuery, tab |-> se.tab]
MineIsLast ==
  se.open => /\ se.timer = None /\ se.lastQuery # None => se.text = se.lastQuery
             /\ \A f \in se.flights : f.n = se.mine => AskedLast(f.of) \/ (se.lastQuery = None /\ se.timer # None)
             /\ se.rows # Nothing => AskedLast(se.rows) \/ (se.lastQuery = None /\ se.timer # None)
ItemsAreShown ==
  se.open /\ se.items # Nothing => IF se.status = "searching" THEN se.rows = Nothing ELSE se.rows = se.items
ClosedIsSilent == ~se.open => se.mine = 0 /\ se.lastQuery = None /\ se.preview = Silent /\ se.items = Nothing
NumbersApart == \A f, g \in se.flights : f.n = g.n => f = g
FlightsCounted ==
  IsFiniteSet(se.flights) /\ Cardinality(se.flights) + (IF se.timer = None THEN 0 ELSE 1) <= acts
SearchIInv ==
  /\ SearchTypeOK /\ TimerHasTheBox /\ MineIsLast /\ ItemsAreShown /\ ClosedIsSilent /\ NumbersApart
  /\ FlightsCounted /\ RowsAnswerTheBox /\ PreviewHasItsRow /\ EnterTakesAShownRow
=============================================================================
