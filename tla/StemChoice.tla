----------------------------- MODULE StemChoice ------------------------------
(***************************************************************************)
(* What an import will be: the stem chips, the All button and the          *)
(* All / Lead + Backing switch of src/static/js/main.js, kept by state.js, *)
(* the files dropped on the form, and the submit handler of job.js that    *)
(* reads them all, some of them only once the upload has been answered.    *)
(***************************************************************************)
EXTENDS Integers, FiniteSets

CONSTANTS
  Stems,    \* the stems a track is separated into
  Vocals,   \* the one the switch is about
  MaxJobs,  \* bound: imports accepted
  MaxActs   \* bound: what the user does

VARIABLES ic, acts

choiceVars == <<ic, acts>>
Requests == [stems : SUBSET Stems, split : BOOLEAN, file : 0..MaxActs]
Jobs ==
  [asked : SUBSET Stems, recorded : SUBSET Stems, split : BOOLEAN, wanted : BOOLEAN, told : BOOLEAN,
   file : 0..MaxActs]
NoRequest == [stems |-> {}, split |-> FALSE, file |-> -1]

ChoiceAssumption == Vocals \in Stems /\ MaxActs \in Nat

ChoiceRecords ==
  [sel : SUBSET Stems, chips : SUBSET Stems, strip : SUBSET Stems, all : BOOLEAN, switch : BOOLEAN,
   split : BOOLEAN, mode : BOOLEAN, store : SUBSET Stems, storeSplit : BOOLEAN, read : BOOLEAN,
   readSplit : BOOLEAN, painted : BOOLEAN, raced : BOOLEAN, clicked : BOOLEAN, file : 0..MaxActs,
   request : Requests \cup {NoRequest}, jobs : SUBSET Jobs]
ChoiceTypeOK == ic \in ChoiceRecords /\ acts \in 0..MaxActs

(* A page starts with every stem; the store answers later. `painted': the   *)
(* chips have been drawn since the selection last changed; `mode': the      *)
(* pressed half of the switch.                                              *)
Page(q) ==
  [sel |-> Stems, chips |-> Stems, strip |-> Stems, all |-> TRUE, switch |-> TRUE, split |-> FALSE,
   mode |-> FALSE, store |-> q.store, storeSplit |-> q.storeSplit, read |-> FALSE, readSplit |-> FALSE,
   painted |-> TRUE, raced |-> FALSE, clicked |-> FALSE, file |-> 0, request |-> NoRequest, jobs |-> q.jobs]

ChoiceInit ==
  /\ ic = Page([store |-> {}, storeSplit |-> FALSE, jobs |-> {}])
  /\ acts = 0

Act == acts < MaxActs /\ acts' = acts + 1
PageOpened == Act /\ ic' = Page(ic)

(* ------------------------------ the choice ------------------------------ *)
refreshStemChoiceVisuals(q) == [q EXCEPT !.chips = q.sel, !.switch = Vocals \in q.sel, !.painted = TRUE]
saveSelectedStems(q) == [q EXCEPT !.store = q.sel, !.raced = @ \/ ~q.read]
buildStripStems(q) == [q EXCEPT !.strip = q.sel]
savedAndPainted(q) == [buildStripStems(refreshStemChoiceVisuals(saveSelectedStems(q))) EXCEPT !.clicked = TRUE]
changed(q) == [savedAndPainted(q) EXCEPT !.all = (q.sel = Stems)]

(* Two answers of the store, in either order. An empty selection counts as  *)
(* none. Neither answer draws anything.                                     *)
SelectionAnswers ==
  /\ ~ic.read
  /\ ic' = IF ic.store = {} THEN [ic EXCEPT !.read = TRUE]
           ELSE [ic EXCEPT !.read = TRUE, !.sel = ic.store, !.painted = FALSE]
  /\ UNCHANGED acts
SplitAnswers ==
  /\ ~ic.readSplit /\ ic' = [ic EXCEPT !.readSplit = TRUE, !.split = @ \/ ic.storeSplit]
  /\ UNCHANGED acts

(* The page draws them when the language and the move to the store are      *)
(* through: first the chips, then the switch.                               *)
ChipsDrawn == ic.read /\ ic' = refreshStemChoiceVisuals(ic) /\ UNCHANGED acts
ModeDrawn == ic.read /\ ic.painted /\ ic.readSplit /\ ic' = [ic EXCEPT !.mode = ic.split] /\ UNCHANGED acts

(* The first chip clicked is the only one; the last one let go is all.      *)
toggled(sel, stem) == IF sel = Stems THEN {stem} ELSE IF stem \in sel THEN sel \ {stem} ELSE sel \cup {stem}
chosen(sel, stem) == LET next == toggled(sel, stem) IN IF next = {} /\ sel # {} THEN Stems ELSE next

handleStemChoiceClick == Act /\ \E stem \in Stems : ic' = changed([ic EXCEPT !.sel = chosen(@, stem)])
AllClicked == Act /\ ic' = changed([ic EXCEPT !.sel = IF @ = Stems THEN {} ELSE Stems])
setVocalSplitMode == Act /\ ic.switch /\
  \E mode \in BOOLEAN : ic' = [ic EXCEPT !.split = mode, !.mode = mode, !.storeSplit = mode, !.raced = @ \/ ~ic.readSplit]

(* ------------------------------- the form ------------------------------- *)
FilePicked == Act /\ ic' = [ic EXCEPT !.file = acts + 1]
clearFile == Act /\ ic.file # 0 /\ ic' = [ic EXCEPT !.file = 0]

Submit == Act /\ ic.request = NoRequest /\ Cardinality(ic.jobs) < MaxJobs /\
  ic' = [ic EXCEPT !.request = [stems |-> ic.sel, split |-> ic.split /\ Vocals \in ic.sel, file |-> ic.file]]

(* The library entry and the split are taken from the page as it is now.    *)
(* A submit whose answer is lost may have left a job on the server all the  *)
(* same, `told' to nobody, and its file stays armed.                        *)
job(q) ==
  [asked |-> q.request.stems, recorded |-> q.sel, wanted |-> q.request.split, told |-> TRUE,
   split |-> q.split /\ Vocals \in q.sel, file |-> q.request.file]
untold(q) == [job(q) EXCEPT !.told = FALSE, !.recorded = {}, !.split = FALSE]
registered(q) == [q EXCEPT !.request = NoRequest, !.jobs = @ \cup {job(q)}]
accepted(q) ==
  LET w == registered(q) IN IF q.request.file = 0 THEN w ELSE [w EXCEPT !.file = 0]

Accepted == ic.request # NoRequest /\ ic' = accepted(ic) /\ UNCHANGED acts
Refused == ic.request # NoRequest /\ UNCHANGED acts /\
  \E left \in {{}, {untold(ic)}} : ic' = [ic EXCEPT !.request = NoRequest, !.jobs = @ \cup left]

ChoiceNext ==
  \/ PageOpened \/ SelectionAnswers \/ SplitAnswers \/ ChipsDrawn \/ ModeDrawn \/ handleStemChoiceClick \/ AllClicked
  \/ setVocalSplitMode \/ FilePicked \/ clearFile \/ Submit \/ Accepted \/ Refused

ChoiceSpec == ChoiceInit /\ [][ChoiceNext]_choiceVars

(* ------------------------------ properties ------------------------------ *)
(* Chips, switch, All button and strip say what the next import will be.    *)
(* The chips and the switch do so but for the time from the store's answer  *)
(* to their next drawing: there they show every stem while the import would *)
(* take the stored ones. The button and the strip say it from the first     *)
(* click on: a selection that comes from the store leaves them lit.         *)
ControlsShowTheChoice ==
  /\ ic.painted => ic.chips = ic.sel /\ ic.switch = (Vocals \in ic.sel)
  /\ ~ic.painted /\ ~ic.raced => ic.read /\ ic.chips = Stems /\ ic.switch /\ ic.sel = ic.store
  /\ ic.clicked /\ ~ic.raced => ic.all = (ic.sel = Stems) /\ ic.strip = ic.sel
  /\ ic.mode # ic.split => ic.split /\ ic.readSplit

(* The next page starts from this choice, the empty one excepted, which     *)
(* only the All button can make and which stands for every stem there.      *)
ChoiceIsKept ==
  ~ic.raced =>
    /\ ic.read /\ ic.store # {} => ic.sel = ic.store
    /\ ic.read /\ ic.store = {} => ic.sel \in {{}, Stems}
    /\ ic.readSplit => ic.split = ic.storeSplit

(* The chips cannot be clicked away: only the All button leaves none.        *)
ChipsNeverEmpty == ic.sel # {} /\ ic'.sel = {} => ic.sel = Stems

(* A file the page knows the server to have is no longer armed: it is       *)
(* imported once, whatever is clicked while it uploads. Only a file whose   *)
(* answer was lost can go up again.                                         *)
ImportedOnce ==
  \A j \in ic.jobs : j.told /\ j.file # 0 => j.file # ic.file /\ j.file # ic.request.file

(* What makes them inductive: until the store has answered, a choice made   *)
(* is one that raced it, and a file picked is newer than those imported.    *)
ClicksRace == ic.clicked => ic.read \/ ic.raced
UntouchedIsWhole ==
  ~ic.raced => (~ic.read => ic.sel = Stems /\ ic.painted) /\ (~ic.readSplit => ~ic.split /\ ~ic.mode)
FilesAreOlder == ic.file <= acts /\ ic.request.file <= acts /\ \A j \in ic.jobs : j.file <= acts
ChoiceIInv ==
  /\ ChoiceTypeOK /\ ClicksRace /\ UntouchedIsWhole /\ FilesAreOlder
  /\ ControlsShowTheChoice /\ ChoiceIsKept /\ ImportedOnce
=============================================================================
