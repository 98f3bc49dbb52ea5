---------------------------- MODULE StoreMigration ----------------------------
(***************************************************************************)
(* Moving the user's data from localStorage into the desktop store at the  *)
(* start of the app: runStoreMigrationIfNeeded of src/static/js/utils.js.  *)
(* The store is a command of the shell: a call may fail, and the app may   *)
(* be closed at any point.  The shell empties localStorage when a new      *)
(* version starts and the flag was written.  A value is the number of the  *)
(* write it comes from: 1 for what the version before left.                *)
(***************************************************************************)
EXTENDS Integers, FiniteSets

CONSTANTS
  Fixed,    \* the keys that decide whether there is anything to copy
  Chips,    \* those of them that can be set before the migration is over
  Mixes,    \* the mixes of single tracks, copied when one of those is
  MaxActs   \* bound: writes of the user and starts of the app

VARIABLES sm, acts

migrationVars == <<sm, acts>>
Keys == Fixed \cup Mixes
None == 0
Values == 0..(MaxActs + 1)

(* todo: the keys still to be asked for or copied; missing: whether one was *)
(* found in localStorage only; latest: what the user set last.              *)
MigrationAssumption == Fixed # {} /\ MaxActs \in Nat

StoreRecords ==
  [web : [Keys -> Values], store : [Keys -> Values], latest : [Keys -> Values],
   at : {"check", "copy", "flag", "ready"}, todo : SUBSET Keys, found : SUBSET Fixed, flag : BOOLEAN,
   disturbed : SUBSET {"failure", "closed", "write"}]
StoreTypeOK == sm \in StoreRecords /\ acts \in 0..MaxActs

(* An old user's page: a track with a mix is in the library, so the fixed   *)
(* keys are there when a mix is.                                            *)
StoreInit ==
  /\ \E have \in SUBSET Keys :
       /\ have \cap Mixes # {} => Fixed \subseteq have
       /\ LET old == [k \in Keys |-> IF k \in have THEN 1 ELSE None]
          IN sm = [web |-> old, store |-> [k \in Keys |-> None], latest |-> old, at |-> "check", todo |-> Fixed,
                   found |-> {}, flag |-> FALSE, disturbed |-> {}]
  /\ acts = 0

Act == acts < MaxActs /\ acts' = acts + 1
During(what, q) == IF q.at = "ready" THEN q.disturbed ELSE q.disturbed \cup {what}

(* ---------------------------- the migration ----------------------------- *)
present(k) == {key \in {k} : sm.web[key] # None}
needs(q) == q.found # {}
checked(q) == IF needs(q) THEN [q EXCEPT !.at = "copy", !.todo = {k \in Keys : q.web[k] # None}]
              ELSE [q EXCEPT !.at = "flag"]

CheckKey == sm.at = "check" /\ (\E k \in sm.todo :
  LET q == [sm EXCEPT !.todo = @ \ {k}, !.found = IF sm.store[k] = None THEN @ \cup present(k) ELSE @]
  IN sm' = IF q.todo = {} THEN checked(q) ELSE q) /\ UNCHANGED acts

(* A key that could not be asked for ends the migration, without a flag.    *)
CheckFailed == sm.at = "check" /\
  sm' = [sm EXCEPT !.at = "ready", !.todo = {}, !.disturbed = @ \cup {"failure"}] /\ UNCHANGED acts

(* The fixed keys first; one that could not be copied is left behind.       *)
next(q) == IF q.todo \cap Fixed # {} THEN q.todo \cap Fixed ELSE q.todo
copied(q, k) == [q EXCEPT !.todo = @ \ {k}, !.at = IF q.todo = {k} THEN "flag" ELSE @]
CopyKey == sm.at = "copy" /\
  (\E k \in next(sm) : sm' = [copied(sm, k) EXCEPT !.store[k] = sm.web[k]]) /\ UNCHANGED acts
CopyFailed == sm.at = "copy" /\
  (\E k \in next(sm) : sm' = [copied(sm, k) EXCEPT !.disturbed = @ \cup {"failure"}]) /\ UNCHANGED acts

MarkDone == sm.at = "flag" /\
  (\E written \in BOOLEAN : sm' = [sm EXCEPT !.at = "ready", !.flag = @ \/ written]) /\ UNCHANGED acts

(* ------------------------ the user and the shell ------------------------ *)
(* The stem chips are there before the migration, the rest comes after it.  *)
storeSet == Act /\ \E k \in Keys :
  /\ sm.at # "ready" => k \in Chips
  /\ sm' = [sm EXCEPT !.store[k] = acts + 2, !.latest[k] = acts + 2, !.disturbed = During("write", sm)]

Restarted(q) == [q EXCEPT !.at = "check", !.todo = Fixed, !.found = {}, !.disturbed = During("closed", q)]
AppStarted == Act /\ sm' = Restarted(sm)
clear_webkit_data(q) == IF q.flag THEN [q EXCEPT !.web = [k \in Keys |-> None]] ELSE q
NewVersionStarted == Act /\ sm' = Restarted(clear_webkit_data(sm))

MigrationNext ==
  \/ CheckKey \/ CheckFailed \/ CopyKey \/ CopyFailed \/ MarkDone
  \/ storeSet \/ AppStarted \/ NewVersionStarted
MigrationSpec == StoreInit /\ [][MigrationNext]_migrationVars

(* ------------------------------ properties ------------------------------ *)
(* A migration that ran to its end, with no failed call, no restart and no  *)
(* write in the middle of it, leaves the user with what was set last, over  *)
(* any number of later starts and versions.                                 *)
NothingReverts ==
  sm.at = "ready" /\ sm.disturbed = {} => \A k \in Keys : sm.store[k] = sm.latest[k]

(* What makes it inductive: undisturbed, a store was either moved into or   *)
(* not yet touched, and then what was found is what is there to be moved;   *)
(* while it is copied, each key is in its old place or in its new one.      *)
Moved == \A k \in Keys : sm.store[k] = sm.latest[k]
Untouched == \A k \in Keys : sm.store[k] = None /\ sm.web[k] = sm.latest[k]
OldIsKnown == \A k \in Keys : sm.web[k] # None => sm.latest[k] # None
MixesHaveTracks == (\E k \in Mixes : sm.web[k] # None) => \A k \in Fixed : sm.web[k] # None
ChecksFixed == sm.at = "check" => sm.todo \subseteq Fixed
WholeSoFar ==
  sm.disturbed = {} =>
    /\ sm.at \in {"flag", "ready"} \/ sm.flag => Moved
    /\ sm.at = "check" =>
         \/ Moved /\ sm.found = {}
         \/ Untouched /\ sm.found = {k \in Fixed \ sm.todo : sm.web[k] # None}
    /\ sm.at = "copy" => \A k \in Keys :
         IF k \in sm.todo THEN sm.web[k] = sm.latest[k] ELSE sm.store[k] = sm.latest[k]
MigrationIInv ==
  StoreTypeOK /\ OldIsKnown /\ MixesHaveTracks /\ ChecksFixed /\ WholeSoFar /\ NothingReverts
=============================================================================
