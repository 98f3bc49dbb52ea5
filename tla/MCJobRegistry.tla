---------------------------- MODULE MCJobRegistry ----------------------------
(* Small instances of JobRegistry for TLC. *)
EXTENDS JobRegistry

CONSTANTS u1, l1, t1, t2, s1, s2

TheUpload == {u1}
TheLink   == {l1}
Both      == {u1, l1}
OneThread == {t1}
TwoThreads == {t1, t2}
TwoStems  == {s1, s2}
OneStem   == {s1}
Nobody    == {}
=============================================================================
