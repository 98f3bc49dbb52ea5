---------------------------- MODULE MCImportQueue ----------------------------
(* Small instances of ImportQueue for TLC. *)
EXTENDS ImportQueue, TLC

CONSTANTS u1, l1, t1, t2

OneUpload  == {u1}
TwoJobs    == {u1, l1}
OneThread  == {t1}
TwoThreads == {t1, t2}

(* The code never tells one threadpool thread from another. *)
Symmetry   == Permutations(TwoThreads)
=============================================================================
