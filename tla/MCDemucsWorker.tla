---------------------------- MODULE MCDemucsWorker ----------------------------
(* Small instances of DemucsWorker for TLC. *)
EXTENDS DemucsWorker, TLC

CONSTANTS j1, j2, t1, t2

OneJob     == {j1}
TwoJobs    == {j1, j2}
OneThread  == {t1}
TwoThreads == {t1, t2}
AnyDevice  == {"gpu", "cpu"}

(* Jobs and cancel threads are interchangeable; used for invariants only. *)
Symmetry == Permutations(TwoJobs) \cup Permutations(TwoThreads)
=============================================================================
