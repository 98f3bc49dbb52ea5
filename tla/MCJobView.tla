----------------------------- MODULE MCJobView -----------------------------
(* Two imports, one of them with a vocal split, and one track in the library. *)
EXTENDS JobView, TLC

CONSTANTS j1, j2, t1

TwoJobs == {j1, j2}
FirstSplits == {j1}
OneTrack == {t1}
SomeSubmissions == {<<"files", <<j1>>>>, <<"files", <<j2>>>>, <<"files", <<j1, j2>>>>,
                    <<"playlist", <<j2>>>>}
=============================================================================
