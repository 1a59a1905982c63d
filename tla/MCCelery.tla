------------------------------ MODULE MCCelery ------------------------------
(***************************************************************************)
(* Instances of CeleryGateway, with video jobs or with image jobs.         *)
(* Requests differ, so that admissions overlap.                            *)
(***************************************************************************)
EXTENDS CeleryGateway, TLC

MCVideos == [j \in Job |-> "video"]
MCImages == [j \in Job |-> "image"]
MCHashOf == [j \in Job |-> j]

\* Jobs and processes are interchangeable (dispatch ids are not: a fresh one
\* is chosen).
Interchangeable ==
    Permutations(Job) \cup Permutations(Worker) \cup Permutations(Dispatcher)
=============================================================================
