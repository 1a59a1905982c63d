------------------------------ MODULE MCMedia ------------------------------
(***************************************************************************)
(* Two images with equal content, hence one file name, one generated by a  *)
(* worker and one by the API, and a video that either a worker imports or  *)
(* the API refreshes.                                                      *)
(***************************************************************************)
EXTENDS MediaStore, TLC

CONSTANTS a, b, v, n1, n2, w1, a1, up, Worker

TwoImages == [j \in {a, b, v} |-> IF j = v THEN "video" ELSE "image"]
Names == [j \in {a, b, v} |-> IF j = v THEN n2 ELSE n1]
OneEach == w1 :> Worker @@ a1 :> Api
=============================================================================
