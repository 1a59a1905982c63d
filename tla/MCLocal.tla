------------------------------ MODULE MCLocal ------------------------------
(***************************************************************************)
(* Instances of LocalGateway with the jobs "vid" and "img".                *)
(***************************************************************************)
EXTENDS LocalGateway

MCKindOf == [j \in Job |-> IF j = "vid" THEN "video" ELSE "image"]
=============================================================================
