------------------------------ MODULE MCDirect ------------------------------
(***************************************************************************)
(* An instance of DirectGateway with two requests in progress: equal image *)
(* requests, equal video requests, and every mixture of them.              *)
(***************************************************************************)
EXTENDS DirectGateway

CONSTANTS i1, i2, v1, v2, image, video, first, second

MCKindOf == [j \in Job |-> IF j \in {i1, i2} THEN "image" ELSE "video"]
MCRequestKind == [r \in Request |-> IF r = image THEN "image" ELSE "video"]
MCHashOf == [r \in Request |-> r]
MCChain == <<first, second>>
=============================================================================
