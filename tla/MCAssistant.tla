---------------------------- MODULE MCAssistant ----------------------------
(***************************************************************************)
(* Two requests and three sessions: both requests may share a session,     *)
(* name an archived one, or open their own.                                *)
(***************************************************************************)
EXTENDS Assistant, TLC

CONSTANTS c1, c2, s1, s2, s3

Interchangeable == Permutations(Chat) \cup Permutations(Session)
=============================================================================
