------------------------------ MODULE MCAdmin ------------------------------
(***************************************************************************)
(* Two user names, two passwords, two sessions and one key.                *)
(***************************************************************************)
EXTENDS AdminAuth, TLC

Interchangeable == Permutations(Password) \cup Permutations(Token) \cup Permutations(User)
=============================================================================
