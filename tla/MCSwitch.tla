------------------------------ MODULE MCSwitch ------------------------------
(***************************************************************************)
(* Two jobs and two brokers, so that a switch may also change the broker.  *)
(***************************************************************************)
EXTENDS QueueSwitch, TLC

CONSTANTS j1, j2, r1, r2

Interchangeable == Permutations(Job) \cup Permutations(Broker)
=============================================================================
