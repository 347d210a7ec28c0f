-------------------------- MODULE MCOrderLifecycle --------------------------
(***************************************************************************)
(* OrderLifecycle for TLC: the requests are interchangeable, and Targets   *)
(* leaves out statuses that play the part of another one.                  *)
(***************************************************************************)
EXTENDS OrderLifecycle, TLC

Interchangeable == Permutations(Requests)
=============================================================================
