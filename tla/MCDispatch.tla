----------------------------- MODULE MCDispatch -----------------------------
(***************************************************************************)
(* DispatchWatched for TLC: orders, drivers and tasks are interchangeable. *)
(***************************************************************************)
EXTENDS DispatchWatched, TLC

Interchangeable == Permutations(Orders) \cup Permutations(Drivers) \cup Permutations(Tasks)
=============================================================================
