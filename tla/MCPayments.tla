----------------------------- MODULE MCPayments -----------------------------
(***************************************************************************)
(* PaymentsWatched for TLC: tasks are interchangeable, and so are orders   *)
(* that have a fee.                                                        *)
(***************************************************************************)
EXTENDS PaymentsWatched, TLC

Interchangeable == Permutations(Tasks) \cup Permutations(Orders \ FreeOrders)
=============================================================================
