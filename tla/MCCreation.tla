----------------------------- MODULE MCCreation -----------------------------
(***************************************************************************)
(* CreationWatched for TLC: requests are interchangeable, and so are the   *)
(* forms, each with its own key.                                           *)
(***************************************************************************)
EXTENDS CreationWatched, TLC

Interchangeable == Permutations(Tasks) \cup Permutations(Forms)
=============================================================================
