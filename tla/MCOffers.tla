------------------------------ MODULE MCOffers ------------------------------
(***************************************************************************)
(* Offers for TLC: orders, drivers and tasks are interchangeable.          *)
(***************************************************************************)
EXTENDS Offers, TLC

Interchangeable == Permutations(Orders) \cup Permutations(Drivers) \cup Permutations(Tasks)
=============================================================================
