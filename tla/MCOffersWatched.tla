-------------------------- MODULE MCOffersWatched --------------------------
(***************************************************************************)
(* OffersWatched for TLC.                                                  *)
(***************************************************************************)
EXTENDS MCOffers, OffersWatched
=============================================================================
