---------------------------- MODULE OffersWatched ----------------------------
(***************************************************************************)
(* Offers, remembering as DispatchWatched does whether a call has died.    *)
(***************************************************************************)
EXTENDS Offers, DispatchWatched

WatchedOffersInit == OffersInit /\ died = FALSE

WatchedOffersNext ==
  \/ Lapse /\ UNCHANGED died
  \/ \E t \in Tasks : CallNext(t) /\ UNCHANGED died
  \/ \E t \in Tasks : CallFails(t) /\ died' = TRUE

WatchedOffersSpec == WatchedOffersInit /\ [][WatchedOffersNext]_<<allVars, died>>

(***************************************************************************)
(* offers.service.ts:129-132: with one call at a time and no death, once   *)
(* acceptOffer has returned no offer for the same order is in wait.        *)
(***************************************************************************)
AcceptanceClosesOffers == ~ died => AcceptanceCloses
=============================================================================
