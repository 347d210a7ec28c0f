--------------------------- MODULE PaymentsWatched ---------------------------
(***************************************************************************)
(* Payments, remembering two things, for what only holds until then: that  *)
(* a call has died, and that two were in progress at once.                 *)
(***************************************************************************)
EXTENDS Payments

VARIABLES died,  \* some call has died
          raced  \* two calls have been in progress at once

watched == <<vars, died, raced>>

WatchedInit == Init /\ died = FALSE /\ raced = FALSE

Remembers == raced' = (raced \/ \E t, u \in Tasks : t # u /\ task'[t] # Idle /\ task'[u] # Idle)

WatchedNext ==
  /\ \/ \E t \in Tasks : (Request(t) \/ Step(t)) /\ UNCHANGED died
     \/ \E t \in Tasks : Fail(t) /\ died' = TRUE
  /\ Remembers

WatchedSpec == WatchedInit /\ [][WatchedNext]_watched

WatchedFairSpec == WatchedSpec /\ Fairness

(***************************************************************************)
(* A delivered order is collected and a returned one compensated, unless   *)
(* it is free: whatever races, is delivered again or moves the order on,   *)
(* only a death keeps the outcome out of the books.                        *)
(***************************************************************************)
OutcomeIsBooked ==
  \A o \in Orders :
    /\ orderStatus[o] = "DELIVERED" ~> payments[o] > 0 \/ died
    /\ orderStatus[o] = "RETURNED" /\ compensation(o) > 0 ~> payouts(o) > 0 \/ died

(***************************************************************************)
(* payments.service.ts:22-23 and 114-116: as long as one call at a time is *)
(* in progress, an order is collected once and has one DRIVER_PAYOUT,      *)
(* whatever dies and is delivered again.                                   *)
(***************************************************************************)
BookedOnceUnlessRaced == raced \/ (CollectedOnce /\ PaidOutOnce)
=============================================================================
