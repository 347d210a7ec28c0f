----------------------------- MODULE Referrals -----------------------------
(***************************************************************************)
(* The bonus of a referred driver (src/modules/drivers/referrals.service.ts*)
(* and referrals.events.ts) and the successful attempts that lead to it    *)
(* (recordDeliveryAttempt in deliveries.service.ts): deliveredAt is stored *)
(* before the transition to DELIVERED is asked for, the transition is      *)
(* checked and committed in two steps, and its event makes the handler     *)
(* count the deliveries, in steps of its own.                              *)
(***************************************************************************)
EXTENDS Requests

CONSTANTS Trips,      \* the orders the referred driver is out with
          MILESTONE   \* deliveries that earn the bonus (15 in the code)

ASSUME ReferralAssumption == MILESTONE \in Nat \ {0}

REFERRER_BONUS_AMOUNT == 300
REFEREE_BONUS_AMOUNT == 150

VARIABLES deliveredAt,   \* the orders whose delivery has a deliveredAt
          deliveredTrips,\* the orders DELIVERED
          rewarded,      \* Driver.referralRewardedAt is set
          bonuses,       \* pairs of REFERRAL_BONUS rows
          wallets,       \* what the bonuses put into the balances of the two drivers
          rider          \* task -> where the request stands

referralVars == <<deliveredAt, deliveredTrips, rewarded, bonuses, wallets, rider>>

RiderCalls ==
  [pc : {"store", "move.check", "move.commit", "milestone", "count", "reward"}, trip : Trips]

ReferralTypeOK ==
  /\ deliveredAt \subseteq Trips
  /\ deliveredTrips \subseteq Trips
  /\ rewarded \in BOOLEAN
  /\ bonuses \in Nat
  /\ wallets \in [{"referrer", "referee"} -> Nat]
  /\ rider \in [Tasks -> {Idle} \cup RiderCalls]

ReferralInit ==
  /\ deliveredAt = {}
  /\ deliveredTrips = {}
  /\ rewarded = FALSE
  /\ bonuses = 0
  /\ wallets = [d \in {"referrer", "referee"} |-> 0]
  /\ rider = [t \in Tasks |-> Idle]

RiderAt(t, pc) == rider[t].pc = pc

\* The driver hands an order over.
Arrive(t, o) ==
  /\ rider[t] = Idle
  /\ rider' = [rider EXCEPT ![t] = [pc |-> "store", trip |-> o]]
  /\ UNCHANGED <<deliveredAt, deliveredTrips, rewarded, bonuses, wallets>>

StoreDeliveredAt(t) ==
  /\ RiderAt(t, "store")
  /\ deliveredAt' = deliveredAt \cup {rider[t].trip}
  /\ rider' = Goto(rider, t, "move.check")
  /\ UNCHANGED <<deliveredTrips, rewarded, bonuses, wallets>>

\* An order that has ended is refused; the deliveredAt just written stays.
CheckDelivered(t) ==
  /\ RiderAt(t, "move.check")
  /\ rider' = IF rider[t].trip \in deliveredTrips THEN Ends(rider, t) ELSE Goto(rider, t, "move.commit")
  /\ UNCHANGED <<deliveredAt, deliveredTrips, rewarded, bonuses, wallets>>

CommitDelivered(t) ==
  /\ RiderAt(t, "move.commit")
  /\ deliveredTrips' = deliveredTrips \cup {rider[t].trip}
  /\ rider' = Goto(rider, t, "milestone")
  /\ UNCHANGED <<deliveredAt, rewarded, bonuses, wallets>>

-----------------------------------------------------------------------------
(* processDriverReferralMilestone *)

ReadReferee(t) ==
  /\ RiderAt(t, "milestone")
  /\ rider' = IF rewarded THEN Ends(rider, t) ELSE Goto(rider, t, "count")
  /\ UNCHANGED <<deliveredAt, deliveredTrips, rewarded, bonuses, wallets>>

CountDeliveries(t) ==
  /\ RiderAt(t, "count")
  /\ rider' = IF Cardinality(deliveredAt) < MILESTONE THEN Ends(rider, t) ELSE Goto(rider, t, "reward")
  /\ UNCHANGED <<deliveredAt, deliveredTrips, rewarded, bonuses, wallets>>

\* One transaction; the notification that follows may fail unseen.
Reward(t) ==
  /\ RiderAt(t, "reward")
  /\ bonuses' = bonuses + 1
  /\ wallets' = [referrer |-> wallets["referrer"] + REFERRER_BONUS_AMOUNT,
                 referee  |-> wallets["referee"] + REFEREE_BONUS_AMOUNT]
  /\ rewarded' = TRUE
  /\ rider' = Ends(rider, t)
  /\ UNCHANGED <<deliveredAt, deliveredTrips>>

RiderFails(t) ==
  /\ rider[t] # Idle
  /\ rider' = Ends(rider, t)
  /\ UNCHANGED <<deliveredAt, deliveredTrips, rewarded, bonuses, wallets>>

-----------------------------------------------------------------------------
(* The whole *)

ReferralNext ==
  \E t \in Tasks :
    \/ \E o \in Trips : Arrive(t, o)
    \/ StoreDeliveredAt(t) \/ CheckDelivered(t) \/ CommitDelivered(t)
    \/ ReadReferee(t) \/ CountDeliveries(t) \/ Reward(t) \/ RiderFails(t)

ReferralSpec == ReferralInit /\ [][ReferralNext]_referralVars

Rewarding == {t \in Tasks : rider[t].pc \in {"count", "reward"}}

(***************************************************************************)
(* The bonus is paid at most once per request that ran at once with the    *)
(* first, never before the milestone, and both drivers get theirs or       *)
(* neither does.                                                           *)
(***************************************************************************)
BonusesPerRequest ==
  /\ bonuses + Cardinality(Rewarding) <= Cardinality(Tasks)
  /\ bonuses > 0 => Cardinality(deliveredAt) >= MILESTONE
  /\ wallets["referrer"] = bonuses * REFERRER_BONUS_AMOUNT
  /\ wallets["referee"] = bonuses * REFEREE_BONUS_AMOUNT
=============================================================================
