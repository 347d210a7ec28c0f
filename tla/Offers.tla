------------------------------- MODULE Offers -------------------------------
(***************************************************************************)
(* Delivery offers (src/modules/dispatch/offers.service.ts) on top of      *)
(* Dispatch: an operator offers an order to a driver, or lets the cascade  *)
(* pick the best candidate; the driver accepts, refuses, or lets the offer *)
(* lapse.  An accepted offer runs assignDriverToOrder, so a task of this   *)
(* module (call) runs a task of Dispatch (task) inside it.                 *)
(*                                                                         *)
(* An offer lapses when its OFFER_TTL_SECONDS are over, in the order in    *)
(* which offers were made.  Nothing writes EXPIRED at that moment: the     *)
(* next read of the offer does.                                            *)
(***************************************************************************)
EXTENDS Dispatch, Sequences

CONSTANT MaxOffers  \* bound on the offers of a behaviour

ASSUME OffersAssumption == MaxOffers \in Nat

VARIABLES offers,  \* the driverOffer rows, oldest first
          lapsed,  \* how many of them are past expiresAt
          call     \* task -> where it stands in an operation on offers

offerVars == <<offers, lapsed, call>>

allVars == <<vars, offerVars>>

-----------------------------------------------------------------------------
(* Types *)

OfferStatus == {"PENDING", "ACCEPTED", "REJECTED", "EXPIRED"}

Offer == [order : Orders, driver : Drivers, status : OfferStatus]

\* offerToNextBestDriver follows the candidate it will come to; createOffer.
Offering ==
  [pc : {"next.load", "next.declined", "offer.order", "offer.driver", "offer.count",
         "offer.pending", "offer.create"},
   order : Orders, driver : Drivers, by : {"operator", "cascade"}]

Answering ==
  [pc : {"expire.write", "accept.order", "accept.assign", "accept.write", "accept.others",
         "reject.write"},
   offer : 1 .. MaxOffers]

Listing == [pc : {"list.write"}, ids : SUBSET (1 .. MaxOffers)]

OffersTypeOK ==
  /\ offers \in Seq(Offer) /\ Len(offers) <= MaxOffers
  /\ lapsed \in 0 .. Len(offers)
  /\ call \in [Tasks -> {Idle} \cup Offering \cup Answering \cup Listing]

OffersInit ==
  /\ Init
  /\ offers = <<>>
  /\ lapsed = 0
  /\ call = [t \in Tasks |-> Idle]

-----------------------------------------------------------------------------

Free(t) == task[t] = Idle /\ call[t] = Idle

CallGoto(t, pc) == call' = [call EXCEPT ![t].pc = pc]

CallEnds(t) == call' = [call EXCEPT ![t] = Idle]

\* status PENDING and expiresAt in the future.
Live(i) == offers[i].status = "PENDING" /\ i > lapsed

\* materializeExpiry has something to write.
Overdue(i) == offers[i].status = "PENDING" /\ i <= lapsed

Waiting(d) == \E i \in DOMAIN offers : offers[i].driver = d /\ Live(i)

Declined(o, d) ==
  \E i \in DOMAIN offers :
    offers[i].order = o /\ offers[i].driver = d /\ offers[i].status \in {"REJECTED", "EXPIRED"}

SetStatus(ids, status) ==
  offers' = [i \in DOMAIN offers |->
               IF i \in ids THEN [offers[i] EXCEPT !.status = status] ELSE offers[i]]

-----------------------------------------------------------------------------
(***************************************************************************)
(* Faulty variants of the actions below.  No behaviour uses them: each is  *)
(* a slip the properties must notice.                                      *)
(***************************************************************************)

\* createOffer does not look for an offer in wait.
OfferWithoutLooking(t) ==
  /\ call[t].pc = "offer.pending"
  /\ CallGoto(t, "offer.create")
  /\ UNCHANGED <<vars, offers, lapsed>>

\* Only the offers that lapsed are asked for, not the refused ones.
NextIgnoringRefusals(t) ==
  /\ call[t].pc = "next.declined"
  /\ IF \E i \in DOMAIN offers : /\ offers[i].order = call[t].order
                                 /\ offers[i].driver = call[t].driver
                                 /\ offers[i].status = "EXPIRED"
     THEN CallEnds(t)
     ELSE CallGoto(t, "offer.order")
  /\ UNCHANGED <<vars, offers, lapsed>>

\* The offer is marked accepted before the assignment.
AcceptEarly(t) ==
  /\ call[t].pc = "accept.order"
  /\ SetStatus({call[t].offer}, "ACCEPTED")
  /\ Assign(t, offers[call[t].offer].order, offers[call[t].offer].driver)
  /\ CallGoto(t, "accept.assign")
  /\ UNCHANGED lapsed

\* The other offers of the order are left alone.
AcceptLeavingOthers(t) ==
  /\ call[t].pc = "accept.others"
  /\ CallEnds(t)
  /\ UNCHANGED <<vars, offers, lapsed>>

\* The order is not loaded again before it is assigned.
AcceptAnyOrder(t) ==
  /\ call[t].pc = "accept.order"
  /\ AssignAnyOrder(t, offers[call[t].offer].order, offers[call[t].offer].driver)
  /\ CallGoto(t, "accept.assign")
  /\ UNCHANGED <<offers, lapsed>>

\* The offer of a driver who was refused is marked accepted.
AcceptIgnoringRefusal(t) ==
  /\ call[t].pc = "accept.assign"
  /\ AssignStep(t)
  /\ IF task'[t] = Idle THEN CallGoto(t, "accept.write") ELSE UNCHANGED call
  /\ UNCHANGED <<offers, lapsed>>

-----------------------------------------------------------------------------
(* createOffer *)

\* loadOrderForDispatch.
Create(t, o, d) ==
  /\ Free(t)
  /\ orderStatus[o] = "READY_FOR_PICKUP"
  /\ call' = [call EXCEPT ![t] = [pc |-> "offer.driver", order |-> o, driver |-> d, by |-> "operator"]]
  /\ UNCHANGED <<vars, offers, lapsed>>

OfferReadDriver(t) ==
  /\ call[t].pc = "offer.driver"
  /\ LET status == driverStatus[call[t].driver]
     IN  \/ status = "AVAILABLE" /\ CallGoto(t, "offer.pending")
         \/ status = "BUSY" /\ CallGoto(t, "offer.count")
         \/ status \notin {"AVAILABLE", "BUSY"} /\ CallEnds(t)
  /\ UNCHANGED <<vars, offers, lapsed>>

OfferCount(t) ==
  /\ call[t].pc = "offer.count"
  /\ IF activeLoad(call[t].driver) >= MAX_CONCURRENT_DELIVERIES
     THEN CallEnds(t)
     ELSE CallGoto(t, "offer.pending")
  /\ UNCHANGED <<vars, offers, lapsed>>

\* getIneligibleOwnerIds finds that the driver's documents are not in order.
OfferIneligible(t) ==
  /\ call[t].pc = "offer.pending"
  /\ CallEnds(t)
  /\ UNCHANGED <<vars, offers, lapsed>>

\* existingPending.
OfferReadPending(t) ==
  /\ call[t].pc = "offer.pending"
  /\ IF Waiting(call[t].driver) THEN CallEnds(t) ELSE CallGoto(t, "offer.create")
  /\ UNCHANGED <<vars, offers, lapsed>>

OfferCreate(t) ==
  /\ call[t].pc = "offer.create"
  /\ Len(offers) < MaxOffers
  /\ offers' = Append(offers, [order |-> call[t].order, driver |-> call[t].driver, status |-> "PENDING"])
  /\ CallEnds(t)
  /\ UNCHANGED <<vars, lapsed>>

-----------------------------------------------------------------------------
(* offerToNextBestDriver.  The score and the documents may put any driver  *)
(* first: d is the candidate the call will come to.                        *)

NextBest(t, o, d) ==
  /\ Free(t)
  /\ orderStatus[o] = "READY_FOR_PICKUP"
  /\ driverStatus[d] \in {"AVAILABLE", "BUSY"}
  /\ call' = [call EXCEPT ![t] = [pc |-> "next.load", order |-> o, driver |-> d, by |-> "cascade"]]
  /\ UNCHANGED <<vars, offers, lapsed>>

\* computeDispatchScore, and the filter on activeLoad.
NextReadLoad(t) ==
  /\ call[t].pc = "next.load"
  /\ IF activeLoad(call[t].driver) < MAX_CONCURRENT_DELIVERIES
     THEN CallGoto(t, "next.declined")
     ELSE CallEnds(t)
  /\ UNCHANGED <<vars, offers, lapsed>>

\* alreadyDeclined.
NextReadDeclined(t) ==
  /\ call[t].pc = "next.declined"
  /\ IF Declined(call[t].order, call[t].driver) THEN CallEnds(t) ELSE CallGoto(t, "offer.order")
  /\ UNCHANGED <<vars, offers, lapsed>>

\* createOffer loads the order again.
OfferReadOrder(t) ==
  /\ call[t].pc = "offer.order"
  /\ IF orderStatus[call[t].order] = "READY_FOR_PICKUP"
     THEN CallGoto(t, "offer.driver")
     ELSE CallEnds(t)
  /\ UNCHANGED <<vars, offers, lapsed>>

OfferStep(t) ==
  \/ NextReadLoad(t) \/ NextReadDeclined(t) \/ OfferReadOrder(t) \/ OfferReadDriver(t)
  \/ OfferCount(t) \/ OfferIneligible(t) \/ OfferReadPending(t) \/ OfferCreate(t)

-----------------------------------------------------------------------------
(* acceptOffer, rejectOffer, getMyPendingOffers *)

\* findUniqueOrThrow: an answered offer is refused and leaves no trace.
Accept(t, i) ==
  /\ Free(t)
  /\ Live(i)
  /\ call' = [call EXCEPT ![t] = [pc |-> "accept.order", offer |-> i]]
  /\ UNCHANGED <<vars, offers, lapsed>>

Reject(t, i) ==
  /\ Free(t)
  /\ Live(i)
  /\ call' = [call EXCEPT ![t] = [pc |-> "reject.write", offer |-> i]]
  /\ UNCHANGED <<vars, offers, lapsed>>

\* Either of them finds the offer overdue: materializeExpiry, and a refusal.
AnswerTooLate(t, i) ==
  /\ Free(t)
  /\ Overdue(i)
  /\ call' = [call EXCEPT ![t] = [pc |-> "expire.write", offer |-> i]]
  /\ UNCHANGED <<vars, offers, lapsed>>

ExpireWrite(t) ==
  /\ call[t].pc = "expire.write"
  /\ SetStatus({call[t].offer}, "EXPIRED")
  /\ CallEnds(t)
  /\ UNCHANGED <<vars, lapsed>>

RejectWrite(t) ==
  /\ call[t].pc = "reject.write"
  /\ SetStatus({call[t].offer}, "REJECTED")
  /\ CallEnds(t)
  /\ UNCHANGED <<vars, lapsed>>

\* assignDriverToOrder begins, or refuses the order.
AcceptAssign(t) ==
  /\ call[t].pc = "accept.order"
  /\ LET offer == offers[call[t].offer]
     IN  \/ Assign(t, offer.order, offer.driver) /\ CallGoto(t, "accept.assign")
         \/ /\ orderStatus[offer.order] # "READY_FOR_PICKUP"
            /\ CallEnds(t)
            /\ UNCHANGED vars
  /\ UNCHANGED <<offers, lapsed>>

\* assignDriverToOrder runs on; if it throws, so does acceptOffer.
AcceptAssigning(t) ==
  /\ call[t].pc = "accept.assign"
  /\ AssignStep(t)
  /\ \/ task[t].pc = "assign.commit" /\ CallGoto(t, "accept.write")
     \/ task[t].pc # "assign.commit" /\ task'[t] = Idle /\ CallEnds(t)
     \/ task'[t] # Idle /\ UNCHANGED call
  /\ UNCHANGED <<offers, lapsed>>

AcceptWrite(t) ==
  /\ call[t].pc = "accept.write"
  /\ SetStatus({call[t].offer}, "ACCEPTED")
  /\ CallGoto(t, "accept.others")
  /\ UNCHANGED <<vars, lapsed>>

\* The other PENDING offers of the order are closed.
AcceptOthers(t) ==
  /\ call[t].pc = "accept.others"
  /\ SetStatus({i \in DOMAIN offers : /\ offers[i].order = offers[call[t].offer].order
                                      /\ offers[i].status = "PENDING"
                                      /\ i # call[t].offer}, "EXPIRED")
  /\ CallEnds(t)
  /\ UNCHANGED <<vars, lapsed>>

\* A driver who has nothing overdue only reads.
List(t, d) ==
  /\ Free(t)
  /\ LET ids == {i \in DOMAIN offers : offers[i].driver = d /\ Overdue(i)}
     IN  /\ ids # {}
         /\ call' = [call EXCEPT ![t] = [pc |-> "list.write", ids |-> ids]]
  /\ UNCHANGED <<vars, offers, lapsed>>

ListWrite(t) ==
  /\ call[t].pc = "list.write"
  /\ SetStatus(call[t].ids, "EXPIRED")
  /\ CallEnds(t)
  /\ UNCHANGED <<vars, lapsed>>

AnswerStep(t) ==
  \/ ExpireWrite(t) \/ RejectWrite(t) \/ AcceptAssign(t) \/ AcceptAssigning(t)
  \/ AcceptWrite(t) \/ AcceptOthers(t) \/ ListWrite(t)

-----------------------------------------------------------------------------
\* OFFER_TTL_SECONDS are over for the oldest offer still running.
Lapse ==
  /\ lapsed < Len(offers)
  /\ lapsed' = lapsed + 1
  /\ UNCHANGED <<vars, offers, call>>

\* A call of Dispatch that no offer is behind.
DispatchStep(t) ==
  /\ call[t] = Idle
  /\ Request(t) \/ Step(t)
  /\ UNCHANGED offerVars

\* What is committed stays, the rest of the call never happens.
CallFails(t) ==
  /\ t \in Mortal
  /\ ~ Free(t)
  /\ CallEnds(t)
  /\ Fail(t) \/ (task[t] = Idle /\ UNCHANGED vars)
  /\ UNCHANGED <<offers, lapsed>>

CallNext(t) ==
  \/ \E o \in Orders, d \in Drivers : Create(t, o, d) \/ NextBest(t, o, d)
  \/ \E i \in DOMAIN offers : Accept(t, i) \/ Reject(t, i) \/ AnswerTooLate(t, i)
  \/ \E d \in Drivers : List(t, d)
  \/ OfferStep(t) \/ AnswerStep(t) \/ DispatchStep(t)

OffersNext == Lapse \/ \E t \in Tasks : CallNext(t) \/ CallFails(t)

OffersSpec == OffersInit /\ [][OffersNext]_allVars

-----------------------------------------------------------------------------
(* Properties *)

(***************************************************************************)
(* offers.service.ts:44-50: a driver is asked about one order at a time.   *)
(***************************************************************************)
OneLiveOffer ==
  \A i, j \in DOMAIN offers : Live(i) /\ Live(j) /\ offers[i].driver = offers[j].driver => i = j

\* The cascade of t makes its offer.
CascadeOffers(t) ==
  /\ call[t].pc = "offer.create" /\ call[t].by = "cascade"
  /\ call'[t] = Idle /\ Len(offers') > Len(offers)

(***************************************************************************)
(* offers.service.ts:157-161, the part the code keeps with one call at a   *)
(* time: the cascade never makes an offer to a driver whose refusal or     *)
(* expiry is on record for the order.                                      *)
(***************************************************************************)
RefusalRespected ==
  [][\A t \in Tasks :
       CascadeOffers(t) => ~ Declined(call[t].order, call[t].driver)]_allVars

(***************************************************************************)
(* However calls interleave and die, an accepted offer is never worthless: *)
(* its order has left READY_FOR_PICKUP with a driver.                      *)
(***************************************************************************)
AcceptedMeansDispatched ==
  \A i \in DOMAIN offers :
    offers[i].status = "ACCEPTED" => /\ orderStatus[offers[i].order] # "READY_FOR_PICKUP"
                                     /\ deliveryDriver[offers[i].order] # NoDriver

(***************************************************************************)
(* With one call at a time, even if it dies half-way, the delivery of an   *)
(* accepted offer's order is for the driver who accepted.                  *)
(***************************************************************************)
AcceptedCarries ==
  \A i \in DOMAIN offers :
    offers[i].status = "ACCEPTED" => deliveryDriver[offers[i].order] = offers[i].driver

\* Once acceptOffer has returned, no offer for the same order is in wait.
AcceptanceCloses ==
  (\A t \in Tasks : call[t].pc # "accept.others") =>
    \A i, j \in DOMAIN offers :
      offers[i].order = offers[j].order /\ offers[i].status = "ACCEPTED" =>
        offers[j].status # "PENDING"

(***************************************************************************)
(* Offers add nothing to what Dispatch may do: whatever offers do to       *)
(* orders, deliveries and drivers, assignDriverToOrder does.               *)
(***************************************************************************)
ImplementsDispatch == Spec
=============================================================================
