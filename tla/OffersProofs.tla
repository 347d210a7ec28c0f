---------------------------- MODULE OffersProofs ----------------------------
(***************************************************************************)
(* Offers implements Dispatch (OffersRefineDispatch), so what Dispatch     *)
(* guarantees holds of orders that are offered as well (OfferedOnTheWay).  *)
(* The refinement needs the types: an accepted offer is one that was made, *)
(* for an order and a driver that exist.                                   *)
(* Whatever races, the order of an accepted offer has been dispatched      *)
(* (AcceptedIsDispatched).  With one call at a time, even if it dies       *)
(* half-way, a driver has one live offer (SerialOneLiveOffer), an accepted *)
(* offer is for the driver who carries the order (SerialAcceptedCarries)   *)
(* and refusals are respected (SerialRefusals); and until one dies an      *)
(* acceptance leaves no other offer of the order waiting (SerialClosing).  *)
(***************************************************************************)
EXTENDS OffersWatched, DispatchProofs

\* An answer in progress is about an offer that was made.
AnswersKnowOffers == \A t \in Tasks : call[t] \in Answering => call[t].offer \in DOMAIN offers

OffersInv == OffersTypeOK /\ AnswersKnowOffers

\* An update of statuses keeps the rows and what they are about.
LEMMA StatusesOnly ==
  ASSUME offers \in Seq(Offer), NEW ids, NEW status \in OfferStatus, SetStatus(ids, status)
  PROVE  offers' \in Seq(Offer) /\ Len(offers') = Len(offers) /\ DOMAIN offers' = DOMAIN offers
<1>1. offers \in [1 .. Len(offers) -> Offer] /\ Len(offers) \in Nat /\ DOMAIN offers = 1 .. Len(offers)
  OBVIOUS
<1>2. \A i \in DOMAIN offers : [offers[i] EXCEPT !.status = status] \in Offer
  BY <1>1 DEF Offer
<1>3. offers' \in [1 .. Len(offers) -> Offer]
  BY <1>1, <1>2 DEF SetStatus
<1>4. QED
  BY <1>1, <1>3

LEMMA CallKinds ==
  ASSUME OffersTypeOK, NEW t \in Tasks
  PROVE  /\ call[t].pc \in {"next.load", "next.declined", "offer.order", "offer.driver",
                            "offer.count", "offer.pending", "offer.create"} => call[t] \in Offering
         /\ call[t].pc \in {"expire.write", "accept.order", "accept.assign", "accept.write",
                            "accept.others", "reject.write"} => call[t] \in Answering
         /\ call[t].pc = "list.write" => call[t] \in Listing
BY DEF OffersTypeOK, Idle, Offering, Answering, Listing

LEMMA OffersTypeStep ==
  ASSUME OffersInv, [OffersNext]_allVars
  PROVE  OffersInv'
<1> DEFINE CallTypes == [Tasks -> {Idle} \cup Offering \cup Answering \cup Listing]
<1>0. /\ offers \in Seq(Offer) /\ Len(offers) \in Nat /\ Len(offers) <= MaxOffers
      /\ DOMAIN offers = 1 .. Len(offers)
      /\ lapsed \in 0 .. Len(offers) /\ call \in CallTypes /\ MaxOffers \in Nat
  BY OffersAssumption DEF OffersInv, OffersTypeOK
<1>1. ASSUME UNCHANGED <<offers, lapsed>>, call' \in CallTypes,
             \A t \in Tasks : call'[t] \in Answering => call'[t].offer \in DOMAIN offers
      PROVE  OffersInv'
  BY <1>0, <1>1 DEF OffersInv, OffersTypeOK, AnswersKnowOffers
<1>2. ASSUME NEW t \in Tasks, CallEnds(t)
      PROVE  /\ call' \in CallTypes
             /\ \A q \in Tasks : call'[q] \in Answering => call'[q].offer \in DOMAIN offers
  BY <1>0, <1>2 DEF CallEnds, OffersInv, AnswersKnowOffers, Idle, Answering
<1>3. ASSUME NEW t \in Tasks, call[t] \in Offering,
             NEW pc \in {"next.declined", "offer.order", "offer.driver", "offer.count",
                         "offer.pending", "offer.create"}, CallGoto(t, pc)
      PROVE  /\ call' \in CallTypes
             /\ \A q \in Tasks : call'[q] \in Answering => call'[q].offer \in DOMAIN offers
  <2>1. call'[t] = [call[t] EXCEPT !.pc = pc] /\ \A q \in Tasks : q # t => call'[q] = call[q]
    BY <1>0, <1>3 DEF CallGoto
  <2>2. call'[t] \in Offering /\ call'[t] \notin Answering
    BY <1>3, <2>1 DEF Offering, Answering
  <2>3. call' = [call EXCEPT ![t] = call'[t]]
    BY <1>0, <1>3, <2>1 DEF CallGoto
  <2>4. QED
    BY <1>0, <2>1, <2>2, <2>3 DEF OffersInv, AnswersKnowOffers
<1>4. ASSUME NEW t \in Tasks, call[t] \in Answering,
             NEW pc \in {"accept.assign", "accept.write", "accept.others"}, CallGoto(t, pc)
      PROVE  /\ call' \in CallTypes
             /\ \A q \in Tasks : call'[q] \in Answering => call'[q].offer \in DOMAIN offers
  <2>1. call'[t] = [call[t] EXCEPT !.pc = pc] /\ \A q \in Tasks : q # t => call'[q] = call[q]
    BY <1>0, <1>4 DEF CallGoto
  <2>2. call'[t] \in Answering /\ call'[t].offer = call[t].offer
    BY <1>4, <2>1 DEF Answering
  <2>3. call' = [call EXCEPT ![t] = call'[t]]
    BY <1>0, <1>4, <2>1 DEF CallGoto
  <2>4. QED
    BY <1>0, <1>4, <2>1, <2>2, <2>3 DEF OffersInv, AnswersKnowOffers
<1>5. ASSUME Lapse
      PROVE  OffersInv'
  BY <1>0, <1>5 DEF Lapse, OffersInv, OffersTypeOK, AnswersKnowOffers
<1>6. ASSUME NEW t \in Tasks, NEW o \in Orders, NEW d \in Drivers, Create(t, o, d) \/ NextBest(t, o, d)
      PROVE  OffersInv'
  <2>1. PICK c \in Offering : call' = [call EXCEPT ![t] = c] /\ UNCHANGED <<offers, lapsed>>
    BY <1>6 DEF Create, NextBest, Offering
  <2>2. c \notin Answering
    BY DEF Offering, Answering
  <2>3. QED
    BY <1>0, <1>1, <2>1, <2>2 DEF OffersInv, AnswersKnowOffers
<1>7. ASSUME NEW t \in Tasks, NEW i \in DOMAIN offers,
             Accept(t, i) \/ Reject(t, i) \/ AnswerTooLate(t, i)
      PROVE  OffersInv'
  <2>1. i \in 1 .. MaxOffers
    BY <1>0
  <2>2. PICK c \in Answering : /\ call' = [call EXCEPT ![t] = c] /\ UNCHANGED <<offers, lapsed>>
                               /\ c.offer = i
    <3>1. \A pc \in {"accept.order", "reject.write", "expire.write"} : [pc |-> pc, offer |-> i] \in Answering
      BY <2>1 DEF Answering
    <3>2. PICK pc \in {"accept.order", "reject.write", "expire.write"} :
            call' = [call EXCEPT ![t] = [pc |-> pc, offer |-> i]] /\ UNCHANGED <<offers, lapsed>>
      BY <1>7 DEF Accept, Reject, AnswerTooLate
    <3>3. QED
      BY <3>1, <3>2
  <2>3. QED
    BY <1>0, <1>1, <2>2 DEF OffersInv, AnswersKnowOffers
<1>8. ASSUME NEW t \in Tasks, NEW d \in Drivers, List(t, d)
      PROVE  OffersInv'
  <2>1. PICK ids \in SUBSET (DOMAIN offers) :
          call' = [call EXCEPT ![t] = [pc |-> "list.write", ids |-> ids]]
    BY <1>8 DEF List
  <2>2. [pc |-> "list.write", ids |-> ids] \in Listing
    BY <1>0, <2>1 DEF Listing
  <2>3. [pc |-> "list.write", ids |-> ids] \notin Answering
    BY DEF Answering
  <2>4. QED
    BY <1>0, <1>1, <1>8, <2>1, <2>2, <2>3 DEF List, OffersInv, AnswersKnowOffers
<1>9. ASSUME NEW t \in Tasks, OfferStep(t)
      PROVE  OffersInv'
  <2>1. call[t] \in Offering
    BY <1>9, CallKinds DEF OffersInv, OfferStep, NextReadLoad, NextReadDeclined, OfferReadOrder,
       OfferReadDriver, OfferCount, OfferIneligible, OfferReadPending, OfferCreate
  <2>2. CASE OfferCreate(t)
    <3>1. /\ lapsed' = lapsed
          /\ [order |-> call[t].order, driver |-> call[t].driver, status |-> "PENDING"] \in Offer
      BY <2>1, <2>2 DEF OfferCreate, Offering, Offer, OfferStatus
    <3>2. offers' \in Seq(Offer) /\ Len(offers') = Len(offers) + 1 /\ Len(offers') <= MaxOffers
      BY <1>0, <2>2, <3>1 DEF OfferCreate
    <3>3. DOMAIN offers \subseteq DOMAIN offers' /\ lapsed' \in 0 .. Len(offers')
      BY <1>0, <3>1, <3>2
    <3>4. QED
      BY <1>2, <2>2, <3>2, <3>3 DEF OfferCreate, OffersInv, OffersTypeOK, AnswersKnowOffers
  <2>3. CASE ~ OfferCreate(t)
    BY <1>1, <1>2, <1>3, <1>9, <2>1, <2>3
       DEF OfferStep, NextReadLoad, NextReadDeclined, OfferReadOrder, OfferReadDriver, OfferCount,
           OfferIneligible, OfferReadPending
  <2>4. QED
    BY <2>2, <2>3
<1>10. ASSUME NEW t \in Tasks, AcceptAssign(t) \/ AcceptAssigning(t)
       PROVE  OffersInv'
  <2>1. call[t] \in Answering /\ UNCHANGED <<offers, lapsed>>
    BY <1>10, CallKinds DEF OffersInv, AcceptAssign, AcceptAssigning
  <2>2. \/ CallEnds(t) \/ CallGoto(t, "accept.assign") \/ CallGoto(t, "accept.write")
        \/ UNCHANGED call
    BY <1>10 DEF AcceptAssign, AcceptAssigning
  <2>3. CASE UNCHANGED call
    BY <1>0, <1>1, <2>1, <2>3 DEF OffersInv, AnswersKnowOffers
  <2>4. QED
    BY <1>1, <1>2, <1>4, <2>1, <2>2, <2>3
<1>11. ASSUME NEW t \in Tasks, ExpireWrite(t) \/ RejectWrite(t) \/ AcceptWrite(t)
                               \/ AcceptOthers(t) \/ ListWrite(t)
       PROVE  OffersInv'
  <2>1. /\ lapsed' = lapsed
        /\ \E status \in OfferStatus : \E ids : SetStatus(ids, status)
    <3>1. "EXPIRED" \in OfferStatus /\ "REJECTED" \in OfferStatus /\ "ACCEPTED" \in OfferStatus
      BY DEF OfferStatus
    <3>2. CASE AcceptOthers(t)
      <4>1. PICK ids : SetStatus(ids, "EXPIRED")
        BY <3>2 DEF AcceptOthers
      <4>2. QED
        BY <3>1, <3>2, <4>1 DEF AcceptOthers
    <3>3. CASE ExpireWrite(t) \/ RejectWrite(t) \/ AcceptWrite(t) \/ ListWrite(t)
      BY <3>1, <3>3 DEF ExpireWrite, RejectWrite, AcceptWrite, ListWrite
    <3>4. QED
      BY <1>11, <3>2, <3>3
  <2>2. offers' \in Seq(Offer) /\ Len(offers') = Len(offers) /\ DOMAIN offers' = DOMAIN offers
    BY <1>0, <2>1, StatusesOnly
  <2>3. /\ call' \in CallTypes
        /\ \A q \in Tasks : call'[q] \in Answering => call'[q].offer \in DOMAIN offers
    <3>1. CASE AcceptWrite(t)
      BY <1>4, <3>1, CallKinds DEF OffersInv, AcceptWrite
    <3>2. CASE CallEnds(t)
      BY <1>2, <3>2
    <3>3. QED
      BY <1>11, <3>1, <3>2 DEF ExpireWrite, RejectWrite, AcceptOthers, ListWrite
  <2>4. QED
    BY <1>0, <2>1, <2>2, <2>3 DEF OffersInv, OffersTypeOK, AnswersKnowOffers
<1>12. ASSUME NEW t \in Tasks, DispatchStep(t)
       PROVE  OffersInv'
  BY <1>0, <1>1, <1>12 DEF DispatchStep, offerVars, OffersInv, AnswersKnowOffers
<1>13. ASSUME NEW t \in Tasks, CallFails(t)
       PROVE  OffersInv'
  BY <1>1, <1>2, <1>13 DEF CallFails
<1>14. CASE UNCHANGED allVars
  BY <1>0, <1>1, <1>14 DEF allVars, offerVars, OffersInv, AnswersKnowOffers
<1>15. QED
  BY <1>5, <1>6, <1>7, <1>8, <1>9, <1>10, <1>11, <1>12, <1>13, <1>14
     DEF OffersNext, CallNext, AnswerStep

LEMMA OffersTypeInit == OffersInit => OffersInv
BY OffersAssumption DEF OffersInit, OffersInv, OffersTypeOK, AnswersKnowOffers, Idle, Answering

(***************************************************************************)
(* The rows of offers and the calls about them keep their types.           *)
(***************************************************************************)
THEOREM OffersTypeCorrect == OffersSpec => []OffersTypeOK
<1>1. OffersInv => OffersTypeOK
  BY DEF OffersInv
<1>2. OffersInv /\ [OffersNext]_allVars => OffersInv'
  BY OffersTypeStep
<1>3. QED
  BY <1>1, <1>2, OffersTypeInit, PTL DEF OffersSpec

LEMMA OffersStep == OffersInv /\ OffersNext => Next \/ UNCHANGED vars
<1> SUFFICES ASSUME OffersInv, OffersNext PROVE Next \/ UNCHANGED vars
  OBVIOUS
<1>1. CASE UNCHANGED vars
  BY <1>1
<1>2. ASSUME NEW t \in Tasks, AcceptAssign(t)
      PROVE  Next \/ UNCHANGED vars
  <2>1. call[t].offer \in DOMAIN offers
    BY <1>2, CallKinds DEF AcceptAssign, OffersInv, AnswersKnowOffers
  <2>2. PICK o, d : o = offers[call[t].offer].order /\ d = offers[call[t].offer].driver
    OBVIOUS
  <2>3. o \in Orders /\ d \in Drivers
    <3>1. offers[call[t].offer] \in Offer
      BY <2>1 DEF OffersInv, OffersTypeOK
    <3>2. QED
      BY <2>2, <3>1 DEF Offer
  <2>4. Assign(t, o, d) \/ UNCHANGED vars
    BY <1>2, <2>2 DEF AcceptAssign
  <2>5. QED
    BY <2>3, <2>4 DEF Next, Request
<1>3. ASSUME NEW t \in Tasks, AcceptAssigning(t)
      PROVE  Next
  BY <1>3 DEF AcceptAssigning, Next, Step
<1>4. ASSUME NEW t \in Tasks, DispatchStep(t) \/ CallFails(t)
      PROVE  Next \/ UNCHANGED vars
  BY <1>4 DEF DispatchStep, CallFails, Next
<1>5. QED
  BY <1>1, <1>2, <1>3, <1>4
     DEF OffersNext, CallNext, Lapse, Create, NextBest, Accept, Reject, AnswerTooLate, List, OfferStep,
         NextReadLoad, NextReadDeclined, OfferReadOrder, OfferReadDriver, OfferCount,
         OfferIneligible, OfferReadPending, OfferCreate, AnswerStep, ExpireWrite, RejectWrite,
         AcceptWrite, AcceptOthers, ListWrite

(***************************************************************************)
(* Every behaviour with offers is one of Dispatch.                         *)
(***************************************************************************)
THEOREM OffersRefineDispatch == OffersSpec => ImplementsDispatch
<1>1. OffersInit => Init
  BY DEF OffersInit
<1>2. OffersInv /\ [OffersNext]_allVars => [Next]_vars
  BY OffersStep DEF allVars
<1>3. OffersInv /\ [OffersNext]_allVars => OffersInv'
  BY OffersTypeStep
<1>4. QED
  BY <1>1, <1>2, <1>3, OffersTypeInit, PTL DEF OffersSpec, ImplementsDispatch, Spec

(***************************************************************************)
(* So an order on its way has a driver, offers and all.                    *)
(***************************************************************************)
THEOREM OfferedOnTheWay == OffersSpec => []OnTheWayHasDriver
BY OffersRefineDispatch, OnTheWay DEF ImplementsDispatch

-----------------------------------------------------------------------------
(***************************************************************************)
(* What an accepted offer stands for.  Nothing leads an order back to      *)
(* READY_FOR_PICKUP (NoWayBackStep), and its delivery keeps some driver    *)
(* (DeliveryStays):                                                        *)
(* once dispatched, an order stays dispatched, so an acceptance may be     *)
(* written any time after the assignment has committed.                    *)
(***************************************************************************)
Dispatched(o) == orderStatus[o] # "READY_FOR_PICKUP" /\ deliveryDriver[o] # NoDriver

\* An update of statuses leaves everything else of a row.
LEMMA RowsKept ==
  ASSUME OffersInv, NEW ids, NEW status, SetStatus(ids, status)
  PROVE  /\ DOMAIN offers' = DOMAIN offers
         /\ \A i \in DOMAIN offers :
              /\ offers'[i].order = offers[i].order /\ offers'[i].driver = offers[i].driver
              /\ offers'[i].status = IF i \in ids THEN status ELSE offers[i].status
<1>1. \A i \in DOMAIN offers : offers[i] \in Offer
  BY DEF OffersInv, OffersTypeOK
<1>2. QED
  BY <1>1 DEF SetStatus, Offer

\* A new row is put behind the others.
LEMMA RowAdded ==
  ASSUME OffersInv, NEW t \in Tasks, OfferCreate(t)
  PROVE  /\ DOMAIN offers' = DOMAIN offers \cup {Len(offers) + 1}
         /\ Len(offers) \in Nat /\ DOMAIN offers = 1 .. Len(offers)
         /\ \A i \in DOMAIN offers : offers'[i] = offers[i]
         /\ offers'[Len(offers) + 1] =
              [order |-> call[t].order, driver |-> call[t].driver, status |-> "PENDING"]
BY DEF OffersInv, OffersTypeOK, OfferCreate

\* A row of offers keeps its order, and only acceptOffer makes it ACCEPTED.
LEMMA AcceptanceIsWritten ==
  ASSUME OffersInv, OffersNext
  PROVE  /\ \A i \in DOMAIN offers : i \in DOMAIN offers' /\ offers'[i].order = offers[i].order
         /\ \A i \in DOMAIN offers' :
              \/ offers'[i].status # "ACCEPTED"
              \/ i \in DOMAIN offers /\ offers[i].status = "ACCEPTED"
              \/ \E t \in Tasks : AcceptWrite(t) /\ call[t].offer = i
<1> DEFINE Goal == /\ \A i \in DOMAIN offers : i \in DOMAIN offers' /\ offers'[i].order = offers[i].order
                   /\ \A i \in DOMAIN offers' :
                        \/ offers'[i].status # "ACCEPTED"
                        \/ i \in DOMAIN offers /\ offers[i].status = "ACCEPTED"
                        \/ \E t \in Tasks : AcceptWrite(t) /\ call[t].offer = i
<1>1. /\ offers \in Seq(Offer) /\ DOMAIN offers = 1 .. Len(offers) /\ Len(offers) \in Nat
      /\ \A i \in DOMAIN offers : offers[i] \in Offer
  BY DEF OffersInv, OffersTypeOK
<1>2. ASSUME NEW ids, NEW status, SetStatus(ids, status)
      PROVE  /\ DOMAIN offers' = DOMAIN offers
             /\ \A i \in DOMAIN offers :
                  /\ offers'[i].order = offers[i].order
                  /\ offers'[i].status = IF i \in ids THEN status ELSE offers[i].status
  BY <1>2, RowsKept
<1>3. CASE UNCHANGED offers
  BY <1>3
<1>4. ASSUME NEW t \in Tasks, OfferCreate(t)
      PROVE  Goal
  <2>1. PICK n : /\ DOMAIN offers' = DOMAIN offers \cup {n} /\ offers'[n].status = "PENDING"
                 /\ \A i \in DOMAIN offers : offers'[i] = offers[i]
    <3>1. [order |-> call[t].order, driver |-> call[t].driver, status |-> "PENDING"].status = "PENDING"
      OBVIOUS
    <3>2. QED
      BY <1>4, <3>1, RowAdded, Zenon
  <2>2. QED
    BY <2>1
<1>5. ASSUME NEW t \in Tasks, AcceptWrite(t)
      PROVE  Goal
  <2>1. SetStatus({call[t].offer}, "ACCEPTED")
    BY <1>5 DEF AcceptWrite
  <2>2. QED
    BY <1>2, <1>5, <2>1
<1>6. ASSUME NEW t \in Tasks,
             ExpireWrite(t) \/ RejectWrite(t) \/ AcceptOthers(t) \/ ListWrite(t)
      PROVE  Goal
  <2>1. PICK ids, status : status # "ACCEPTED" /\ SetStatus(ids, status)
    <3>1. ExpireWrite(t) \/ ListWrite(t) => \E ids : SetStatus(ids, "EXPIRED")
      BY DEF ExpireWrite, ListWrite
    <3>2. AcceptOthers(t) => \E ids : SetStatus(ids, "EXPIRED")
      BY DEF AcceptOthers
    <3>3. RejectWrite(t) => \E ids : SetStatus(ids, "REJECTED")
      BY DEF RejectWrite
    <3>4. QED
      BY <1>6, <3>1, <3>2, <3>3
  <2>2. QED
    BY <1>2, <2>1
<1>7. Goal
  BY <1>3, <1>4, <1>5, <1>6
     DEF OffersNext, CallNext, Lapse, Create, NextBest, Accept, Reject, AnswerTooLate, List, OfferStep,
         NextReadLoad, NextReadDeclined, OfferReadOrder, OfferReadDriver, OfferCount,
         OfferIneligible, OfferReadPending, AnswerStep, AcceptAssign, AcceptAssigning,
         DispatchStep, CallFails, offerVars
<1>8. QED
  BY <1>7

\* An acceptance in progress is moved by its own two actions only.
LEMMA CallsMove ==
  ASSUME TypeOK, OffersInv, OffersNext, NEW u \in Tasks
  PROVE  \/ call'[u] = call[u] /\ task'[u] = task[u]
         \/ call'[u].pc \notin {"accept.assign", "accept.write"}
         \/ AcceptAssign(u)
         \/ AcceptAssigning(u)
<1>1. call \in [Tasks -> {Idle} \cup Offering \cup Answering \cup Listing]
  BY DEF OffersInv, OffersTypeOK
<1>2. CASE Lapse
  BY <1>2 DEF Lapse, vars
<1>3. ASSUME NEW t \in Tasks, CallNext(t) \/ CallFails(t), t # u
      PROVE  call'[u] = call[u] /\ task'[u] = task[u]
  <2>1. call'[u] = call[u]
    BY <1>1, <1>3
       DEF CallNext, Create, NextBest, Accept, Reject, AnswerTooLate, List, OfferStep, CallGoto,
           CallEnds, NextReadLoad, NextReadDeclined, OfferReadOrder, OfferReadDriver, OfferCount,
           OfferIneligible, OfferReadPending, OfferCreate, AnswerStep, ExpireWrite, RejectWrite,
           AcceptAssign, AcceptAssigning, AcceptWrite, AcceptOthers, ListWrite, DispatchStep,
           CallFails, offerVars
  <2>2. \/ UNCHANGED task \/ Request(t) \/ Step(t) \/ Fail(t)
        \/ \E o, d : Assign(t, o, d)
    BY <1>3
       DEF CallNext, Create, NextBest, Accept, Reject, AnswerTooLate, List, OfferStep, vars,
           NextReadLoad, NextReadDeclined, OfferReadOrder, OfferReadDriver, OfferCount,
           OfferIneligible, OfferReadPending, OfferCreate, AnswerStep, ExpireWrite, RejectWrite,
           AcceptAssign, AcceptAssigning, AcceptWrite, AcceptOthers, ListWrite, DispatchStep,
           CallFails, Step
  <2>3. (\E o, d : Assign(t, o, d)) => task'[u] = task[u]
    BY <1>3 DEF Assign, TypeOK
  <2>4. QED
    BY <1>3, <2>1, <2>2, <2>3, OneTaskMoves
<1>4. CASE CallNext(u) \/ CallFails(u)
  <2>1. CASE DispatchStep(u)
    BY <2>1 DEF DispatchStep, offerVars, Idle
  <2>2. CASE CallFails(u)
    BY <1>1, <2>2 DEF CallFails, CallEnds, Idle
  <2>3. CASE OfferStep(u)
    BY <1>1, <2>3
       DEF OfferStep, CallGoto, CallEnds, NextReadLoad, NextReadDeclined, OfferReadOrder,
           OfferReadDriver, OfferCount, OfferIneligible, OfferReadPending, OfferCreate, Idle,
           Offering, Answering, Listing
  <2>4. CASE AnswerStep(u) /\ ~ AcceptAssign(u) /\ ~ AcceptAssigning(u)
    BY <1>1, <2>4
       DEF AnswerStep, CallGoto, CallEnds, ExpireWrite, RejectWrite, AcceptWrite, AcceptOthers,
           ListWrite, Idle, Offering, Answering, Listing
  <2>5. ASSUME \/ \E o \in Orders, d \in Drivers : Create(u, o, d) \/ NextBest(u, o, d)
               \/ \E i \in DOMAIN offers : Accept(u, i) \/ Reject(u, i) \/ AnswerTooLate(u, i)
               \/ \E d \in Drivers : List(u, d)
        PROVE  call'[u].pc \notin {"accept.assign", "accept.write"}
    BY <1>1, <2>5 DEF Create, NextBest, Accept, Reject, AnswerTooLate, List
  <2>6. QED
    BY <1>4, <2>1, <2>2, <2>3, <2>4, <2>5 DEF CallNext
<1>5. QED
  BY <1>2, <1>3, <1>4 DEF OffersNext

\* The call of an accepted offer runs its assignment, and only its end lets the
\* acceptance be written.
AcceptanceBacked ==
  \A t \in Tasks :
    /\ call[t].pc = "accept.assign" =>
         task[t] \in Assigning /\ task[t].order = offers[call[t].offer].order
    /\ call[t].pc = "accept.write" => Dispatched(offers[call[t].offer].order)

AcceptInv == NoWayBack /\ AcceptanceBacked /\ AcceptedMeansDispatched

LEMMA AcceptInvStep ==
  ASSUME TypeOK, TypeOK', OffersInv, OnTheWayHasDriver', AcceptInv, [OffersNext]_allVars
  PROVE  AcceptInv'
<1> USE DEF AcceptInv
<1>1. CASE UNCHANGED allVars
  <2>1. UNCHANGED <<orderStatus, deliveryDriver, task, offers, call>>
    BY <1>1 DEF allVars, vars, offerVars
  <2>2. NoWayBack' /\ AcceptanceBacked'
    BY <2>1 DEF NoWayBack, AcceptanceBacked, Dispatched
  <2>3. AcceptedMeansDispatched'
    BY <2>1 DEF AcceptedMeansDispatched
  <2>4. QED
    BY <2>2, <2>3
<1>2. CASE OffersNext
  <2>1. [Next]_vars
    BY <1>2, OffersStep
  <2>2. NoWayBack' /\ \A o \in Orders : Dispatched(o) => Dispatched(o)'
    BY <2>1, NoWayBackStep, DeliveryStays DEF Dispatched
  <2>3. \A i \in DOMAIN offers : offers[i].order \in Orders /\ offers[i].driver \in Drivers
    <3>1. \A i \in DOMAIN offers : offers[i] \in Offer
      BY DEF OffersInv, OffersTypeOK
    <3>2. QED
      BY <3>1 DEF Offer
  <2>4. /\ \A i \in DOMAIN offers : i \in DOMAIN offers' /\ offers'[i].order = offers[i].order
        /\ \A i \in DOMAIN offers' :
             \/ offers'[i].status # "ACCEPTED"
             \/ i \in DOMAIN offers /\ offers[i].status = "ACCEPTED"
             \/ \E t \in Tasks : AcceptWrite(t) /\ call[t].offer = i
    BY <1>2, AcceptanceIsWritten
  <2>5. \A t \in Tasks : call[t].pc \in {"accept.order", "accept.assign", "accept.write"}
                        => call[t].offer \in DOMAIN offers
    BY CallKinds DEF OffersInv, AnswersKnowOffers
  <2>6. AcceptedMeansDispatched'
    <3> SUFFICES ASSUME NEW i \in DOMAIN offers', offers'[i].status = "ACCEPTED"
                 PROVE  /\ orderStatus'[offers'[i].order] # "READY_FOR_PICKUP"
                        /\ deliveryDriver'[offers'[i].order] # NoDriver
      BY DEF AcceptedMeansDispatched
    <3>1. i \in DOMAIN offers /\ Dispatched(offers[i].order)
      <4>1. CASE i \in DOMAIN offers /\ offers[i].status = "ACCEPTED"
        BY <4>1 DEF AcceptedMeansDispatched, Dispatched
      <4>2. CASE \E t \in Tasks : AcceptWrite(t) /\ call[t].offer = i
        BY <4>2, <2>5 DEF AcceptWrite, AcceptanceBacked
      <4>3. QED
        BY <2>4, <4>1, <4>2
    <3>2. PICK o \in Orders : o = offers[i].order /\ o = offers'[i].order
      BY <2>3, <2>4, <3>1
    <3>3. QED
      BY <2>2, <3>1, <3>2 DEF Dispatched
  <2>7. AcceptanceBacked'
    <3> SUFFICES ASSUME NEW u \in Tasks
                 PROVE  /\ call'[u].pc = "accept.assign" =>
                             /\ task'[u] \in Assigning
                             /\ task'[u].order = offers'[call'[u].offer].order
                        /\ call'[u].pc = "accept.write" =>
                             /\ orderStatus'[offers'[call'[u].offer].order] # "READY_FOR_PICKUP"
                             /\ deliveryDriver'[offers'[call'[u].offer].order] # NoDriver
      BY DEF AcceptanceBacked, Dispatched
    <3>1. CASE call'[u] = call[u] /\ task'[u] = task[u]
      <4>1. CASE call[u].pc = "accept.assign"
        BY <3>1, <4>1, <2>4, <2>5 DEF AcceptanceBacked
      <4>2. CASE call[u].pc = "accept.write"
        <5>1. PICK o \in Orders : o = offers[call[u].offer].order /\ o = offers'[call[u].offer].order
          BY <4>2, <2>3, <2>4, <2>5
        <5>2. QED
          BY <3>1, <4>2, <5>1, <2>2 DEF AcceptanceBacked, Dispatched
      <4>3. QED
        BY <3>1, <4>1, <4>2
    <3>2. CASE AcceptAssign(u)
      <4>1. call[u] \in Answering /\ call[u].offer \in DOMAIN offers /\ UNCHANGED offers
        BY <3>2, <2>5, CallKinds DEF AcceptAssign, OffersInv
      <4>2. CASE CallEnds(u)
        BY <4>2 DEF CallEnds, Idle, OffersInv, OffersTypeOK
      <4>3. CASE /\ Assign(u, offers[call[u].offer].order, offers[call[u].offer].driver)
                 /\ CallGoto(u, "accept.assign")
        <5>1. offers[call[u].offer].order \in Orders /\ offers[call[u].offer].driver \in Drivers
          BY <4>1, <2>3
        <5>2. task'[u] \in Assigning /\ task'[u].order = offers[call[u].offer].order
          BY <4>3, <5>1 DEF Assign, TypeOK, Assigning
        <5>3. call'[u].pc = "accept.assign" /\ call'[u].offer = call[u].offer
          BY <4>1, <4>3 DEF CallGoto, OffersInv, OffersTypeOK, Answering
        <5>4. QED
          BY <4>1, <5>2, <5>3
      <4>4. QED
        BY <3>2, <4>2, <4>3 DEF AcceptAssign
    <3>3. CASE AcceptAssigning(u)
      <4>1. /\ call[u] \in Answering /\ call[u].offer \in DOMAIN offers /\ UNCHANGED offers
            /\ task[u] \in Assigning /\ task[u].order = offers[call[u].offer].order
        BY <3>3, <2>5, CallKinds DEF AcceptAssigning, OffersInv, AcceptanceBacked
      <4>2. CASE CallEnds(u)
        BY <4>2 DEF CallEnds, Idle, OffersInv, OffersTypeOK
      <4>3. CASE task[u].pc = "assign.commit" /\ CallGoto(u, "accept.write")
        <5>1. call'[u].pc = "accept.write" /\ call'[u].offer = call[u].offer
          BY <4>1, <4>3 DEF CallGoto, OffersInv, OffersTypeOK, Answering
        <5>2. AssignCommit(u)
          BY <3>3, <4>3 DEF AcceptAssigning, AssignStep, AssignReadDriver, AssignCount,
             AssignIneligible, AssignPlace, AssignCheck
        <5>3. PICK o \in Orders : o = task[u].order
          BY <4>1 DEF Assigning
        <5>4. orderStatus'[o] = "ASSIGNED"
          BY <5>2, <5>3 DEF AssignCommit, TypeOK
        <5>5. deliveryDriver'[o] # NoDriver
          BY <5>4 DEF OnTheWayHasDriver
        <5>6. QED
          BY <4>1, <5>1, <5>3, <5>4, <5>5 DEF Dispatched
      <4>4. CASE UNCHANGED call /\ task'[u] # Idle
        <5>1. task[u].pc # "assign.commit"
          BY <3>3, <4>4, EndsIdle
             DEF AcceptAssigning, AssignStep, AssignReadDriver, AssignCount, AssignIneligible,
                 AssignPlace, AssignCheck, AssignCommit
        <5>2. PICK pc \in {"assign.count", "assign.place", "assign.read", "assign.commit"} :
                Goto(u, pc)
          BY <3>3, <4>4, <5>1, EndsIdle
             DEF AcceptAssigning, AssignStep, AssignReadDriver, AssignCount, AssignIneligible,
                 AssignPlace, AssignCheck, AssignCommit
        <5>3. task'[u].pc = pc /\ task'[u].order = task[u].order
          BY <4>1, <5>2, GotoKeeps
        <5>4. task'[u] \in Assigning
          BY <5>3 DEF TypeOK, Idle, Moving, Releasing, Switching
        <5>5. call[u].pc = "accept.assign"
          BY <3>3 DEF AcceptAssigning
        <5>6. QED
          BY <4>1, <4>4, <5>3, <5>4, <5>5
      <4>5. QED
        BY <3>3, <4>2, <4>3, <4>4 DEF AcceptAssigning
    <3>4. CASE call'[u].pc \notin {"accept.assign", "accept.write"}
      BY <3>4
    <3>5. QED
      BY <1>2, <3>1, <3>2, <3>3, <3>4, CallsMove
  <2>8. QED
    BY <2>2, <2>6, <2>7
<1>3. QED
  BY <1>1, <1>2

(***************************************************************************)
(* However calls interleave and die between the assignment and the writing *)
(* of ACCEPTED, an accepted offer's order has been dispatched to a driver  *)
(* and is never READY_FOR_PICKUP again.                                    *)
(***************************************************************************)
THEOREM AcceptedIsDispatched == OffersSpec => []AcceptedMeansDispatched
<1>1. OffersInit => AcceptInv
  BY DEF OffersInit, Init, AcceptInv, NoWayBack, AcceptanceBacked, AcceptedMeansDispatched, Idle
<1>2. TypeOK /\ TypeOK' /\ OffersInv /\ OnTheWayHasDriver' /\ AcceptInv /\ [OffersNext]_allVars
        => AcceptInv'
  BY AcceptInvStep
<1>3. AcceptInv => AcceptedMeansDispatched
  BY DEF AcceptInv
<1>4. OffersInv /\ [OffersNext]_allVars => OffersInv'
  BY OffersTypeStep
<1>5. OffersSpec => []TypeOK
  BY OffersRefineDispatch, TypeCorrect DEF ImplementsDispatch
<1>6. QED
  BY <1>1, <1>2, <1>3, <1>4, <1>5, OffersTypeInit, OfferedOnTheWay, PTL DEF OffersSpec

-----------------------------------------------------------------------------
(***************************************************************************)
(* One call at a time, which may die half-way while offers lapse.  What a  *)
(* call about offers has read still holds when it writes: the order it     *)
(* offers is still waiting, the driver has no offer in wait and has not    *)
(* declined, and the assignment is the one of the offer it accepts.        *)
(***************************************************************************)
OfferingPoints == {"next.load", "next.declined", "offer.order", "offer.driver", "offer.count",
                   "offer.pending", "offer.create"}

OfferFacts(t) ==
  /\ call[t].pc \in OfferingPoints => orderStatus[call[t].order] = "READY_FOR_PICKUP"
  /\ call[t].pc = "offer.create" => ~ Waiting(call[t].driver)
  /\ call[t].pc \in OfferingPoints \ {"next.load", "next.declined"} /\ call[t].by = "cascade"
       => ~ Declined(call[t].order, call[t].driver)
  /\ call[t].pc = "accept.assign" => task[t].driver = offers[call[t].offer].driver
  /\ call[t].pc = "accept.write" =>
       deliveryDriver[offers[call[t].offer].order] = offers[call[t].offer].driver
  /\ call[t].pc = "accept.others" => offers[call[t].offer].status = "ACCEPTED"

SerialOffers == OneLiveOffer /\ AcceptedCarries /\ \A t \in Tasks : OfferFacts(t)

LEMMA CallMoves ==
  ASSUME OffersInv, NEW t \in Tasks
  PROVE  /\ CallEnds(t) => call'[t] = Idle
         /\ call[t] \in Offering => \A pc \in OfferingPoints : CallGoto(t, pc) =>
              /\ call'[t].pc = pc /\ call'[t].order = call[t].order
              /\ call'[t].driver = call[t].driver /\ call'[t].by = call[t].by
         /\ call[t] \in Answering => \A pc \in {"accept.assign", "accept.write", "accept.others"} :
              CallGoto(t, pc) => call'[t].pc = pc /\ call'[t].offer = call[t].offer
<1>1. call \in [Tasks -> {Idle} \cup Offering \cup Answering \cup Listing]
  BY DEF OffersInv, OffersTypeOK
<1>2. CallEnds(t) => call'[t] = Idle
  BY <1>1 DEF CallEnds
<1>3. ASSUME call[t] \in Offering, NEW pc \in OfferingPoints, CallGoto(t, pc)
      PROVE  /\ call'[t].pc = pc /\ call'[t].order = call[t].order
             /\ call'[t].driver = call[t].driver /\ call'[t].by = call[t].by
  BY <1>1, <1>3 DEF CallGoto, Offering
<1>4. ASSUME call[t] \in Answering, NEW pc \in {"accept.assign", "accept.write", "accept.others"},
             CallGoto(t, pc)
      PROVE  call'[t].pc = pc /\ call'[t].offer = call[t].offer
  BY <1>1, <1>4 DEF CallGoto, Answering
<1>5. QED
  BY <1>2, <1>3, <1>4

\* A step on the way to an offer.
LEMMA OfferFactsStep ==
  ASSUME OffersInv, NEW t \in Tasks, OfferFacts(t), OfferStep(t)
  PROVE  OfferFacts(t)'
<1>1. CASE CallEnds(t)
  <2>1. call'[t].pc = "idle"
    BY <1>1, CallMoves DEF Idle
  <2>2. QED
    BY <2>1 DEF OfferFacts, OfferingPoints
<1>2. CASE ~ CallEnds(t)
  <2>1. call[t] \in Offering /\ call[t].pc \in OfferingPoints
    BY CallKinds DEF OffersInv, OfferStep, NextReadLoad, NextReadDeclined, OfferReadOrder,
       OfferReadDriver, OfferCount, OfferIneligible, OfferReadPending, OfferCreate, OfferingPoints
  <2>2. UNCHANGED <<vars, offers, lapsed>>
    BY <1>2 DEF OfferStep, NextReadLoad, NextReadDeclined, OfferReadOrder,
       OfferReadDriver, OfferCount, OfferIneligible, OfferReadPending, OfferCreate
  <2>3. PICK pc \in OfferingPoints : CallGoto(t, pc) /\ pc # "next.load"
    BY <1>2 DEF OfferStep, NextReadLoad, NextReadDeclined, OfferReadOrder,
       OfferReadDriver, OfferCount, OfferIneligible, OfferReadPending, OfferCreate, OfferingPoints
  <2>4. /\ call'[t].pc = pc /\ call'[t].order = call[t].order
        /\ call'[t].driver = call[t].driver /\ call'[t].by = call[t].by
    BY <2>1, <2>3, CallMoves
  <2>5. pc = "offer.create" => ~ Waiting(call[t].driver)
    BY <1>2, <2>1, <2>4, CallMoves
       DEF OfferStep, NextReadLoad, NextReadDeclined, OfferReadOrder,
           OfferReadDriver, OfferCount, OfferIneligible, OfferReadPending, OfferCreate, OfferingPoints
  <2>6. \/ pc = "next.declined"
        \/ call[t].pc \in OfferingPoints \ {"next.load", "next.declined"}
        \/ ~ Declined(call[t].order, call[t].driver)
    BY <1>2, <2>1, <2>4, CallMoves
       DEF OfferStep, NextReadLoad, NextReadDeclined, OfferReadOrder,
           OfferReadDriver, OfferCount, OfferIneligible, OfferReadPending, OfferCreate, OfferingPoints
  <2>7. PICK o, d : o = call[t].order /\ d = call[t].driver
    OBVIOUS
  <2>8. /\ Waiting(d)' <=> Waiting(d)
        /\ Declined(o, d)' <=> Declined(o, d)
        /\ orderStatus'[o] = orderStatus[o]
    BY <2>2 DEF Waiting, Live, Declined, vars
  <2>9. QED
    BY <2>1, <2>3, <2>4, <2>5, <2>6, <2>7, <2>8 DEF OfferFacts, OfferingPoints
<1>3. QED
  BY <1>1, <1>2

LEMMA SerialFactsStep ==
  ASSUME NEW t0, Tasks = {t0}, TypeOK, OffersInv, SerialInv, AcceptInv, OfferFacts(t0), OffersNext
  PROVE  OfferFacts(t0)'
<1>1. call \in [Tasks -> {Idle} \cup Offering \cup Answering \cup Listing]
  BY DEF OffersInv, OffersTypeOK
<1>2. CASE call'[t0].pc \in {"idle", "accept.order", "reject.write", "expire.write", "list.write"}
  BY <1>2 DEF OfferFacts, OfferingPoints
<1>3. CASE Lapse
  <2>1. UNCHANGED <<orderStatus, deliveryDriver, task, offers, call>> /\ lapsed' = lapsed + 1
    BY <1>3 DEF Lapse, vars
  <2>2. lapsed \in Nat /\ DOMAIN offers \subseteq Nat
    BY DEF OffersInv, OffersTypeOK
  <2>3. PICK o, d : o = call[t0].order /\ d = call[t0].driver
    OBVIOUS
  <2>4. (Waiting(d)' => Waiting(d)) /\ (Declined(o, d)' <=> Declined(o, d))
    BY <2>1, <2>2 DEF Waiting, Live, Declined
  <2>5. QED
    BY <2>1, <2>3, <2>4 DEF OfferFacts
<1>4. ASSUME NEW o \in Orders, NEW d \in Drivers, Create(t0, o, d) \/ NextBest(t0, o, d)
      PROVE  OfferFacts(t0)'
  <2>1. /\ call'[t0].order = o /\ orderStatus'[o] = "READY_FOR_PICKUP"
        /\ \/ call'[t0].pc = "next.load"
           \/ call'[t0].pc = "offer.driver" /\ call'[t0].by = "operator"
    BY <1>1, <1>4 DEF Create, NextBest, vars
  <2>2. QED
    BY <2>1 DEF OfferFacts, OfferingPoints
<1>5. CASE AcceptWrite(t0)
  <2>1. call[t0] \in Answering /\ call[t0].offer \in DOMAIN offers
    BY <1>5, CallKinds DEF AcceptWrite, OffersInv, AnswersKnowOffers
  <2>2. call'[t0].pc = "accept.others" /\ call'[t0].offer = call[t0].offer
    BY <1>5, <2>1, CallMoves DEF AcceptWrite
  <2>3. offers'[call[t0].offer].status = "ACCEPTED"
    BY <1>5, <2>1, RowsKept DEF AcceptWrite
  <2>4. QED
    BY <2>2, <2>3 DEF OfferFacts, OfferingPoints
<1>6. CASE AcceptAssign(t0) /\ ~ CallEnds(t0)
  <2>1. call[t0] \in Answering /\ call[t0].offer \in DOMAIN offers /\ UNCHANGED offers
    BY <1>6, CallKinds DEF AcceptAssign, OffersInv, AnswersKnowOffers
  <2>2. PICK o, d : /\ o = offers[call[t0].offer].order /\ d = offers[call[t0].offer].driver
                    /\ Assign(t0, o, d) /\ CallGoto(t0, "accept.assign")
    BY <1>6 DEF AcceptAssign
  <2>3. call'[t0].pc = "accept.assign" /\ call'[t0].offer = call[t0].offer
    BY <2>1, <2>2, CallMoves
  <2>4. task'[t0].driver = d
    BY <2>2 DEF Assign, TypeOK
  <2>5. QED
    BY <2>1, <2>2, <2>3, <2>4 DEF OfferFacts, OfferingPoints
<1>7. CASE AcceptAssigning(t0) /\ ~ CallEnds(t0)
  <2>1. /\ call[t0] \in Answering /\ call[t0].offer \in DOMAIN offers /\ UNCHANGED offers
        /\ call[t0].pc = "accept.assign"
        /\ task[t0] \in Assigning /\ task[t0].order = offers[call[t0].offer].order
        /\ task[t0].driver = offers[call[t0].offer].driver
    BY <1>7, CallKinds DEF AcceptAssigning, OffersInv, AnswersKnowOffers, AcceptInv, AcceptanceBacked,
       OfferFacts
  <2>2. CASE task[t0].pc = "assign.commit" /\ CallGoto(t0, "accept.write")
    <3>1. call'[t0].pc = "accept.write" /\ call'[t0].offer = call[t0].offer
      BY <2>1, <2>2, CallMoves
    <3>2. UNCHANGED deliveryDriver
      BY <1>7, <2>2 DEF AcceptAssigning, AssignStep, AssignReadDriver, AssignCount, AssignIneligible,
         AssignPlace, AssignCheck, AssignCommit
    <3>3. deliveryDriver[task[t0].order] = task[t0].driver
      BY <2>2 DEF SerialInv, CallFacts
    <3>4. QED
      BY <2>1, <3>1, <3>2, <3>3 DEF OfferFacts, OfferingPoints
  <2>3. CASE UNCHANGED call /\ task'[t0] # Idle
    <3>1. PICK pc \in {"assign.count", "assign.place", "assign.read", "assign.commit"} : Goto(t0, pc)
      BY <1>7, <2>3, EndsIdle
         DEF AcceptAssigning, AssignStep, AssignReadDriver, AssignCount, AssignIneligible,
             AssignPlace, AssignCheck, AssignCommit
    <3>2. task'[t0].driver = task[t0].driver
      BY <2>1, <3>1, GotoKeeps
    <3>3. QED
      BY <2>1, <2>3, <3>2 DEF OfferFacts, OfferingPoints
  <2>4. QED
    BY <1>7, <2>2, <2>3 DEF AcceptAssigning
<1>8. CASE OfferStep(t0)
  BY <1>8, OfferFactsStep
<1>9. CASE CallEnds(t0) \/ DispatchStep(t0)
  BY <1>2, <1>9, CallMoves DEF DispatchStep, offerVars, Idle
<1>10. ASSUME NEW i \in DOMAIN offers, Accept(t0, i) \/ Reject(t0, i) \/ AnswerTooLate(t0, i)
       PROVE  OfferFacts(t0)'
  BY <1>1, <1>2, <1>10 DEF Accept, Reject, AnswerTooLate
<1>11. ASSUME NEW d \in Drivers, List(t0, d)
       PROVE  OfferFacts(t0)'
  BY <1>1, <1>2, <1>11 DEF List
<1>12. QED
  BY <1>3, <1>4, <1>5, <1>6, <1>7, <1>8, <1>9, <1>10, <1>11
     DEF OffersNext, CallNext, AnswerStep, ExpireWrite, RejectWrite, AcceptOthers, ListWrite, CallFails

\* What a step may do to the rows, and when.
LEMMA RowSteps ==
  ASSUME OffersInv, OffersNext
  PROVE  \/ UNCHANGED offers /\ lapsed' \in {lapsed, lapsed + 1}
         \/ \E t \in Tasks : OfferCreate(t)
         \/ /\ lapsed' = lapsed /\ UNCHANGED vars
            /\ \E t \in Tasks :
                 \/ AcceptWrite(t)
                 \/ AcceptOthers(t)
                 \/ /\ call[t].pc \in {"expire.write", "reject.write", "list.write"}
                    /\ \E ids, status : status \in {"EXPIRED", "REJECTED"} /\ SetStatus(ids, status)
<1>1. ASSUME NEW t \in Tasks, ExpireWrite(t) \/ RejectWrite(t) \/ ListWrite(t)
      PROVE  /\ call[t].pc \in {"expire.write", "reject.write", "list.write"}
             /\ \E ids, status : status \in {"EXPIRED", "REJECTED"} /\ SetStatus(ids, status)
             /\ lapsed' = lapsed /\ UNCHANGED vars
  BY <1>1 DEF ExpireWrite, RejectWrite, ListWrite
<1>2. ASSUME NEW t \in Tasks, AcceptWrite(t) \/ AcceptOthers(t)
      PROVE  lapsed' = lapsed /\ UNCHANGED vars
  BY <1>2 DEF AcceptWrite, AcceptOthers
<1>3. QED
  BY <1>1, <1>2
     DEF OffersNext, CallNext, Lapse, Create, NextBest, Accept, Reject, AnswerTooLate, List, OfferStep,
         NextReadLoad, NextReadDeclined, OfferReadOrder, OfferReadDriver, OfferCount,
         OfferIneligible, OfferReadPending, AnswerStep, AcceptAssign, AcceptAssigning,
         DispatchStep, CallFails, offerVars

LEMMA SerialRowsStep ==
  ASSUME NEW t0, Tasks = {t0}, TypeOK, OffersInv, SerialInv, AcceptInv, SerialOffers, OffersNext
  PROVE  OneLiveOffer' /\ AcceptedCarries'
<1>1. /\ lapsed \in Nat /\ Len(offers) \in Nat /\ lapsed <= Len(offers)
      /\ DOMAIN offers = 1 .. Len(offers)
      /\ \A i \in DOMAIN offers : offers[i].order \in Orders /\ offers[i].driver \in Drivers
  <2>1. \A i \in DOMAIN offers : offers[i] \in Offer
    BY DEF OffersInv, OffersTypeOK
  <2>2. QED
    BY <2>1 DEF OffersInv, OffersTypeOK, Offer
<1>2. \A o \in Orders : orderStatus[o] # "READY_FOR_PICKUP" => deliveryDriver'[o] = deliveryDriver[o]
  <2>1. [Next]_vars
    BY OffersStep
  <2>2. QED
    BY <2>1, SerialDriverStays
<1>3. \A i \in DOMAIN offers : offers[i].status = "ACCEPTED" =>
        deliveryDriver'[offers[i].order] = offers[i].driver
  BY <1>1, <1>2 DEF AcceptInv, AcceptedMeansDispatched, SerialOffers, AcceptedCarries
<1>4. ASSUME UNCHANGED offers, lapsed' \in {lapsed, lapsed + 1}
      PROVE  OneLiveOffer' /\ AcceptedCarries'
  BY <1>1, <1>3, <1>4 DEF SerialOffers, OneLiveOffer, Live, AcceptedCarries
<1>5. ASSUME NEW t \in Tasks, OfferCreate(t)
      PROVE  OneLiveOffer' /\ AcceptedCarries'
  <2>1. ~ Waiting(call[t].driver) /\ lapsed' = lapsed
    BY <1>5 DEF OfferCreate, SerialOffers, OfferFacts
  <2>2. PICK n : /\ DOMAIN offers' = DOMAIN offers \cup {n}
                 /\ offers'[n].status = "PENDING" /\ offers'[n].driver = call[t].driver
                 /\ \A i \in DOMAIN offers : offers'[i] = offers[i]
    <3>1. PICK row : row = [order |-> call[t].order, driver |-> call[t].driver, status |-> "PENDING"]
      OBVIOUS
    <3>2. row.status = "PENDING" /\ row.driver = call[t].driver
      BY <3>1
    <3>3. QED
      BY <1>5, <3>1, <3>2, RowAdded, Zenon
  <2>3. \A i \in DOMAIN offers : offers[i].driver = call[t].driver => ~ (Live(i))'
    BY <2>1, <2>2 DEF Waiting, Live
  <2>4. OneLiveOffer'
    BY <2>1, <2>2, <2>3 DEF SerialOffers, OneLiveOffer, Live
  <2>5. AcceptedCarries'
    BY <1>3, <2>2 DEF AcceptedCarries
  <2>6. QED
    BY <2>4, <2>5
<1>6. ASSUME NEW ids, NEW status, SetStatus(ids, status), status # "PENDING",
             status # "ACCEPTED", lapsed' = lapsed
      PROVE  OneLiveOffer' /\ AcceptedCarries'
  <2>1. /\ DOMAIN offers' = DOMAIN offers
        /\ \A i \in DOMAIN offers :
             /\ offers'[i].order = offers[i].order /\ offers'[i].driver = offers[i].driver
             /\ offers'[i].status = IF i \in ids THEN status ELSE offers[i].status
    BY <1>6, RowsKept
  <2>2. OneLiveOffer'
    BY <1>6, <2>1 DEF SerialOffers, OneLiveOffer, Live
  <2>3. AcceptedCarries'
    BY <1>3, <1>6, <2>1 DEF AcceptedCarries
  <2>4. QED
    BY <2>2, <2>3
<1>7. ASSUME NEW t \in Tasks, AcceptWrite(t)
      PROVE  OneLiveOffer' /\ AcceptedCarries'
  <2>1. /\ call[t].offer \in DOMAIN offers /\ lapsed' = lapsed /\ UNCHANGED vars
        /\ deliveryDriver[offers[call[t].offer].order] = offers[call[t].offer].driver
    BY <1>7, CallKinds DEF AcceptWrite, OffersInv, AnswersKnowOffers, SerialOffers, OfferFacts
  <2>2. /\ DOMAIN offers' = DOMAIN offers
        /\ \A i \in DOMAIN offers :
             /\ offers'[i].order = offers[i].order /\ offers'[i].driver = offers[i].driver
             /\ offers'[i].status = IF i \in {call[t].offer} THEN "ACCEPTED" ELSE offers[i].status
    BY <1>7, RowsKept DEF AcceptWrite
  <2>3. OneLiveOffer'
    BY <2>1, <2>2 DEF SerialOffers, OneLiveOffer, Live
  <2>4. AcceptedCarries'
    BY <1>3, <2>1, <2>2 DEF AcceptedCarries, vars
  <2>5. QED
    BY <2>3, <2>4
<1>8. ASSUME NEW t \in Tasks, AcceptOthers(t)
      PROVE  OneLiveOffer' /\ AcceptedCarries'
  <2>1. lapsed' = lapsed /\ \E ids : SetStatus(ids, "EXPIRED")
    BY <1>8 DEF AcceptOthers
  <2>2. QED
    BY <1>6, <2>1
<1>9. QED
  BY <1>4, <1>5, <1>6, <1>7, <1>8, RowSteps

-----------------------------------------------------------------------------
(***************************************************************************)
(* One call at a time, until one dies: an offer in wait for an order that  *)
(* has an accepted one is about to be closed by the call that accepted.    *)
(***************************************************************************)
BeingClosed ==
  \A i, j \in DOMAIN offers :
    /\ offers[i].order = offers[j].order
    /\ offers[i].status = "ACCEPTED"
    /\ offers[j].status = "PENDING"
    => \E t \in Tasks : call[t].pc = "accept.others" /\ offers[call[t].offer].order = offers[i].order

LEMMA ClosingStep ==
  ASSUME NEW t0, Tasks = {t0}, TypeOK, OffersInv, AcceptInv, SerialOffers, BeingClosed,
         Lapse \/ CallNext(t0)
  PROVE  BeingClosed'
<1>1. CASE Lapse
  BY <1>1 DEF Lapse, BeingClosed
<1>2. ASSUME call[t0].pc # "accept.others",
             NEW i \in DOMAIN offers, NEW j \in DOMAIN offers, offers[i].order = offers[j].order,
             offers[i].status = "ACCEPTED"
      PROVE  offers[j].status # "PENDING"
  BY <1>2 DEF BeingClosed
<1>3. CASE AcceptOthers(t0)
  <2>1. /\ call[t0].offer \in DOMAIN offers /\ offers[call[t0].offer].status = "ACCEPTED"
        /\ call[t0].pc = "accept.others"
    BY <1>3, CallKinds DEF AcceptOthers, OffersInv, AnswersKnowOffers, SerialOffers, OfferFacts
  <2>2. PICK ids : /\ SetStatus(ids, "EXPIRED")
                   /\ ids = {i \in DOMAIN offers : /\ offers[i].order = offers[call[t0].offer].order
                                                   /\ offers[i].status = "PENDING"
                                                   /\ i # call[t0].offer}
    BY <1>3 DEF AcceptOthers
  <2>3. /\ DOMAIN offers' = DOMAIN offers
        /\ \A i \in DOMAIN offers :
             /\ offers'[i].order = offers[i].order
             /\ offers'[i].status = IF i \in ids THEN "EXPIRED" ELSE offers[i].status
    BY <2>2, RowsKept
  <2>4. ASSUME NEW i \in DOMAIN offers, NEW j \in DOMAIN offers, offers[i].order = offers[j].order,
               offers'[i].status = "ACCEPTED", offers'[j].status = "PENDING"
        PROVE  FALSE
    <3>1. offers[i].status = "ACCEPTED" /\ offers[j].status = "PENDING" /\ j \notin ids
      BY <2>3, <2>4
    <3>2. offers[call[t0].offer].order = offers[i].order
      BY <2>4, <3>1 DEF BeingClosed
    <3>3. QED
      BY <2>1, <2>2, <2>4, <3>1, <3>2
  <2>5. QED
    BY <2>3, <2>4 DEF BeingClosed
<1>4. CASE AcceptWrite(t0)
  <2>1. call[t0] \in Answering /\ call[t0].offer \in DOMAIN offers /\ call[t0].pc # "accept.others"
    BY <1>4, CallKinds DEF AcceptWrite, OffersInv, AnswersKnowOffers
  <2>2. call'[t0].pc = "accept.others" /\ call'[t0].offer = call[t0].offer
    BY <1>4, <2>1, CallMoves DEF AcceptWrite
  <2>3. /\ DOMAIN offers' = DOMAIN offers
        /\ \A i \in DOMAIN offers :
             /\ offers'[i].order = offers[i].order
             /\ offers'[i].status = IF i \in {call[t0].offer} THEN "ACCEPTED" ELSE offers[i].status
    BY <1>4, RowsKept DEF AcceptWrite
  <2>4. ASSUME NEW i \in DOMAIN offers, NEW j \in DOMAIN offers, offers[i].order = offers[j].order,
               offers'[i].status = "ACCEPTED", offers'[j].status = "PENDING"
        PROVE  i = call[t0].offer
    BY <1>2, <2>1, <2>3, <2>4
  <2>5. QED
    BY <2>1, <2>2, <2>3, <2>4 DEF BeingClosed
<1>5. CASE OfferCreate(t0)
  <2>1. call[t0].pc # "accept.others" /\ orderStatus[call[t0].order] = "READY_FOR_PICKUP"
    BY <1>5 DEF OfferCreate, SerialOffers, OfferFacts, OfferingPoints
  <2>2. PICK n : /\ DOMAIN offers' = DOMAIN offers \cup {n}
                 /\ offers'[n].status = "PENDING" /\ offers'[n].order = call[t0].order
                 /\ \A i \in DOMAIN offers : offers'[i] = offers[i]
    <3>1. PICK row : row = [order |-> call[t0].order, driver |-> call[t0].driver, status |-> "PENDING"]
      OBVIOUS
    <3>2. row.status = "PENDING" /\ row.order = call[t0].order
      BY <3>1
    <3>3. QED
      BY <1>5, <3>1, <3>2, RowAdded, Zenon
  <2>3. \A i \in DOMAIN offers : offers[i].status = "ACCEPTED" => offers[i].order # call[t0].order
    BY <2>1 DEF AcceptInv, AcceptedMeansDispatched
  <2>4. QED
    BY <1>2, <2>1, <2>2, <2>3 DEF BeingClosed
<1>6. CASE UNCHANGED offers /\ ~ AcceptOthers(t0) /\ CallNext(t0)
  <2>1. CASE call[t0].pc # "accept.others"
    BY <1>2, <1>6, <2>1 DEF BeingClosed
  <2>2. CASE call[t0].pc = "accept.others"
    BY <1>6, <2>2
       DEF CallNext, Create, NextBest, Accept, Reject, AnswerTooLate, List, OfferStep, Free, Idle,
           NextReadLoad, NextReadDeclined, OfferReadOrder, OfferReadDriver, OfferCount,
           OfferIneligible, OfferReadPending, OfferCreate, AnswerStep, ExpireWrite, RejectWrite,
           AcceptAssign, AcceptAssigning, AcceptWrite, ListWrite, DispatchStep
  <2>3. QED
    BY <2>1, <2>2
<1>7. ASSUME call[t0].pc \in {"expire.write", "reject.write", "list.write"},
             NEW ids, NEW status \in {"EXPIRED", "REJECTED"}, SetStatus(ids, status)
      PROVE  BeingClosed'
  <2>1. /\ DOMAIN offers' = DOMAIN offers
        /\ \A i \in DOMAIN offers :
             /\ offers'[i].order = offers[i].order
             /\ offers'[i].status = IF i \in ids THEN status ELSE offers[i].status
    BY <1>7, RowsKept
  <2>2. QED
    BY <1>2, <1>7, <2>1 DEF BeingClosed
<1>8. QED
  <2>1. OffersNext
    BY DEF OffersNext
  <2>2. QED
    BY <1>1, <1>3, <1>4, <1>5, <1>6, <1>7, <2>1, RowSteps

-----------------------------------------------------------------------------
(* The theorems about one call at a time *)

SerialOffersInv ==
  TypeOK /\ OffersInv /\ OnTheWayHasDriver /\ CallsFoundADriver /\ SerialInv /\ AcceptInv /\ SerialOffers

LEMMA SerialOffersInit == OffersInit => SerialOffersInv /\ BeingClosed
<1> SUFFICES ASSUME OffersInit
             PROVE  SerialOffersInv /\ BeingClosed
  OBVIOUS
<1>1. Init /\ offers = <<>> /\ \A t \in Tasks : call[t] = Idle
  BY DEF OffersInit
<1>2. TypeOK /\ OffersInv /\ SerialInv
  BY <1>1, TypeInit, OffersTypeInit, SerialInit
<1>3. OnTheWayHasDriver /\ CallsFoundADriver /\ AcceptInv
  BY <1>1 DEF Init, OnTheWayHasDriver, CallsFoundADriver, AcceptInv, NoWayBack, AcceptanceBacked,
     AcceptedMeansDispatched, Idle
<1>4. SerialOffers /\ BeingClosed
  BY <1>1 DEF SerialOffers, OneLiveOffer, AcceptedCarries, OfferFacts, OfferingPoints, BeingClosed, Idle
<1>5. QED
  BY <1>2, <1>3, <1>4 DEF SerialOffersInv

LEMMA SerialOffersStep ==
  ASSUME NEW t0, Tasks = {t0}, SerialOffersInv, [OffersNext]_allVars
  PROVE  SerialOffersInv'
<1> USE DEF SerialOffersInv
<1>1. [Next]_vars
  BY OffersStep DEF allVars
<1>2. TypeOK' /\ OffersInv' /\ SerialInv'
  BY <1>1, TypeStep, OffersTypeStep, SerialStep
<1>3. OnTheWayHasDriver' /\ CallsFoundADriver'
  BY <1>1, <1>2, OnTheWayStep
<1>4. AcceptInv'
  BY <1>2, <1>3, AcceptInvStep
<1>5. CASE UNCHANGED allVars
  <2>1. UNCHANGED <<orderStatus, deliveryDriver, task, offers, lapsed, call>>
    BY <1>5 DEF allVars, vars, offerVars
  <2>2. SerialOffers'
    BY <2>1 DEF SerialOffers, OneLiveOffer, AcceptedCarries, OfferFacts, Waiting, Declined, Live
  <2>3. QED
    BY <1>2, <1>3, <1>4, <2>2
<1>6. CASE OffersNext
  <2>1. OfferFacts(t0)'
    BY <1>6, SerialFactsStep DEF SerialOffers
  <2>2. SerialOffers'
    BY <1>6, <2>1, SerialRowsStep DEF SerialOffers
  <2>3. QED
    BY <1>2, <1>3, <1>4, <2>2
<1>7. QED
  BY <1>5, <1>6

(***************************************************************************)
(* With one call at a time, even if it dies half-way, a driver never has   *)
(* two offers in wait.                                                     *)
(***************************************************************************)
THEOREM SerialOneLiveOffer ==
  ASSUME NEW CONSTANT t0, Tasks = {t0}
  PROVE  OffersSpec => []OneLiveOffer
<1>1. SerialOffersInv => OneLiveOffer
  BY DEF SerialOffersInv, SerialOffers
<1>2. SerialOffersInv /\ [OffersNext]_allVars => SerialOffersInv'
  BY SerialOffersStep
<1>3. QED
  BY <1>1, <1>2, SerialOffersInit, PTL DEF OffersSpec

(***************************************************************************)
(* With one call at a time, even if it dies half-way, the driver who       *)
(* accepted is the one who carries the order, for good.                    *)
(***************************************************************************)
THEOREM SerialAcceptedCarries ==
  ASSUME NEW CONSTANT t0, Tasks = {t0}
  PROVE  OffersSpec => []AcceptedCarries
<1>1. SerialOffersInv => AcceptedCarries
  BY DEF SerialOffersInv, SerialOffers
<1>2. SerialOffersInv /\ [OffersNext]_allVars => SerialOffersInv'
  BY SerialOffersStep
<1>3. QED
  BY <1>1, <1>2, SerialOffersInit, PTL DEF OffersSpec

(***************************************************************************)
(* With one call at a time, the cascade never asks a driver about an order *)
(* the driver has refused, or has let lapse on record.                     *)
(***************************************************************************)
THEOREM SerialRefusals ==
  ASSUME NEW CONSTANT t0, Tasks = {t0}
  PROVE  OffersSpec => RefusalRespected
<1>1. SerialOffersInv =>
        \A t \in Tasks : CascadeOffers(t) => ~ Declined(call[t].order, call[t].driver)
  BY DEF SerialOffersInv, SerialOffers, OfferFacts, OfferingPoints, CascadeOffers
<1>2. SerialOffersInv /\ [OffersNext]_allVars => SerialOffersInv'
  BY SerialOffersStep
<1>3. SerialOffersInv /\ [OffersNext]_allVars =>
        [\A t \in Tasks : CascadeOffers(t) => ~ Declined(call[t].order, call[t].driver)]_allVars
  BY <1>1
<1>4. QED
  BY <1>2, <1>3, SerialOffersInit, PTL DEF OffersSpec, RefusalRespected

(***************************************************************************)
(* With one call at a time and until one dies, once an acceptance has been *)
(* answered no offer for its order is in wait.                             *)
(***************************************************************************)
THEOREM SerialClosing ==
  ASSUME NEW CONSTANT t0, Tasks = {t0}
  PROVE  WatchedOffersSpec => []AcceptanceClosesOffers
<1> DEFINE Closing == SerialOffersInv /\ (died \/ BeingClosed)
<1>1. WatchedOffersInit => Closing
  BY SerialOffersInit DEF WatchedOffersInit
<1>2. Closing /\ [WatchedOffersNext]_<<allVars, died>> => Closing'
  <2> SUFFICES ASSUME Closing, [WatchedOffersNext]_<<allVars, died>>
               PROVE  Closing'
    OBVIOUS
  <2>1. [OffersNext]_allVars
    BY DEF WatchedOffersNext, OffersNext
  <2>2. SerialOffersInv'
    BY <2>1, SerialOffersStep
  <2>3. CASE died \/ died'
    BY <2>2, <2>3 DEF WatchedOffersNext
  <2>4. CASE BeingClosed /\ UNCHANGED <<allVars, died>>
    BY <2>2, <2>4 DEF BeingClosed, allVars, offerVars
  <2>5. CASE BeingClosed /\ (Lapse \/ CallNext(t0))
    BY <2>2, <2>5, ClosingStep DEF SerialOffersInv
  <2>6. QED
    BY <2>3, <2>4, <2>5 DEF WatchedOffersNext
<1>3. Closing => AcceptanceClosesOffers
  BY DEF BeingClosed, AcceptanceClosesOffers, AcceptanceCloses
<1> HIDE DEF Closing
<1>4. QED
  BY <1>1, <1>2, <1>3, PTL DEF WatchedOffersSpec
=============================================================================
