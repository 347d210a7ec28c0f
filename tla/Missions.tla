------------------------------ MODULE Missions ------------------------------
(***************************************************************************)
(* A mission, from the assigned order to its end: the driver's screen      *)
(* (src/components/driver/MissionActions.tsx) and the service it calls     *)
(* (src/modules/deliveries/deliveries.service.ts).  An attempt is numbered,*)
(* stored, and its proof stored, before transitionOrderStatus finds out    *)
(* whether the order may take that outcome.  Positions and DeliveryEvent   *)
(* rows, which nothing reads back, are left out.                           *)
(***************************************************************************)
EXTENDS Sequences, Requests, MissionScreen

CONSTANTS Outcomes,    \* the results drivers report, some or all of Results
          MaxAttempts  \* bound: attempts recorded

VARIABLES orderStatus,
          delivery,  \* the Delivery row: pickedUpAt and deliveredAt are set, the proof
          attempts,  \* the DeliveryAttempt rows, in the order they were stored
          screen,    \* the status the driver's screen was drawn with
          press      \* task -> where the request stands

missionVars == <<orderStatus, delivery, attempts, screen, press>>

\* Signatures and photos are files; a code and a position are not.
Proofs == {"FILE", "CODE"}

MissionStatus == OrderStatus \ {"PENDING", "CONFIRMED", "READY_FOR_PICKUP"}

Attempt == [number : 1 .. MaxAttempts + 1, result : Results]

\* `to` is the status asked of transitionOrderStatus at the end.
PressCalls ==
  [pc : {"count", "proof"}, result : Results, to : MissionStatus]
  \cup [pc : {"attempt"}, result : Results, to : MissionStatus, number : 1 .. MaxAttempts + 1]
  \cup [pc : {"check", "commit", "pickup"}, to : MissionStatus]

ASSUME MissionAssumption == Outcomes \subseteq Results /\ MaxAttempts \in Nat

MissionTypeOK ==
  /\ orderStatus \in MissionStatus
  /\ delivery \in [pickedUpAt : BOOLEAN, deliveredAt : BOOLEAN, proof : Proofs \cup {"none"}]
  /\ attempts \in UNION {[1 .. n -> Attempt] : n \in 0 .. MaxAttempts}
  /\ screen \in MissionStatus
  /\ press \in [Tasks -> {Idle} \cup PressCalls]

MissionInit ==
  /\ orderStatus = "ASSIGNED"
  /\ delivery = [pickedUpAt |-> FALSE, deliveredAt |-> FALSE, proof |-> "none"]
  /\ attempts = <<>>
  /\ screen = "ASSIGNED"
  /\ press = [t \in Tasks |-> Idle]

-----------------------------------------------------------------------------
(* The screen *)

Asks(t, call) ==
  /\ press[t] = Idle
  /\ press' = [press EXCEPT ![t] = call]
  /\ UNCHANGED <<orderStatus, delivery, attempts, screen>>

\* Only the button pressed is disabled while its request runs.
PressStatus(t, to) == to \in StatusButtons(screen) /\ Asks(t, [pc |-> "check", to |-> to])

PressResult(t, result) ==
  /\ result \in Outcomes \cap ResultButtons(screen)
  /\ Asks(t, [pc |-> "count", result |-> result, to |-> ATTEMPT_RESULT_TO_ORDER_STATUS[result]])

\* An operator or the supplier cancels, from a screen of his own.
PressCancel(t) == Asks(t, [pc |-> "check", to |-> "CANCELLED"])

\* router.refresh, or a page loaded again; a screen nobody refreshes stays as it was.
RefreshScreen ==
  /\ screen' = orderStatus
  /\ UNCHANGED <<orderStatus, delivery, attempts, press>>

-----------------------------------------------------------------------------
(* recordDeliveryAttempt *)

NextNumber == Len(attempts) + 1

CountAttempts(t) ==
  /\ press[t].pc = "count"
  /\ press' = [press EXCEPT ![t] = [pc |-> "attempt", result |-> press[t].result, to |-> press[t].to,
                                    number |-> NextNumber]]
  /\ UNCHANGED <<orderStatus, delivery, attempts, screen>>

\* Faulty variant: the order is moved and the proof left for later.
AfterAttemptTransition(result) == "check"

\* What follows the attempt: the proof of a success, or the transition.
AfterAttempt(result) == IF result = "SUCCESS" THEN "proof" ELSE "check"

StoreAttempt(t) ==
  LET result == press[t].result IN
  /\ press[t].pc = "attempt" /\ Len(attempts) < MaxAttempts
  /\ attempts' = Append(attempts, [number |-> press[t].number, result |-> result])
  /\ press' = [press EXCEPT ![t] =
       IF AfterAttempt(result) = "proof"
       THEN [pc |-> "proof", result |-> result, to |-> press[t].to]
       ELSE [pc |-> "check", to |-> press[t].to]]
  /\ UNCHANGED <<orderStatus, delivery, screen>>

\* The file, if the proof is one, is saved before the row that names it.
StoreProof(t) ==
  /\ press[t].pc = "proof"
  /\ \E proof \in Proofs :
       delivery' = [delivery EXCEPT !.deliveredAt = TRUE, !.proof = proof]
  /\ press' = [press EXCEPT ![t] = [pc |-> "check", to |-> press[t].to]]
  /\ UNCHANGED <<orderStatus, attempts, screen>>

-----------------------------------------------------------------------------
(* transitionOrderStatus, and what advanceDeliveryStatus adds to it *)

\* The order is read and the transition checked; a refusal is a 409.
CheckTransition(t) ==
  /\ press[t].pc = "check"
  /\ press' = IF canTransition(orderStatus, press[t].to) THEN Goto(press, t, "commit")
              ELSE Ends(press, t)
  /\ UNCHANGED <<orderStatus, delivery, attempts, screen>>

CommitTransition(t) ==
  /\ press[t].pc = "commit"
  /\ orderStatus' = press[t].to
  /\ press' = IF press[t].to = "PICKED_UP" THEN Goto(press, t, "pickup") ELSE Ends(press, t)
  /\ UNCHANGED <<delivery, attempts, screen>>

StampPickup(t) ==
  /\ press[t].pc = "pickup"
  /\ delivery' = [delivery EXCEPT !.pickedUpAt = TRUE]
  /\ press' = Ends(press, t)
  /\ UNCHANGED <<orderStatus, attempts, screen>>

PressFails(t) ==
  /\ press[t] # Idle
  /\ press' = Ends(press, t)
  /\ UNCHANGED <<orderStatus, delivery, attempts, screen>>

-----------------------------------------------------------------------------
(* The whole *)

MissionNext ==
  \/ RefreshScreen
  \/ \E t \in Tasks :
       \/ \E to \in MissionStatus : PressStatus(t, to)
       \/ \E result \in Outcomes : PressResult(t, result)
       \/ PressCancel(t)
       \/ CountAttempts(t) \/ StoreAttempt(t) \/ StoreProof(t)
       \/ CheckTransition(t) \/ CommitTransition(t) \/ StampPickup(t) \/ PressFails(t)

MissionSpec == MissionInit /\ [][MissionNext]_missionVars

Recorded(result) == \E i \in DOMAIN attempts : attempts[i].result = result

(***************************************************************************)
(* "Exige et persiste la preuve de livraison avant de transiter la         *)
(* commande vers DELIVERED" (deliveries.service.ts:148): whatever buttons  *)
(* race, an outcome the order shows was recorded as an attempt, and a      *)
(* delivered order has its proof.                                          *)
(***************************************************************************)
OutcomeHasAttempt ==
  /\ orderStatus = "DELIVERED" =>
       Recorded("SUCCESS") /\ delivery.deliveredAt /\ delivery.proof # "none"
  /\ orderStatus \in FAILURE_STATUSES => Recorded(orderStatus)

(***************************************************************************)
(* Attempts share a number only with requests that ran at once.            *)
(***************************************************************************)
AttemptsPerRequest ==
  \A n \in 1 .. MaxAttempts + 1 :
    Cardinality({i \in DOMAIN attempts : attempts[i].number = n})
      + Cardinality({t \in At(press, "attempt") : press[t].number = n}) <= Cardinality(Tasks)

(***************************************************************************)
(* A delivery stamped deliveredAt, which the driver's milestones count, is *)
(* the delivery of a DELIVERED order, or its request is about to commit.   *)
(***************************************************************************)
StampedIsDelivered ==
  delivery.deliveredAt =>
    \/ orderStatus = "DELIVERED"
    \/ \E t \in Tasks : press[t] # Idle /\ press[t].to = "DELIVERED"

(***************************************************************************)
(* No mission is stuck: a screen that is up to date shows, until the order *)
(* is terminal, a button whose transition the state machine accepts.       *)
(***************************************************************************)
ScreenLeadsOn ==
  \/ orderStatus \in TERMINAL_STATUSES
  \/ \E to \in StatusButtons(orderStatus) : canTransition(orderStatus, to)
  \/ \E result \in ResultButtons(orderStatus) :
       canTransition(orderStatus, ATTEMPT_RESULT_TO_ORDER_STATUS[result])
=============================================================================
