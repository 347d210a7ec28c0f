--------------------------- MODULE MissionsProofs ---------------------------
(***************************************************************************)
(* Theorems about Missions, for any number of racing and dying requests:   *)
(* an outcome the order shows was recorded (Outcomes are recorded before   *)
(* the transition), attempts share numbers only with requests that ran at  *)
(* once, and the driver's screen always offers a way on.                   *)
(***************************************************************************)
EXTENDS Missions, FiniteSetTheorems, TLAPS

Others(t) == \A u \in Tasks \ {t} : press'[u] = press[u]

LEMMA AttemptsAreASequence ==
  ASSUME MissionTypeOK
  PROVE  attempts \in Seq(Attempt) /\ Len(attempts) \in 0 .. MaxAttempts
<1>1. PICK n \in 0 .. MaxAttempts : attempts \in [1 .. n -> Attempt]
  BY DEF MissionTypeOK
<1>2. n \in Nat
  BY <1>1, MissionAssumption
<1>3. QED
  BY <1>1, <1>2

LEMMA PressMoves ==
  ASSUME MissionTypeOK, NEW t \in Tasks, NEW call \in {Idle} \cup PressCalls,
         press' = [press EXCEPT ![t] = call]
  PROVE  Others(t) /\ press'[t] = call /\ press' \in [Tasks -> {Idle} \cup PressCalls]
BY DEF MissionTypeOK, Others

LEMMA OutcomesHaveAStatus ==
  /\ ATTEMPT_RESULT_TO_ORDER_STATUS \in [Results -> MissionStatus]
  /\ \A result \in Results :
       LET to == ATTEMPT_RESULT_TO_ORDER_STATUS[result] IN
       /\ to = "DELIVERED" <=> result = "SUCCESS"
       /\ to \in FAILURE_STATUSES => to = result
BY DEF ATTEMPT_RESULT_TO_ORDER_STATUS, Results, MissionStatus, OrderStatus, FAILURE_STATUSES

LEMMA StatusButtonsAskNoOutcome ==
  ASSUME NEW shown \in MissionStatus, NEW to \in StatusButtons(shown)
  PROVE  to \in MissionStatus /\ to # "DELIVERED" /\ to \notin FAILURE_STATUSES
BY DEF StatusButtons, MissionStatus, OrderStatus, FAILURE_STATUSES

LEMMA ScreenOffersAWay ==
  ASSUME MissionTypeOK
  PROVE  ScreenLeadsOn
<1>1. CASE orderStatus = "OUT_FOR_DELIVERY"
  <2>1. "SUCCESS" \in ResultButtons(orderStatus)
    BY <1>1 DEF ResultButtons, Results
  <2>2. canTransition("OUT_FOR_DELIVERY", ATTEMPT_RESULT_TO_ORDER_STATUS["SUCCESS"])
    BY DEF canTransition, ORDER_TRANSITIONS, ATTEMPT_RESULT_TO_ORDER_STATUS, OrderStatus,
           FAILURE_STATUSES, TERMINAL_STATUSES
  <2>3. QED
    BY <1>1, <2>1, <2>2 DEF ScreenLeadsOn
<1>2. CASE orderStatus \in TERMINAL_STATUSES
  BY <1>2 DEF ScreenLeadsOn
<1>3. CASE orderStatus \notin TERMINAL_STATUSES \cup {"OUT_FOR_DELIVERY"}
  <2>1. \E to \in StatusButtons(orderStatus) : canTransition(orderStatus, to)
    BY <1>3 DEF MissionTypeOK, MissionStatus, OrderStatus, TERMINAL_STATUSES,
                StatusButtons, FAILURE_STATUSES, canTransition, ORDER_TRANSITIONS
  <2>2. QED
    BY <2>1 DEF ScreenLeadsOn
<1>4. QED
  BY <1>1, <1>2, <1>3

-----------------------------------------------------------------------------
(* The invariant *)

StatusAsked(call) == ATTEMPT_RESULT_TO_ORDER_STATUS[call.result]

\* What is behind a request at the transition it asks for.
Backed(to) ==
  /\ to = "DELIVERED" => Recorded("SUCCESS") /\ delivery.deliveredAt /\ delivery.proof # "none"
  /\ to \in FAILURE_STATUSES => Recorded(to)

\* What is behind a request of the driver, at every await.
PressIsBacked(call) ==
  /\ call.pc \in {"count", "attempt", "proof"} => call.to = StatusAsked(call)
  /\ call.pc = "proof" => call.result = "SUCCESS" /\ Recorded("SUCCESS")
  /\ call.pc \in {"check", "commit"} => Backed(call.to)

\* Numbers are drawn in the order of the rows.
NumbersFollow ==
  /\ \A i \in DOMAIN attempts : attempts[i].number <= i
  /\ \A t \in Tasks : press[t].pc = "attempt" => press[t].number <= Len(attempts) + 1

MissionInv ==
  /\ MissionTypeOK
  /\ Backed(orderStatus)
  /\ \A t \in Tasks : PressIsBacked(press[t])
  /\ NumbersFollow
  /\ AttemptsPerRequest

LEMMA RecordedStays ==
  ASSUME MissionTypeOK, attempts' = attempts \/ \E a \in Attempt : attempts' = Append(attempts, a),
         NEW result, Recorded(result)
  PROVE  Recorded(result)'
<1>1. attempts \in Seq(Attempt)
  BY AttemptsAreASequence
<1>2. PICK i \in DOMAIN attempts : attempts[i].result = result
  BY DEF Recorded
<1>3. CASE attempts' = attempts
  BY <1>2, <1>3 DEF Recorded
<1>4. ASSUME NEW a \in Attempt, attempts' = Append(attempts, a) PROVE Recorded(result)'
  <2>1. i \in DOMAIN attempts' /\ attempts'[i] = attempts[i]
    BY <1>1, <1>2, <1>4
  <2>2. QED
    BY <1>2, <2>1 DEF Recorded
<1>5. QED
  BY <1>3, <1>4

\* Nothing that was recorded, stamped or proved is taken back.
LEMMA BackedStays ==
  ASSUME MissionTypeOK, attempts' = attempts \/ \E a \in Attempt : attempts' = Append(attempts, a),
         delivery.deliveredAt => delivery'.deliveredAt,
         delivery.proof # "none" => delivery'.proof # "none"
  PROVE  /\ \A to : Backed(to) => Backed(to)'
         /\ \A call : PressIsBacked(call) => PressIsBacked(call)'
<1>1. \A result : Recorded(result) => Recorded(result)'
  BY RecordedStays
<1>2. ASSUME NEW to, Backed(to) PROVE Backed(to)'
  BY <1>1, <1>2 DEF Backed
<1>3. ASSUME NEW call, PressIsBacked(call) PROVE PressIsBacked(call)'
  BY <1>1, <1>2, <1>3 DEF PressIsBacked, StatusAsked
<1>4. QED
  BY <1>2, <1>3

\* Attempts that have the number n, and requests that are about to store one.
Stored(n) == {i \in DOMAIN attempts : attempts[i].number = n}

Drawn(n) == {t \in At(press, "attempt") : press[t].number = n}

LEMMA CountsAreNatural ==
  ASSUME MissionTypeOK, NEW n
  PROVE  /\ IsFiniteSet(Stored(n)) /\ Cardinality(Stored(n)) \in Nat
         /\ IsFiniteSet(Drawn(n)) /\ Cardinality(Drawn(n)) \in Nat
         /\ Cardinality(Tasks) \in Nat /\ IsFiniteSet(Tasks)
<1>1. IsFiniteSet(Tasks) /\ Drawn(n) \subseteq Tasks
  BY TasksAssumption DEF At, Drawn
<1>2. PICK m \in Nat : DOMAIN attempts = 1 .. m
  BY AttemptsAreASequence
<1>3. IsFiniteSet(1 .. m) /\ Stored(n) \subseteq 1 .. m
  BY <1>2, FS_Interval DEF Stored
<1>4. IsFiniteSet(Stored(n)) /\ IsFiniteSet(Drawn(n))
  BY <1>1, <1>3, FS_Subset, Zenon
<1>5. QED
  BY <1>1, <1>4, FS_CardinalityType

\* A step of t that stores no attempt and draws no number.
LEMMA NumbersStay ==
  ASSUME MissionInv, NEW t \in Tasks, Others(t), attempts' = attempts,
         press'[t].pc # "attempt"
  PROVE  NumbersFollow' /\ AttemptsPerRequest'
<1>1. NumbersFollow'
  BY DEF MissionInv, NumbersFollow, Others
<1>2. ASSUME NEW n \in 1 .. MaxAttempts + 1
      PROVE  Cardinality(Stored(n)') + Cardinality(Drawn(n)') <= Cardinality(Tasks)
  <2>1. PICK stored, drawn : stored = Stored(n)' /\ drawn = Drawn(n)'
    OBVIOUS
  <2>2. stored = Stored(n) /\ drawn \subseteq Drawn(n)
    BY <2>1 DEF Stored, Drawn, At, Others
  <2>3. /\ IsFiniteSet(Drawn(n)) /\ Cardinality(Drawn(n)) \in Nat
        /\ Cardinality(Stored(n)) \in Nat /\ Cardinality(Tasks) \in Nat
    BY CountsAreNatural DEF MissionInv
  <2>4. Cardinality(drawn) \in Nat /\ Cardinality(drawn) <= Cardinality(Drawn(n))
    BY <2>2, <2>3, FS_Subset, FS_CardinalityType
  <2>5. Cardinality(Stored(n)) + Cardinality(Drawn(n)) <= Cardinality(Tasks)
    BY DEF MissionInv, AttemptsPerRequest, Stored, Drawn
  <2>6. QED
    BY <2>1, <2>2, <2>3, <2>4, <2>5
<1>3. AttemptsPerRequest'
  BY <1>2 DEF AttemptsPerRequest, Stored, Drawn
<1>4. QED
  BY <1>1, <1>3

-----------------------------------------------------------------------------
(* The steps *)

LEMMA InitIsGood == ASSUME MissionInit PROVE MissionInv
<1>1. attempts \in [1 .. 0 -> Attempt] /\ 0 \in 0 .. MaxAttempts /\ DOMAIN attempts = {}
      /\ Len(attempts) = 0
  BY MissionAssumption DEF MissionInit
<1>2. attempts \in UNION {[1 .. n -> Attempt] : n \in 0 .. MaxAttempts}
  BY <1>1
<1>3. MissionTypeOK
  BY <1>2 DEF MissionInit, MissionTypeOK, MissionStatus, OrderStatus
<1>4. \A t \in Tasks : press[t].pc = "idle"
  BY DEF MissionInit, Idle
<1>5. Backed(orderStatus)
  BY DEF MissionInit, Backed, FAILURE_STATUSES
<1>6. ASSUME NEW n PROVE Cardinality(Stored(n)) + Cardinality(Drawn(n)) <= Cardinality(Tasks)
  <2>1. Stored(n) = {} /\ Drawn(n) = {}
    BY <1>1, <1>4 DEF Stored, Drawn, At
  <2>2. Cardinality({}) = 0 /\ Cardinality(Tasks) \in Nat
    BY <1>3, FS_EmptySet, CountsAreNatural
  <2>3. QED
    BY <2>1, <2>2
<1>7. AttemptsPerRequest
  BY <1>6 DEF AttemptsPerRequest, Stored, Drawn
<1>8. QED
  BY <1>1, <1>3, <1>4, <1>5, <1>7 DEF MissionInv, PressIsBacked, NumbersFollow

\* A step of t that leaves the attempts alone, and goes on to something backed.
LEMMA QuietStep ==
  ASSUME MissionInv, NEW t \in Tasks, NEW call \in {Idle} \cup PressCalls,
         press' = [press EXCEPT ![t] = call], call.pc # "attempt",
         attempts' = attempts,
         orderStatus' \in MissionStatus, screen' \in MissionStatus,
         delivery' \in [pickedUpAt : BOOLEAN, deliveredAt : BOOLEAN, proof : Proofs \cup {"none"}],
         delivery.deliveredAt => delivery'.deliveredAt,
         delivery.proof # "none" => delivery'.proof # "none",
         Backed(orderStatus'), PressIsBacked(call)'
  PROVE  MissionInv'
<1>1. Others(t) /\ press'[t] = call /\ press' \in [Tasks -> {Idle} \cup PressCalls]
  BY PressMoves DEF MissionInv
<1>2. MissionTypeOK'
  BY <1>1 DEF MissionInv, MissionTypeOK
<1>3. /\ \A to : Backed(to) => Backed(to)'
      /\ \A c : PressIsBacked(c) => PressIsBacked(c)'
  BY BackedStays DEF MissionInv
<1>4. PICK status \in MissionStatus : status = orderStatus'
  OBVIOUS
<1>5. Backed(status)'
  BY <1>3, <1>4
<1>6. Backed(orderStatus)'
  BY <1>4, <1>5 DEF Backed
<1>7. ASSUME NEW u \in Tasks PROVE PressIsBacked(press[u])'
  <2>1. PICK c : c = press'[u]
    OBVIOUS
  <2>2. PressIsBacked(c)'
    BY <1>1, <1>3, <2>1 DEF Others, MissionInv
  <2>3. QED
    BY <2>1, <2>2 DEF PressIsBacked, StatusAsked
<1>8. NumbersFollow' /\ AttemptsPerRequest'
  BY <1>1, NumbersStay
<1>9. QED
  BY <1>2, <1>6, <1>7, <1>8 DEF MissionInv

LEMMA CallOf ==
  ASSUME MissionTypeOK, NEW t \in Tasks
  PROVE  /\ press[t].pc \in {"count", "proof"} =>
              press[t].result \in Results /\ press[t].to \in MissionStatus
         /\ press[t].pc = "attempt" =>
              /\ press[t].result \in Results /\ press[t].to \in MissionStatus
              /\ press[t].number \in 1 .. MaxAttempts + 1
         /\ press[t].pc \in {"check", "commit", "pickup"} =>
              press[t].to \in MissionStatus /\ press[t] \in [pc : {"check", "commit", "pickup"}, to : MissionStatus]
BY DEF MissionTypeOK, PressCalls, Idle

\* At the transition a request is no more than the status it asks for.
LEMMA GotoKeepsTo ==
  ASSUME NEW t \in Tasks, NEW a, NEW b, NEW to, press[t] = [pc |-> a, to |-> to]
  PROVE  Goto(press, t, b) = [press EXCEPT ![t] = [pc |-> b, to |-> to]]
<1>1. [press[t] EXCEPT !.pc = b] = [pc |-> b, to |-> to]
  OBVIOUS
<1>2. Goto(press, t, b) = [press EXCEPT ![t] = [press[t] EXCEPT !.pc = b]]
  BY DEF Goto
<1>3. QED
  BY <1>1, <1>2

LEMMA AskStep ==
  ASSUME MissionInv, NEW t \in Tasks,
         \/ \E to \in MissionStatus : PressStatus(t, to)
         \/ \E result \in Outcomes : PressResult(t, result)
         \/ PressCancel(t)
  PROVE  MissionInv'
<1>1. MissionTypeOK
  BY DEF MissionInv
<1>2. ASSUME NEW call \in PressCalls, Asks(t, call), call.pc # "attempt", PressIsBacked(call)
      PROVE  MissionInv'
  <2>1. PressIsBacked(call)'
    BY <1>1, <1>2, BackedStays DEF Asks
  <2>2. QED
    BY <1>1, <1>2, <2>1, QuietStep DEF Asks, MissionInv, MissionTypeOK
<1>3. ASSUME NEW to \in MissionStatus, PressStatus(t, to) PROVE MissionInv'
  <2>1. to # "DELIVERED" /\ to \notin FAILURE_STATUSES
    BY <1>1, <1>3, StatusButtonsAskNoOutcome DEF PressStatus, MissionTypeOK
  <2>2. [pc |-> "check", to |-> to] \in PressCalls
    BY DEF PressCalls
  <2>3. PressIsBacked([pc |-> "check", to |-> to])
    BY <2>1 DEF PressIsBacked, Backed
  <2>4. QED
    BY <1>2, <1>3, <2>2, <2>3 DEF PressStatus
<1>4. ASSUME NEW result \in Outcomes, PressResult(t, result) PROVE MissionInv'
  <2>1. PICK call : call = [pc |-> "count", result |-> result,
                            to |-> ATTEMPT_RESULT_TO_ORDER_STATUS[result]]
    OBVIOUS
  <2>2. call \in PressCalls /\ call.pc = "count"
    BY <2>1, MissionAssumption, OutcomesHaveAStatus DEF PressCalls
  <2>3. PressIsBacked(call)
    BY <2>1 DEF PressIsBacked, StatusAsked
  <2>4. QED
    BY <1>2, <1>4, <2>1, <2>2, <2>3 DEF PressResult
<1>5. CASE PressCancel(t)
  <2>1. [pc |-> "check", to |-> "CANCELLED"] \in PressCalls
    BY DEF PressCalls, MissionStatus, OrderStatus
  <2>2. PressIsBacked([pc |-> "check", to |-> "CANCELLED"])
    BY DEF PressIsBacked, Backed, FAILURE_STATUSES
  <2>3. QED
    BY <1>2, <1>5, <2>1, <2>2 DEF PressCancel
<1>6. QED
  BY <1>3, <1>4, <1>5

LEMMA CheckStep ==
  ASSUME MissionInv, NEW t \in Tasks, CheckTransition(t) \/ PressFails(t)
  PROVE  MissionInv'
<1>1. /\ MissionTypeOK /\ PressIsBacked(press[t])
      /\ UNCHANGED <<orderStatus, delivery, attempts, screen>>
  BY DEF MissionInv, CheckTransition, PressFails
<1>2. Idle.pc = "idle" /\ PressIsBacked(Idle)'
  BY DEF Idle, PressIsBacked
<1>3. CASE press' = [press EXCEPT ![t] = Idle]
  BY <1>1, <1>2, <1>3, QuietStep DEF MissionInv, MissionTypeOK
<1>4. CASE press[t].pc = "check" /\ press' = Goto(press, t, "commit")
  <2>1. PICK to \in MissionStatus : press[t] = [pc |-> "check", to |-> to]
    BY <1>1, <1>4, CallOf
  <2>2. press' = [press EXCEPT ![t] = [pc |-> "commit", to |-> to]]
    BY <1>4, <2>1, GotoKeepsTo
  <2>3. [pc |-> "commit", to |-> to] \in PressCalls
    BY DEF PressCalls
  <2>4. PressIsBacked([pc |-> "commit", to |-> to])
    BY <1>1, <2>1 DEF PressIsBacked
  <2>5. PressIsBacked([pc |-> "commit", to |-> to])'
    BY <1>1, <2>4, BackedStays
  <2>6. QED
    BY <1>1, <2>2, <2>3, <2>5, QuietStep DEF MissionInv, MissionTypeOK
<1>5. QED
  BY <1>3, <1>4 DEF CheckTransition, PressFails, Ends

LEMMA CommitStep ==
  ASSUME MissionInv, NEW t \in Tasks, CommitTransition(t)
  PROVE  MissionInv'
<1>1. /\ MissionTypeOK /\ PressIsBacked(press[t])
      /\ UNCHANGED <<delivery, attempts, screen>> /\ press[t].pc = "commit"
  BY DEF MissionInv, CommitTransition
<1>2. PICK to \in MissionStatus : press[t] = [pc |-> "commit", to |-> to]
  BY <1>1, CallOf
<1>3. orderStatus' = to /\ Backed(to)
  BY <1>1, <1>2 DEF CommitTransition, PressIsBacked
<1>4. PICK call \in {Idle, [pc |-> "pickup", to |-> to]} : press' = [press EXCEPT ![t] = call]
  <2>1. Goto(press, t, "pickup") = [press EXCEPT ![t] = [pc |-> "pickup", to |-> to]]
    BY <1>2, GotoKeepsTo
  <2>2. QED
    BY <2>1 DEF CommitTransition, Ends
<1>5. call \in {Idle} \cup PressCalls /\ call.pc \in {"idle", "pickup"}
  BY DEF PressCalls, Idle
<1>6. PressIsBacked(call)'
  BY <1>5 DEF PressIsBacked
<1>7. QED
  BY <1>1, <1>3, <1>4, <1>5, <1>6, QuietStep DEF MissionInv, MissionTypeOK

LEMMA PickupStep ==
  ASSUME MissionInv, NEW t \in Tasks, StampPickup(t)
  PROVE  MissionInv'
<1>1. MissionTypeOK /\ press' = [press EXCEPT ![t] = Idle] /\ Idle.pc = "idle"
      /\ UNCHANGED <<orderStatus, attempts, screen>>
  BY DEF MissionInv, StampPickup, Ends, Idle
<1>2. /\ delivery' \in [pickedUpAt : BOOLEAN, deliveredAt : BOOLEAN, proof : Proofs \cup {"none"}]
      /\ delivery'.deliveredAt = delivery.deliveredAt /\ delivery'.proof = delivery.proof
  BY <1>1 DEF StampPickup, MissionTypeOK
<1>3. PressIsBacked(Idle)'
  BY <1>1 DEF PressIsBacked
<1>4. QED
  BY <1>1, <1>2, <1>3, QuietStep DEF MissionInv, MissionTypeOK

\* The proof of a success comes after its attempt and before the transition.
LEMMA ProofStep ==
  ASSUME MissionInv, NEW t \in Tasks, StoreProof(t)
  PROVE  MissionInv'
<1>1. /\ MissionTypeOK /\ PressIsBacked(press[t]) /\ press[t].pc = "proof"
      /\ UNCHANGED <<orderStatus, attempts, screen>>
  BY DEF MissionInv, StoreProof
<1>2. press[t].result = "SUCCESS" /\ Recorded("SUCCESS") /\ press[t].to = "DELIVERED"
  BY <1>1, CallOf, OutcomesHaveAStatus DEF PressIsBacked, StatusAsked
<1>3. PICK proof \in Proofs : delivery' = [delivery EXCEPT !.deliveredAt = TRUE, !.proof = proof]
  BY DEF StoreProof
<1>4. /\ delivery' \in [pickedUpAt : BOOLEAN, deliveredAt : BOOLEAN, proof : Proofs \cup {"none"}]
      /\ delivery'.deliveredAt /\ delivery'.proof # "none"
  BY <1>1, <1>3 DEF MissionTypeOK, Proofs
<1>5. [pc |-> "check", to |-> "DELIVERED"] \in PressCalls
      /\ press' = [press EXCEPT ![t] = [pc |-> "check", to |-> "DELIVERED"]]
  BY <1>2 DEF StoreProof, PressCalls, MissionStatus, OrderStatus
<1>6. PressIsBacked([pc |-> "check", to |-> "DELIVERED"])'
  BY <1>1, <1>2, <1>4 DEF PressIsBacked, Backed, Recorded, FAILURE_STATUSES
<1>7. QED
  BY <1>1, <1>4, <1>5, <1>6, QuietStep DEF MissionInv, MissionTypeOK

-----------------------------------------------------------------------------
(* The numbers of the attempts *)

\* Whoever draws a number finds no row that has it.
LEMMA CountStep ==
  ASSUME MissionInv, NEW t \in Tasks, CountAttempts(t)
  PROVE  MissionInv'
<1>1. /\ MissionTypeOK /\ PressIsBacked(press[t]) /\ press[t].pc = "count"
      /\ UNCHANGED <<orderStatus, delivery, attempts, screen>>
  BY DEF MissionInv, CountAttempts
<1>2. PICK n : n = Len(attempts) + 1
  OBVIOUS
<1>3. /\ attempts \in Seq(Attempt) /\ Len(attempts) \in Nat
      /\ n \in 1 .. MaxAttempts + 1
  BY <1>1, <1>2, MissionAssumption, AttemptsAreASequence
<1>4. PICK call : call = [pc |-> "attempt", result |-> press[t].result, to |-> press[t].to,
                          number |-> n]
  OBVIOUS
<1>5. press' = [press EXCEPT ![t] = call] /\ call.pc = "attempt" /\ call.number = n
  BY <1>2, <1>4 DEF CountAttempts, NextNumber
<1>6. call \in PressCalls
  BY <1>1, <1>3, <1>4, CallOf DEF PressCalls
<1>7. Others(t) /\ press'[t] = call /\ press' \in [Tasks -> {Idle} \cup PressCalls]
  BY <1>1, <1>5, <1>6, PressMoves
<1>8. MissionTypeOK'
  BY <1>1, <1>7 DEF MissionTypeOK
<1>9. Backed(orderStatus)' /\ \A u \in Tasks : PressIsBacked(press[u])'
  <2>1. PressIsBacked(call)
    BY <1>1, <1>4 DEF PressIsBacked, StatusAsked
  <2>2. \A u \in Tasks : PressIsBacked(press[u])'
    BY <1>1, <1>7, <2>1 DEF MissionInv, Others, PressIsBacked, StatusAsked, Backed, Recorded
  <2>3. QED
    BY <1>1, <2>2 DEF MissionInv, Backed, Recorded
<1>10. NumbersFollow'
  BY <1>1, <1>2, <1>3, <1>5, <1>7 DEF MissionInv, NumbersFollow, Others
<1>11. ASSUME NEW m \in 1 .. MaxAttempts + 1
       PROVE  Cardinality(Stored(m)') + Cardinality(Drawn(m)') <= Cardinality(Tasks)
  <2>1. PICK stored, drawn : stored = Stored(m)' /\ drawn = Drawn(m)'
    OBVIOUS
  <2>2. stored = Stored(m)
    BY <1>1, <2>1 DEF Stored
  <2>3. /\ IsFiniteSet(Tasks) /\ Cardinality(Tasks) \in Nat
        /\ IsFiniteSet(Drawn(m)) /\ Cardinality(Drawn(m)) \in Nat /\ Cardinality(Stored(m)) \in Nat
        /\ Cardinality(Stored(m)) + Cardinality(Drawn(m)) <= Cardinality(Tasks)
    BY <1>1, CountsAreNatural DEF MissionInv, AttemptsPerRequest, Stored, Drawn
  <2>4. CASE m = n
    <3>1. Stored(m) = {}
      BY <1>2, <1>3, <2>4 DEF MissionInv, NumbersFollow, Stored, Attempt
    <3>2. Cardinality(stored) = 0
      BY <2>2, <3>1, FS_EmptySet
    <3>3. drawn \subseteq Tasks
      BY <2>1 DEF Drawn, At
    <3>4. Cardinality(drawn) \in Nat /\ Cardinality(drawn) <= Cardinality(Tasks)
      BY <2>3, <3>3, FS_Subset, FS_CardinalityType
    <3>5. QED
      BY <2>1, <2>3, <3>2, <3>4
  <2>5. CASE m # n
    <3>1. drawn \subseteq Drawn(m)
      BY <1>5, <1>7, <2>1, <2>5 DEF Drawn, At, Others
    <3>2. Cardinality(drawn) \in Nat /\ Cardinality(drawn) <= Cardinality(Drawn(m))
      BY <2>3, <3>1, FS_Subset, FS_CardinalityType
    <3>3. QED
      BY <2>1, <2>2, <2>3, <3>2
  <2>6. QED
    BY <2>4, <2>5
<1>12. AttemptsPerRequest'
  BY <1>11 DEF AttemptsPerRequest, Stored, Drawn
<1>13. QED
  BY <1>8, <1>9, <1>10, <1>12 DEF MissionInv

\* The number goes over from the request to its row.
LEMMA StoreStep ==
  ASSUME MissionInv, NEW t \in Tasks, StoreAttempt(t)
  PROVE  MissionInv'
<1>1. /\ MissionTypeOK /\ PressIsBacked(press[t]) /\ press[t].pc = "attempt"
      /\ UNCHANGED <<orderStatus, delivery, screen>> /\ Len(attempts) < MaxAttempts
  BY DEF MissionInv, StoreAttempt
<1>2. PICK result, to, n : result = press[t].result /\ to = press[t].to /\ n = press[t].number
  OBVIOUS
<1>3. /\ result \in Results /\ to \in MissionStatus /\ n \in 1 .. MaxAttempts + 1
      /\ to = ATTEMPT_RESULT_TO_ORDER_STATUS[result]
  BY <1>1, <1>2, CallOf DEF PressIsBacked, StatusAsked
<1>4. PICK row \in Attempt : row = [number |-> n, result |-> result]
  BY <1>3 DEF Attempt
<1>5. /\ attempts \in Seq(Attempt) /\ Len(attempts) \in 0 .. MaxAttempts
      /\ attempts' = Append(attempts, row)
  BY <1>1, <1>2, <1>4, AttemptsAreASequence DEF StoreAttempt
<1>6. /\ attempts' \in [1 .. Len(attempts) + 1 -> Attempt]
      /\ Len(attempts') = Len(attempts) + 1 /\ attempts'[Len(attempts) + 1] = row
      /\ \A i \in 1 .. Len(attempts) : attempts'[i] = attempts[i]
  <2>1. PICK before, after : before = attempts /\ after = attempts'
    OBVIOUS
  <2>2. /\ before \in Seq(Attempt) /\ after = Append(before, row)
        /\ Len(before) \in Nat
    BY <1>5, <2>1, MissionAssumption
  <2>3. /\ after \in Seq(Attempt) /\ Len(after) = Len(before) + 1
        /\ after[Len(before) + 1] = row
        /\ \A i \in 1 .. Len(before) : after[i] = before[i]
    BY <2>2
  <2>4. after \in [1 .. Len(before) + 1 -> Attempt]
    BY <2>3
  <2>5. QED
    BY <2>1, <2>3, <2>4
<1>7. PICK call \in {[pc |-> "proof", result |-> result, to |-> to], [pc |-> "check", to |-> to]} :
        /\ press' = [press EXCEPT ![t] = call]
        /\ call.pc = "proof" <=> result = "SUCCESS"
  <2>1. CASE result = "SUCCESS"
    <3>1. press' = [press EXCEPT ![t] = [pc |-> "proof", result |-> result, to |-> to]]
      BY <1>2, <2>1 DEF StoreAttempt, AfterAttempt
    <3>2. QED
      BY <2>1, <3>1
  <2>2. CASE result # "SUCCESS"
    <3>1. press' = [press EXCEPT ![t] = [pc |-> "check", to |-> to]]
      BY <1>2, <2>2 DEF StoreAttempt, AfterAttempt
    <3>2. QED
      BY <2>2, <3>1
  <2>3. QED
    BY <2>1, <2>2
<1>8. call \in PressCalls /\ call.pc # "attempt"
  BY <1>3, <1>7 DEF PressCalls
<1>9. Others(t) /\ press'[t] = call /\ press' \in [Tasks -> {Idle} \cup PressCalls]
  BY <1>1, <1>7, <1>8, PressMoves
<1>10. MissionTypeOK'
  <2>1. attempts' \in UNION {[1 .. k -> Attempt] : k \in 0 .. MaxAttempts}
    BY <1>1, <1>5, <1>6, MissionAssumption
  <2>2. QED
    BY <1>1, <1>9, <2>1 DEF MissionTypeOK
<1>11. Recorded(result)'
  BY <1>4, <1>5, <1>6 DEF Recorded
<1>12. /\ \A status : Backed(status) => Backed(status)'
       /\ \A c : PressIsBacked(c) => PressIsBacked(c)'
  BY <1>1, <1>5, BackedStays
<1>13. PressIsBacked(call)'
  <2>1. CASE result = "SUCCESS"
    BY <1>3, <1>7, <1>11, <2>1 DEF PressIsBacked, StatusAsked
  <2>2. CASE result # "SUCCESS"
    <3>1. call = [pc |-> "check", to |-> to]
      BY <1>7, <2>2
    <3>2. Backed(to)'
      BY <1>3, <1>11, <2>2, OutcomesHaveAStatus DEF Backed
    <3>3. QED
      BY <3>1, <3>2 DEF PressIsBacked, Backed
  <2>3. QED
    BY <2>1, <2>2
<1>14. ASSUME NEW u \in Tasks PROVE PressIsBacked(press[u])'
  <2>1. PICK c : c = press'[u]
    OBVIOUS
  <2>2. PressIsBacked(c)'
    BY <1>9, <1>12, <1>13, <2>1 DEF Others, MissionInv
  <2>3. QED
    BY <2>1, <2>2 DEF PressIsBacked, StatusAsked
<1>15. Backed(orderStatus)'
  <2>1. PICK status : status = orderStatus
    OBVIOUS
  <2>2. Backed(status)'
    BY <1>12, <2>1 DEF MissionInv
  <2>3. QED
    BY <1>1, <2>1, <2>2 DEF Backed
<1>16. NumbersFollow'
  <2>1. n <= Len(attempts) + 1
    BY <1>1, <1>2 DEF MissionInv, NumbersFollow
  <2>2. \A i \in DOMAIN attempts' : attempts'[i].number <= i
    BY <1>4, <1>5, <1>6, <2>1 DEF MissionInv, NumbersFollow
  <2>3. \A u \in Tasks : press'[u].pc = "attempt" => press'[u].number <= Len(attempts') + 1
    <3>1. ASSUME NEW u \in Tasks, press'[u].pc = "attempt"
          PROVE  press'[u].number <= Len(attempts') + 1
      <4>1. u # t /\ press'[u] = press[u]
        BY <1>8, <1>9, <3>1 DEF Others
      <4>2. press[u].number <= Len(attempts) + 1 /\ press[u].number \in 1 .. MaxAttempts + 1
        BY <1>1, <3>1, <4>1, CallOf DEF MissionInv, NumbersFollow
      <4>3. QED
        BY <1>5, <1>6, <4>1, <4>2, MissionAssumption
    <3>2. QED
      BY <3>1
  <2>4. QED
    BY <2>2, <2>3 DEF NumbersFollow
<1>17. ASSUME NEW m \in 1 .. MaxAttempts + 1
       PROVE  Cardinality(Stored(m)') + Cardinality(Drawn(m)') <= Cardinality(Tasks)
  <2>1. PICK stored, drawn : stored = Stored(m)' /\ drawn = Drawn(m)'
    OBVIOUS
  <2>2. /\ IsFiniteSet(Drawn(m)) /\ Cardinality(Drawn(m)) \in Nat
        /\ IsFiniteSet(Stored(m)) /\ Cardinality(Stored(m)) \in Nat
        /\ Cardinality(Tasks) \in Nat
        /\ Cardinality(Stored(m)) + Cardinality(Drawn(m)) <= Cardinality(Tasks)
    BY <1>1, CountsAreNatural DEF MissionInv, AttemptsPerRequest, Stored, Drawn
  <2>3. drawn = Drawn(m) \ {t}
    BY <1>8, <1>9, <2>1 DEF Drawn, At, Others
  <2>4. CASE m = n
    <3>1. t \in Drawn(m)
      BY <1>1, <1>2, <2>4 DEF Drawn, At
    <3>2. Cardinality(drawn) = Cardinality(Drawn(m)) - 1
      BY <2>2, <2>3, <3>1, FS_RemoveElement, Zenon
    <3>3. stored \subseteq Stored(m) \cup {Len(attempts) + 1}
      BY <1>5, <1>6, <2>1 DEF Stored
    <3>4. /\ IsFiniteSet(Stored(m) \cup {Len(attempts) + 1})
          /\ \/ Cardinality(Stored(m) \cup {Len(attempts) + 1}) = Cardinality(Stored(m))
             \/ Cardinality(Stored(m) \cup {Len(attempts) + 1}) = Cardinality(Stored(m)) + 1
      BY <2>2, FS_AddElement, Zenon
    <3>5. /\ Cardinality(stored) \in Nat
          /\ Cardinality(stored) <= Cardinality(Stored(m) \cup {Len(attempts) + 1})
      BY <3>3, <3>4, FS_Subset, FS_CardinalityType
    <3>6. QED
      BY <2>1, <2>2, <3>2, <3>4, <3>5
  <2>5. CASE m # n
    <3>1. stored = Stored(m)
      BY <1>4, <1>5, <1>6, <2>1, <2>5 DEF Stored
    <3>2. drawn \subseteq Drawn(m)
      BY <2>3
    <3>3. Cardinality(drawn) \in Nat /\ Cardinality(drawn) <= Cardinality(Drawn(m))
      BY <2>2, <3>2, FS_Subset, FS_CardinalityType
    <3>4. QED
      BY <2>1, <2>2, <3>1, <3>3
  <2>6. QED
    BY <2>4, <2>5
<1>18. AttemptsPerRequest'
  BY <1>17 DEF AttemptsPerRequest, Stored, Drawn
<1>19. QED
  BY <1>10, <1>14, <1>15, <1>16, <1>18 DEF MissionInv

-----------------------------------------------------------------------------
(* The theorems *)

LEMMA NextKeepsMissions == ASSUME MissionInv, [MissionNext]_missionVars PROVE MissionInv'
<1>1. CASE RefreshScreen \/ UNCHANGED missionVars
  BY <1>1 DEF RefreshScreen, missionVars, MissionInv, MissionTypeOK, Backed, PressIsBacked,
              StatusAsked, NumbersFollow, AttemptsPerRequest, Recorded, At
<1>2. ASSUME NEW t \in Tasks,
             \/ \E to \in MissionStatus : PressStatus(t, to)
             \/ \E result \in Outcomes : PressResult(t, result)
             \/ PressCancel(t)
      PROVE  MissionInv'
  BY <1>2, AskStep
<1>3. ASSUME NEW t \in Tasks, CountAttempts(t) PROVE MissionInv'
  BY <1>3, CountStep
<1>4. ASSUME NEW t \in Tasks, StoreAttempt(t) PROVE MissionInv'
  BY <1>4, StoreStep
<1>5. ASSUME NEW t \in Tasks, StoreProof(t) PROVE MissionInv'
  BY <1>5, ProofStep
<1>6. ASSUME NEW t \in Tasks, CheckTransition(t) \/ PressFails(t) PROVE MissionInv'
  BY <1>6, CheckStep
<1>7. ASSUME NEW t \in Tasks, CommitTransition(t) PROVE MissionInv'
  BY <1>7, CommitStep
<1>8. ASSUME NEW t \in Tasks, StampPickup(t) PROVE MissionInv'
  BY <1>8, PickupStep
<1>9. QED
  BY <1>1, <1>2, <1>3, <1>4, <1>5, <1>6, <1>7, <1>8 DEF MissionNext

LEMMA Invariance == MissionSpec => []MissionInv
<1>1. MissionInit => MissionInv
  BY InitIsGood
<1>2. MissionInv /\ [MissionNext]_missionVars => MissionInv'
  BY NextKeepsMissions
<1>3. QED
  BY <1>1, <1>2, PTL DEF MissionSpec

(***************************************************************************)
(* The variables of Missions keep their types: the order never leaves the  *)
(* statuses of a mission (MissionActions.tsx asks for no other).           *)
(***************************************************************************)
THEOREM TypeCorrect == MissionSpec => []MissionTypeOK
<1>1. MissionInv => MissionTypeOK
  BY DEF MissionInv
<1>2. QED
  BY <1>1, Invariance, PTL

(***************************************************************************)
(* For any number of requests, whichever buttons race and whatever dies:   *)
(* a delivered order has a successful attempt and its proof, a failed one  *)
(* the attempt that failed (recordDeliveryAttempt, deliveries.service.ts:  *)
(* 154-235).                                                               *)
(***************************************************************************)
THEOREM OutcomesAreRecorded == MissionSpec => []OutcomeHasAttempt
<1>1. MissionInv => OutcomeHasAttempt
  BY DEF MissionInv, OutcomeHasAttempt, Backed
<1>2. QED
  BY <1>1, Invariance, PTL

(***************************************************************************)
(* A number, which is a count plus one (deliveries.service.ts:170), is on  *)
(* no more attempts than requests run at once.                             *)
(***************************************************************************)
THEOREM AttemptNumbers == MissionSpec => []AttemptsPerRequest
<1>1. MissionInv => AttemptsPerRequest
  BY DEF MissionInv
<1>2. QED
  BY <1>1, Invariance, PTL

(***************************************************************************)
(* Whatever happened to the order, a driver's screen drawn afresh has a    *)
(* button the state machine accepts (MissionActions.tsx against            *)
(* ORDER_TRANSITIONS).                                                     *)
(***************************************************************************)
THEOREM ScreensLeadOn == MissionSpec => []ScreenLeadsOn
<1>1. MissionTypeOK => ScreenLeadsOn
  BY ScreenOffersAWay
<1>2. QED
  BY <1>1, TypeCorrect, PTL
=============================================================================
