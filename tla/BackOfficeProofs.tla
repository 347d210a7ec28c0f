-------------------------- MODULE BackOfficeProofs --------------------------
(***************************************************************************)
(* Theorems about the back office, for any number of requests racing or    *)
(* dying at any await.  Its services share Tasks and nothing else, so a    *)
(* behaviour of it is one of each of them (ServicesAreThere), and what is  *)
(* proved below of the specification of one holds in the composition.      *)
(* First what holds of a single table whatever races; then what only a     *)
(* request that has been overtaken breaks (OvertakingAloneBreaks), what is *)
(* written once per request (OneRowPerRequest), and the screens and pages  *)
(* in front of the services (ButtonsDoWhatTheyShow, SomebodyCanLeadOn,     *)
(* RedirectsEnd).                                                          *)
(***************************************************************************)
EXTENDS BackOffice, MissionsProofs,
        FiniteSetTheorems, WellFoundedInduction, TLAPS

-----------------------------------------------------------------------------
(* Settlements: what a settlement that reads PAID holds is confirmed *)

ClerkTypeOK ==
  /\ confirmedOrders \subseteq SettlableOrders
  /\ settlements \in Seq(SettlementStatus)
  /\ payouts \subseteq Payouts
  /\ clerk \in [Tasks -> {Idle} \cup ClerkCalls]

SettlementInv ==
  /\ ClerkTypeOK
  /\ \A t \in Tasks : clerk[t].pc \in {"check", "write"} => clerk[t].settlement \in DOMAIN settlements
  /\ PaidIsConfirmed

LEMMA CreateKeeps ==
  ASSUME SettlementInv, NEW t \in Tasks, CreateSettlement(t)
  PROVE  SettlementInv'
<1>1. /\ settlements \in Seq(SettlementStatus) /\ Len(settlements) \in Nat
      /\ DOMAIN settlements = 1 .. Len(settlements)
  BY DEF SettlementInv, ClerkTypeOK
<1>2. PICK n : n = Len(settlements')
  OBVIOUS
<1>3. /\ settlements' \in Seq(SettlementStatus) /\ n = Len(settlements) + 1
      /\ DOMAIN settlements' = 1 .. n /\ settlements'[n] = "DRAFT"
      /\ \A s \in DOMAIN settlements : settlements'[s] = settlements[s]
  BY <1>1, <1>2 DEF CreateSettlement, SettlementStatus
<1>4. clerk[t] \in [pc : {"settle"}, orders : SUBSET SettlableOrders]
  BY DEF CreateSettlement, SettlementInv, ClerkTypeOK, ClerkCalls, Idle
<1>5. PICK orders \in SUBSET SettlableOrders : orders = clerk[t].orders
  BY <1>4
<1>6. payouts' = payouts \cup {[order |-> o, settlement |-> n, status |-> "PENDING"] : o \in orders}
  BY <1>2, <1>5 DEF CreateSettlement
<1>7. payouts' \subseteq Payouts
  BY <1>1, <1>3, <1>5, <1>6 DEF Payouts, SettlementInv, ClerkTypeOK
<1>8. clerk' = [clerk EXCEPT ![t] = Idle]
  BY DEF CreateSettlement, Ends
<1>9. ASSUME NEW row \in payouts'
      PROVE  /\ row.settlement \in DOMAIN settlements'
             /\ settlements'[row.settlement] = "PAID" => row.status = "CONFIRMED"
  <2>1. CASE row \in payouts
    BY <1>1, <1>3, <2>1 DEF SettlementInv, PaidIsConfirmed
  <2>2. CASE row \notin payouts
    <3>1. row.settlement = n
      BY <1>6, <2>2
    <3>2. QED
      BY <1>1, <1>3, <3>1
  <2>3. QED
    BY <2>1, <2>2
<1>10. \A u \in Tasks : clerk'[u].pc \in {"check", "write"} => clerk'[u].settlement \in DOMAIN settlements'
  BY <1>1, <1>3, <1>8 DEF SettlementInv, ClerkTypeOK, Idle
<1>11. QED
  BY <1>3, <1>7, <1>8, <1>9, <1>10
  DEF CreateSettlement, SettlementInv, ClerkTypeOK, PaidIsConfirmed

LEMMA PayKeeps ==
  ASSUME SettlementInv, NEW t \in Tasks, WriteSettlement(t)
  PROVE  SettlementInv'
<1>1. clerk[t] \in [pc : {"check", "write"}, settlement : Nat, to : SettlementStatus]
  BY DEF WriteSettlement, SettlementInv, ClerkTypeOK, ClerkCalls, Idle
<1>2. PICK s \in DOMAIN settlements, to \in SettlementStatus :
        s = clerk[t].settlement /\ to = clerk[t].to
  BY <1>1 DEF SettlementInv, WriteSettlement
<1>3. /\ settlements' = [settlements EXCEPT ![s] = to]
      /\ payouts' = RowsAfter(s, to) /\ clerk' = [clerk EXCEPT ![t] = Idle]
  BY <1>2 DEF WriteSettlement, Ends
<1>4. /\ settlements' \in Seq(SettlementStatus) /\ DOMAIN settlements' = DOMAIN settlements
      /\ settlements'[s] = to /\ \A u \in DOMAIN settlements \ {s} : settlements'[u] = settlements[u]
  BY <1>2, <1>3 DEF SettlementInv, ClerkTypeOK
<1>5. ASSUME NEW row \in payouts'
      PROVE  /\ row \in Payouts /\ row.settlement \in DOMAIN settlements
             /\ settlements'[row.settlement] = "PAID" => row.status = "CONFIRMED"
  <2>1. CASE to = "PAID"
    <3>1. PICK old \in payouts : row = IF old.settlement = s THEN Confirmed(old) ELSE old
      BY <1>3, <2>1 DEF RowsAfter
    <3>2. /\ old \in Payouts /\ old.settlement \in DOMAIN settlements
          /\ settlements[old.settlement] = "PAID" => old.status = "CONFIRMED"
      BY DEF SettlementInv, ClerkTypeOK, PaidIsConfirmed
    <3>3. CASE old.settlement = s
      BY <3>1, <3>2, <3>3 DEF Confirmed, Payouts
    <3>4. CASE old.settlement # s
      BY <1>4, <3>1, <3>2, <3>4
    <3>5. QED
      BY <3>3, <3>4
  <2>2. CASE to # "PAID"
    <3>1. row \in payouts
      BY <1>3, <2>2 DEF RowsAfter
    <3>2. QED
      BY <1>4, <2>2, <3>1 DEF SettlementInv, ClerkTypeOK, PaidIsConfirmed
  <2>3. QED
    BY <2>1, <2>2
<1>6. /\ clerk' \in [Tasks -> {Idle} \cup ClerkCalls]
      /\ \A u \in Tasks : clerk'[u].pc \in {"check", "write"} => clerk'[u].settlement \in DOMAIN settlements'
  BY <1>3, <1>4 DEF SettlementInv, ClerkTypeOK, Idle
<1>7. QED
  BY <1>4, <1>5, <1>6 DEF WriteSettlement, SettlementInv, ClerkTypeOK, PaidIsConfirmed

\* Steps that only move requests.
LEMMA ClerkMovesKeep ==
  ASSUME SettlementInv, UNCHANGED <<confirmedOrders, settlements, payouts>>, NEW t \in Tasks,
         NEW call \in {Idle} \cup ClerkCalls, clerk' = [clerk EXCEPT ![t] = call],
         call.pc \in {"check", "write"} => call.settlement \in DOMAIN settlements
  PROVE  SettlementInv'
BY DEF SettlementInv, ClerkTypeOK, PaidIsConfirmed

LEMMA SettlementInvariant == SettlementSpec => []SettlementInv
<1>1. SettlementInit => SettlementInv
  BY DEF SettlementInit, SettlementInv, ClerkTypeOK, PaidIsConfirmed, Idle
<1>2. ASSUME SettlementInv, [SettlementNext]_settlementVars PROVE SettlementInv'
  <2>1. CASE UNCHANGED settlementVars
    BY <1>2, <2>1 DEF SettlementInv, ClerkTypeOK, PaidIsConfirmed, settlementVars
  <2>2. ASSUME NEW o \in SettlableOrders, ConfirmOrder(o) PROVE SettlementInv'
    BY <1>2, <2>2 DEF SettlementInv, ClerkTypeOK, PaidIsConfirmed, ConfirmOrder
  <2>3. ASSUME NEW t \in Tasks, ReadSettlable(t) PROVE SettlementInv'
    <3>1. Settlable \subseteq SettlableOrders
      BY <1>2 DEF Settlable, SettlementInv, ClerkTypeOK
    <3>2. PICK call \in ClerkCalls : call.pc = "settle" /\ clerk' = [clerk EXCEPT ![t] = call]
      BY <2>3, <3>1 DEF ReadSettlable, ClerkCalls
    <3>3. QED
      BY <1>2, <2>3, <3>2, ClerkMovesKeep DEF ReadSettlable
  <2>4. ASSUME NEW t \in Tasks, CreateSettlement(t) PROVE SettlementInv'
    BY <1>2, <2>4, CreateKeeps
  <2>5. ASSUME NEW t \in Tasks, NEW s \in DOMAIN settlements, PressSettlementButton(t, s)
        PROVE  SettlementInv'
    <3>1. s \in Nat
      BY <1>2 DEF SettlementInv, ClerkTypeOK
    <3>2. PICK to \in SettlementStatus :
            clerk' = [clerk EXCEPT ![t] = [pc |-> "check", settlement |-> s, to |-> to]]
      <4>1. \A shown \in SettlementStatus : SettlementButtons[shown] \subseteq SettlementStatus
        BY DEF SettlementButtons, SettlementStatus
      <4>2. QED
        BY <2>5, <4>1 DEF PressSettlementButton
    <3>3. PICK call \in ClerkCalls : call = [pc |-> "check", settlement |-> s, to |-> to]
      BY <3>1 DEF ClerkCalls
    <3>4. QED
      BY <1>2, <2>5, <3>2, <3>3, ClerkMovesKeep DEF PressSettlementButton
  <2>6. ASSUME NEW t \in Tasks, AssertSettlementTransition(t) PROVE SettlementInv'
    <3>1. /\ clerk[t] \in [pc : {"check", "write"}, settlement : Nat, to : SettlementStatus]
          /\ clerk[t].settlement \in DOMAIN settlements
      BY <1>2, <2>6 DEF AssertSettlementTransition, SettlementInv, ClerkTypeOK, ClerkCalls, Idle
    <3>2. clerk' = Goto(clerk, t, "write") \/ clerk' = Ends(clerk, t)
      BY <2>6 DEF AssertSettlementTransition
    <3>3. PICK call \in ClerkCalls :
            call = [pc |-> "write", settlement |-> clerk[t].settlement, to |-> clerk[t].to]
      BY <3>1 DEF ClerkCalls
    <3>4. CASE clerk' = Goto(clerk, t, "write")
      <4>1. clerk' = [clerk EXCEPT ![t] = call]
        <5>1. PICK before : before = clerk[t]
          OBVIOUS
        <5>2. [before EXCEPT !.pc = "write"] = call
          BY <3>1, <3>3, <5>1
        <5>3. QED
          BY <1>2, <3>4, <5>1, <5>2 DEF Goto, SettlementInv, ClerkTypeOK
      <4>2. QED
        BY <1>2, <2>6, <3>1, <3>3, <4>1, ClerkMovesKeep DEF AssertSettlementTransition
    <3>5. CASE clerk' = Ends(clerk, t)
      BY <1>2, <2>6, <3>5, ClerkMovesKeep DEF AssertSettlementTransition, Ends, Idle
    <3>6. QED
      BY <3>2, <3>4, <3>5
  <2>7. ASSUME NEW t \in Tasks, WriteSettlement(t) PROVE SettlementInv'
    BY <1>2, <2>7, PayKeeps
  <2>8. ASSUME NEW t \in Tasks, ClerkFails(t) PROVE SettlementInv'
    BY <1>2, <2>8, ClerkMovesKeep DEF ClerkFails, Ends, Idle
  <2>9. QED
    BY <1>2, <2>1, <2>2, <2>3, <2>4, <2>5, <2>6, <2>7, <2>8 DEF SettlementNext
<1>3. QED
  BY <1>1, <1>2, PTL DEF SettlementSpec

(***************************************************************************)
(* Whatever submits, disputes, payments and broken-off requests race, the  *)
(* payouts of a settlement that reads PAID are confirmed, and none lacks a *)
(* settlement: the rows are created and confirmed in the transactions that *)
(* write the settlement (settlements.service.ts).                          *)
(***************************************************************************)
THEOREM PayoutsConfirmed == SettlementSpec => []PaidIsConfirmed
<1>1. SettlementInv => PaidIsConfirmed
  BY DEF SettlementInv
<1>2. QED
  BY <1>1, SettlementInvariant, PTL

-----------------------------------------------------------------------------
(* Webhooks: what is on record is true of the endpoint *)

\* What a delivery carries on its way to a row.
Sending(call) ==
  /\ call.event \in raised
  /\ call.pc = "send" => call.attempts < MAX_ATTEMPTS
  /\ call.pc = "record" =>
       /\ call.attempts \in 1 .. MAX_ATTEMPTS
       /\ IF call.ok THEN call.event \in inbox ELSE call.attempts = MAX_ATTEMPTS

WebhookInv ==
  /\ supplier \in Supplier /\ generated \in 0 .. MaxGenerated
  /\ rows \in Seq(Row)
  /\ courier \in [Tasks -> {Idle} \cup CourierCalls]
  /\ \A t \in Tasks : courier[t].pc \in {"send", "record"} => Sending(courier[t])
  /\ \A i \in DOMAIN rows : rows[i].event \in raised
  /\ RowsTellDelivery

LEMMA SuppliersAndCalls ==
  /\ \A url \in BOOLEAN, secret \in 0 .. MaxGenerated : [url |-> url, secret |-> secret] \in Supplier
  /\ \A pc \in {"send", "record"}, e \in Events, n \in 0 .. MAX_ATTEMPTS, ok \in BOOLEAN :
       [pc |-> pc, event |-> e, attempts |-> n, ok |-> ok] \in CourierCalls
  /\ TRUE \in BOOLEAN /\ FALSE \in BOOLEAN
BY Zenon DEF Supplier, CourierCalls

\* Steps that only move requests, and raise or deliver what they carry.
LEMMA CourierMovesKeep ==
  ASSUME WebhookInv, UNCHANGED <<supplier, generated, rows>>, raised \subseteq raised', inbox \subseteq inbox',
         inbox' \subseteq raised', NEW t \in Tasks,
         NEW call \in {Idle} \cup CourierCalls, courier' = [courier EXCEPT ![t] = call],
         call.pc \in {"send", "record"} => Sending(call)'
  PROVE  WebhookInv'
<1>1. \A c : Sending(c) => Sending(c)'
  BY DEF Sending
<1>2. /\ courier' \in [Tasks -> {Idle} \cup CourierCalls] /\ courier'[t] = call
      /\ \A u \in Tasks \ {t} : courier'[u] = courier[u]
  BY DEF WebhookInv
<1>3. ASSUME NEW u \in Tasks, courier'[u].pc \in {"send", "record"} PROVE Sending(courier[u])'
  <2>1. PICK c : c = courier'[u]
    OBVIOUS
  <2>2. Sending(c)'
    <3>1. CASE u = t
      BY <1>2, <1>3, <2>1, <3>1
    <3>2. CASE u # t
      <4>1. Sending(c)
        BY <1>2, <1>3, <2>1, <3>2 DEF WebhookInv
      <4>2. QED
        BY <1>1, <4>1
    <3>3. QED
      BY <3>1, <3>2
  <2>3. QED
    BY <2>1, <2>2 DEF Sending
<1>4. \A u \in Tasks : courier'[u].pc \in {"send", "record"} => Sending(courier[u])'
  BY <1>3
<1>5. RowsTellDelivery' /\ \A i \in DOMAIN rows' : rows'[i].event \in raised'
  BY DEF WebhookInv, RowsTellDelivery
<1>6. QED
  BY <1>2, <1>4, <1>5 DEF WebhookInv

\* Requests that set the url change nothing a delivery depends on.
LEMMA SettingKeeps ==
  ASSUME WebhookInv, UNCHANGED <<supplier, generated, rows, raised, inbox>>, NEW t \in Tasks,
         NEW call \in {Idle} \cup CourierCalls, call.pc \notin {"send", "record"},
         courier' = [courier EXCEPT ![t] = call]
  PROVE  WebhookInv'
BY CourierMovesKeep DEF WebhookInv, RowsTellDelivery

LEMMA StoreKeeps ==
  ASSUME WebhookInv, NEW t \in Tasks, StoreWebhook(t)
  PROVE  WebhookInv'
<1>1. /\ courier[t] \in [pc : {"store"}, read : Supplier]
      /\ courier' = [courier EXCEPT ![t] = Idle] /\ UNCHANGED <<rows, raised, inbox>>
  BY DEF StoreWebhook, WebhookInv, CourierCalls, Idle, Ends
<1>2. PICK secret \in 0 .. MaxGenerated :
        /\ supplier' = [url |-> TRUE, secret |-> secret]
        /\ generated' = IF secret > generated THEN secret ELSE generated
  <2>1. courier[t].read.secret \in 0 .. MaxGenerated /\ generated + 1 \in Nat
    BY <1>1, WebhookAssumption DEF Supplier, WebhookInv
  <2>2. PICK secret : secret = IF NeedsSecret(courier[t].read) THEN generated + 1
                              ELSE courier[t].read.secret
    OBVIOUS
  <2>3. /\ secret <= MaxGenerated
        /\ supplier' = [url |-> TRUE, secret |-> secret]
        /\ generated' = IF secret > generated THEN secret ELSE generated
    BY <2>2, Zenon DEF StoreWebhook
  <2>4. secret \in 0 .. MaxGenerated
    BY <2>1, <2>2, <2>3, WebhookAssumption
  <2>5. QED
    BY <2>3, <2>4
<1>3. supplier' \in Supplier /\ generated' \in 0 .. MaxGenerated
  <2>1. generated' \in 0 .. MaxGenerated
    BY <1>2, WebhookAssumption DEF WebhookInv
  <2>2. QED
    BY <1>2, <2>1, SuppliersAndCalls, Zenon
<1>4. QED
  BY <1>1, <1>3 DEF WebhookInv, RowsTellDelivery, Sending, Idle

LEMMA SendKeeps ==
  ASSUME WebhookInv, UNCHANGED <<supplier, generated, rows, inbox>>, raised \subseteq raised', NEW t \in Tasks,
         NEW e \in Events \cap raised', Sends(t, e)
  PROVE  WebhookInv'
<1>1. PICK call \in CourierCalls : call = [pc |-> "send", event |-> e, attempts |-> 0, ok |-> FALSE]
  <2>1. 0 \in 0 .. MAX_ATTEMPTS
    BY WebhookAssumption
  <2>2. QED
    BY <2>1, SuppliersAndCalls, Zenon
<1>2. Sending(call)'
  BY <1>1, WebhookAssumption DEF Sending
<1>3. inbox' \subseteq raised'
  BY DEF WebhookInv, RowsTellDelivery
<1>4. QED
  BY <1>1, <1>2, <1>3, CourierMovesKeep DEF Sends

\* The last attempt is the one that has the number MAX_ATTEMPTS.
LEMMA AttemptKeeps ==
  ASSUME WebhookInv, NEW t \in Tasks, AttemptDelivery(t)
  PROVE  WebhookInv'
<1>1. /\ courier[t] \in [pc : {"send", "record"}, event : Events,
                         attempts : 0 .. MAX_ATTEMPTS, ok : BOOLEAN]
      /\ courier[t].pc = "send" /\ Sending(courier[t])
  BY DEF AttemptDelivery, WebhookInv, CourierCalls, Idle
<1>2. PICK event \in Events, n \in 1 .. MAX_ATTEMPTS :
        event = courier[t].event /\ n = courier[t].attempts + 1 /\ event \in raised
  BY <1>1, WebhookAssumption DEF Sending
<1>3. PICK got \in BOOLEAN, ok \in BOOLEAN :
        /\ ok => got
        /\ inbox' = IF got THEN inbox \cup {event} ELSE inbox
        /\ courier' = [courier EXCEPT ![t] =
             [pc |-> IF ok \/ LastAttempt(n) THEN "record" ELSE "send",
              event |-> event, attempts |-> n, ok |-> ok]]
  BY <1>2 DEF AttemptDelivery
<1>4. PICK pc \in {"send", "record"} :
        /\ pc = IF ok \/ LastAttempt(n) THEN "record" ELSE "send"
        /\ pc = "record" <=> ok \/ n = MAX_ATTEMPTS
  BY DEF LastAttempt
<1>5. PICK call \in CourierCalls : call = [pc |-> pc, event |-> event, attempts |-> n, ok |-> ok]
  <2>1. n \in 0 .. MAX_ATTEMPTS
    BY <1>2, WebhookAssumption
  <2>2. QED
    BY <1>2, <1>3, <1>4, <2>1, SuppliersAndCalls, Zenon
<1>6. courier' = [courier EXCEPT ![t] = call]
  BY <1>3, <1>4, <1>5
<1>7. inbox \subseteq inbox' /\ inbox' \subseteq raised' /\ UNCHANGED <<supplier, generated, rows, raised>>
  BY <1>2, <1>3 DEF AttemptDelivery, WebhookInv, RowsTellDelivery
<1>8. Sending(call)'
  BY <1>2, <1>3, <1>4, <1>5, <1>7, WebhookAssumption DEF Sending
<1>9. QED
  BY <1>5, <1>6, <1>7, <1>8, CourierMovesKeep

LEMMA RecordKeeps ==
  ASSUME WebhookInv, NEW t \in Tasks, RecordDelivery(t)
  PROVE  WebhookInv'
<1>1. /\ courier[t] \in [pc : {"send", "record"}, event : Events,
                         attempts : 0 .. MAX_ATTEMPTS, ok : BOOLEAN]
      /\ courier[t].pc = "record" /\ Sending(courier[t])
  BY DEF RecordDelivery, WebhookInv, CourierCalls, Idle
<1>2. PICK row \in Row :
        row = [event |-> courier[t].event, success |-> courier[t].ok, attempts |-> courier[t].attempts]
  BY <1>1 DEF Row, Sending
<1>3. /\ row.event \in raised
      /\ IF row.success THEN row.event \in inbox ELSE row.attempts = MAX_ATTEMPTS
  BY <1>1, <1>2 DEF Sending
<1>4. PICK before, after : before = rows /\ after = rows'
  OBVIOUS
<1>5. before \in Seq(Row) /\ after = Append(before, row)
  BY <1>2, <1>4 DEF RecordDelivery, WebhookInv
<1>6. /\ after \in Seq(Row)
      /\ \A i \in DOMAIN after : (i \in DOMAIN before /\ after[i] = before[i]) \/ after[i] = row
  BY <1>5
<1>7. \A i \in DOMAIN after :
        /\ after[i].event \in raised
        /\ IF after[i].success THEN after[i].event \in inbox ELSE after[i].attempts = MAX_ATTEMPTS
  BY <1>3, <1>4, <1>6 DEF WebhookInv, RowsTellDelivery
<1>8. UNCHANGED <<supplier, generated, raised, inbox>> /\ courier' = [courier EXCEPT ![t] = Idle]
  BY DEF RecordDelivery, Ends
<1>9. /\ courier' \in [Tasks -> {Idle} \cup CourierCalls]
      /\ \A u \in Tasks : courier'[u] = IF u = t THEN Idle ELSE courier[u]
  BY <1>8 DEF WebhookInv
<1>10. ASSUME NEW u \in Tasks, courier'[u].pc \in {"send", "record"} PROVE Sending(courier[u])'
  <2>1. courier'[u] = courier[u]
    BY <1>9, <1>10 DEF Idle
  <2>2. QED
    BY <1>8, <1>10, <2>1 DEF WebhookInv, Sending
<1>11. QED
  BY <1>4, <1>6, <1>7, <1>8, <1>9, <1>10 DEF WebhookInv, RowsTellDelivery

LEMMA WebhookInvariant == WebhookSpec => []WebhookInv
<1>1. WebhookInit => WebhookInv
  <2>1. WebhookInit => supplier \in Supplier /\ generated \in 0 .. MaxGenerated
    <3>1. 0 \in 0 .. MaxGenerated
      BY WebhookAssumption
    <3>2. QED
      BY <3>1, SuppliersAndCalls, Zenon DEF WebhookInit
  <2>2. QED
    BY <2>1 DEF WebhookInit, WebhookInv, RowsTellDelivery, Idle
<1>2. ASSUME WebhookInv, [WebhookNext]_webhookVars PROVE WebhookInv'
  <2>1. CASE UNCHANGED webhookVars
    BY <1>2, <2>1 DEF WebhookInv, RowsTellDelivery, webhookVars, Sending
  <2>2. CASE DisableWebhook
    <3>1. supplier.secret \in 0 .. MaxGenerated
      BY <1>2 DEF WebhookInv, Supplier
    <3>2. supplier' = [url |-> FALSE, secret |-> supplier.secret]
      BY <2>2 DEF DisableWebhook
    <3>3. supplier' \in Supplier
      BY <3>1, <3>2, SuppliersAndCalls, Zenon
    <3>4. QED
      BY <1>2, <2>2, <3>3 DEF WebhookInv, RowsTellDelivery, DisableWebhook, Sending
  <2>3. ASSUME NEW t \in Tasks, CourierFails(t) PROVE WebhookInv'
    BY <1>2, <2>3, SettingKeeps DEF CourierFails, Ends, Idle
  <2>10. ASSUME NEW t \in Tasks, StoreWebhook(t) PROVE WebhookInv'
    BY <1>2, <2>10, StoreKeeps
  <2>4. ASSUME NEW t \in Tasks, BeginSetWebhook(t) PROVE WebhookInv'
    <3>1. PICK call \in CourierCalls : call = [pc |-> "store", read |-> supplier]
      BY <1>2 DEF CourierCalls, WebhookInv
    <3>2. QED
      BY <1>2, <2>4, <3>1, SettingKeeps DEF BeginSetWebhook
  <2>5. ASSUME NEW t \in Tasks, NEW e \in Events, RaiseEvent(t, e) PROVE WebhookInv'
    <3>1. UNCHANGED <<supplier, generated, rows, inbox>> /\ raised' = raised \cup {e}
      BY <2>5 DEF RaiseEvent
    <3>2. CASE Sends(t, e)
      BY <1>2, <3>1, <3>2, SendKeeps
    <3>3. CASE UNCHANGED courier
      BY <1>2, <3>1, <3>3 DEF WebhookInv, RowsTellDelivery, Sending
    <3>4. QED
      BY <2>5, <3>2, <3>3 DEF RaiseEvent
  <2>6. ASSUME NEW t \in Tasks, NEW i \in DOMAIN rows, RetryDelivery(t, i) PROVE WebhookInv'
    <3>1. PICK e \in Events \cap raised : e = rows[i].event
      <4>1. rows[i] \in Row /\ rows[i].event \in raised
        BY <1>2 DEF WebhookInv
      <4>2. QED
        BY <4>1 DEF Row
    <3>2. Sends(t, e) /\ UNCHANGED <<supplier, generated, rows, inbox, raised>>
      BY <2>6, <3>1 DEF RetryDelivery, Sends
    <3>3. QED
      BY <1>2, <3>2, SendKeeps
  <2>7. ASSUME NEW t \in Tasks, AttemptDelivery(t) PROVE WebhookInv'
    BY <1>2, <2>7, AttemptKeeps
  <2>8. ASSUME NEW t \in Tasks, RecordDelivery(t) PROVE WebhookInv'
    BY <1>2, <2>8, RecordKeeps
  <2>9. QED
    BY <1>2, <2>1, <2>2, <2>3, <2>4, <2>5, <2>6, <2>7, <2>8, <2>10 DEF WebhookNext
<1>3. QED
  BY <1>1, <1>2, PTL DEF WebhookSpec

(***************************************************************************)
(* However webhooks are set, deliveries retried and requests broken off, a *)
(* delivery on record is true of the endpoint: a success reached it, and a *)
(* failure was tried MAX_ATTEMPTS times (deliverAndRecord,                 *)
(* webhooks.service.ts).                                                   *)
(***************************************************************************)
THEOREM RecordsAreTrue == WebhookSpec => []RowsTellDelivery
<1>1. WebhookInv => RowsTellDelivery
  BY DEF WebhookInv
<1>2. QED
  BY <1>1, WebhookInvariant, PTL

-----------------------------------------------------------------------------
(* Exceptions: no sweep closes an SOS *)

AnswerPlaces == {"ack.read", "ack.write", "resolve.read", "resolve.write"}

TowerInv ==
  /\ wrong \subseteq Conditions
  /\ exceptions \in Seq(ExceptionRows)
  /\ tower \in [Tasks -> {Idle} \cup Sweeping \cup Answering]
  /\ \A t \in Tasks : tower[t].pc \in AnswerPlaces => tower[t].exception \in DOMAIN exceptions
  /\ SosNeedsOperator

\* What SosNeedsOperator asks of one row.
SosIsKept(row) ==
  row.type = DRIVER_SOS =>
    row.resolution # "sweep" /\ (row.status = "RESOLVED" => row.resolution = "operator")

LEMMA TowerMovesKeep ==
  ASSUME TowerInv, UNCHANGED <<wrong, exceptions>>, NEW t \in Tasks,
         NEW call \in {Idle} \cup Sweeping \cup Answering, tower' = [tower EXCEPT ![t] = call],
         call.pc \in AnswerPlaces => call.exception \in DOMAIN exceptions
  PROVE  TowerInv'
BY DEF TowerInv, SosNeedsOperator

LEMMA NewExceptionIsARow ==
  ASSUME NEW type \in ExceptionTypes
  PROVE  NewException(type) \in ExceptionRows /\ SosIsKept(NewException(type))
BY DEF NewException, ExceptionRows, SosIsKept

LEMMA AppendKeeps ==
  ASSUME TowerInv, UNCHANGED wrong, NEW row \in ExceptionRows, SosIsKept(row),
         exceptions' = Append(exceptions, row),
         tower' \in [Tasks -> {Idle} \cup Sweeping \cup Answering],
         \A t \in Tasks : tower'[t].pc \in AnswerPlaces => tower'[t] = tower[t]
  PROVE  TowerInv'
<1>1. PICK before, after : before = exceptions /\ after = exceptions'
  OBVIOUS
<1>2. before \in Seq(ExceptionRows) /\ after = Append(before, row)
  BY <1>1 DEF TowerInv
<1>3. /\ after \in Seq(ExceptionRows) /\ DOMAIN before \subseteq DOMAIN after
      /\ \A e \in DOMAIN after : (e \in DOMAIN before /\ after[e] = before[e]) \/ after[e] = row
  BY <1>2
<1>4. \A e \in DOMAIN after : SosIsKept(after[e])
  BY <1>1, <1>3 DEF TowerInv, SosNeedsOperator, SosIsKept
<1>5. SosNeedsOperator'
  BY <1>1, <1>4 DEF SosNeedsOperator, SosIsKept
<1>6. QED
  BY <1>1, <1>3, <1>5 DEF TowerInv

LEMMA RowsWrittenKeep ==
  ASSUME TowerInv, UNCHANGED wrong, NEW t \in Tasks, tower' = [tower EXCEPT ![t] = Idle],
         NEW after \in [DOMAIN exceptions -> ExceptionRows], exceptions' = after,
         \A e \in DOMAIN exceptions : SosIsKept(after[e])
  PROVE  TowerInv'
<1>1. PICK n \in Nat : DOMAIN exceptions = 1 .. n
  BY DEF TowerInv
<1>2. exceptions' \in Seq(ExceptionRows) /\ DOMAIN exceptions' = DOMAIN exceptions
  BY <1>1
<1>3. SosNeedsOperator'
  BY <1>2 DEF SosNeedsOperator, SosIsKept
<1>4. /\ tower' \in [Tasks -> {Idle} \cup Sweeping \cup Answering]
      /\ \A u \in Tasks : tower'[u].pc \in AnswerPlaces => tower'[u].exception \in DOMAIN exceptions
  BY DEF TowerInv, Idle, AnswerPlaces
<1>5. QED
  BY <1>2, <1>3, <1>4 DEF TowerInv

\* Every row as SosNeedsOperator has it.
LEMMA RowsAreKept ==
  ASSUME TowerInv
  PROVE  \A e \in DOMAIN exceptions : exceptions[e] \in ExceptionRows /\ SosIsKept(exceptions[e])
BY DEF TowerInv, SosNeedsOperator, SosIsKept

\* The row an operator answers about.
AnswerAt(t, pc) ==
  /\ tower[t] \in Answering /\ tower[t].pc = pc
  /\ tower[t].exception \in DOMAIN exceptions

LEMMA AnswersAreAboutRows ==
  ASSUME TowerInv, NEW t \in Tasks, NEW pc \in AnswerPlaces, TowerAt(t, pc)
  PROVE  AnswerAt(t, pc)
BY DEF TowerInv, TowerAt, AnswerAt, AnswerPlaces, Sweeping, Answering, Idle

LEMMA AnswerGoesOn ==
  ASSUME TowerInv, UNCHANGED <<wrong, exceptions>>, NEW t \in Tasks, NEW read, AnswerAt(t, read),
         NEW pc \in AnswerPlaces, tower' = Goto(tower, t, pc) \/ tower' = Ends(tower, t)
  PROVE  TowerInv'
<1>1. PICK before \in Answering : before = tower[t] /\ before.exception \in DOMAIN exceptions
  BY DEF AnswerAt
<1>2. CASE tower' = Goto(tower, t, pc)
  <2>1. PICK call \in Answering : call = [pc |-> pc, exception |-> before.exception]
    BY <1>1 DEF Answering, AnswerPlaces
  <2>2. [before EXCEPT !.pc = pc] = call
    BY <1>1, <2>1 DEF Answering
  <2>3. tower' = [tower EXCEPT ![t] = call]
    BY <1>1, <1>2, <2>2 DEF Goto, TowerInv
  <2>4. QED
    BY <1>1, <2>1, <2>3, TowerMovesKeep
<1>3. CASE tower' = Ends(tower, t)
  BY <1>3, TowerMovesKeep DEF Ends, Idle, AnswerPlaces
<1>4. QED
  BY <1>2, <1>3

LEMMA TowerInvariant == ExceptionSpec => []TowerInv
<1>1. ExceptionInit => TowerInv
  BY DEF ExceptionInit, TowerInv, SosNeedsOperator, Idle, AnswerPlaces
<1>2. ASSUME TowerInv, [ExceptionNext]_exceptionVars PROVE TowerInv'
  <2>1. CASE UNCHANGED exceptionVars
    BY <1>2, <2>1 DEF TowerInv, SosNeedsOperator, exceptionVars
  <2>2. CASE OrderMovesOn
    BY <1>2, <2>2 DEF TowerInv, SosNeedsOperator, OrderMovesOn
  <2>3. CASE TriggerDriverSos
    <3>1. DRIVER_SOS \in ExceptionTypes
      BY DEF ExceptionTypes
    <3>2. PICK row \in ExceptionRows : row = NewException(DRIVER_SOS) /\ SosIsKept(row)
      BY <3>1, NewExceptionIsARow
    <3>3. tower' \in [Tasks -> {Idle} \cup Sweeping \cup Answering] /\ tower' = tower
      BY <1>2, <2>3 DEF TriggerDriverSos, TowerInv
    <3>4. QED
      BY <1>2, <2>3, <3>2, <3>3, AppendKeeps DEF TriggerDriverSos
  <2>4. ASSUME NEW t \in Tasks, ReadOrders(t) PROVE TowerInv'
    <3>1. PICK call \in Sweeping :
            call = [pc |-> "sweep.open", triggered |-> wrong, todo |-> wrong, open |-> {}]
      BY <1>2 DEF Sweeping, TowerInv
    <3>2. QED
      BY <1>2, <2>4, <3>1, TowerMovesKeep DEF ReadOrders, AnswerPlaces
  <2>5. ASSUME NEW t \in Tasks, ReadOpenExceptions(t) PROVE TowerInv'
    <3>1. tower[t] \in Sweeping
      BY <1>2, <2>5 DEF ReadOpenExceptions, TowerAt, TowerInv, Idle, Answering
    <3>2. OpenExceptions \in SUBSET Nat
      BY <1>2 DEF OpenExceptions, TowerInv
    <3>3. PICK triggered \in SUBSET Conditions, todo \in SUBSET Conditions, open \in SUBSET Nat :
            /\ triggered = tower[t].triggered /\ open = OpenExceptions
            /\ todo = tower[t].todo \ Known(tower[t].todo, OpenExceptions)
      BY <3>1, <3>2 DEF Sweeping
    <3>4. PICK call \in Sweeping :
            call = [pc |-> "sweep.upsert", triggered |-> triggered, open |-> open, todo |-> todo]
      BY DEF Sweeping
    <3>5. tower' = [tower EXCEPT ![t] = call]
      BY <2>5, <3>3, <3>4 DEF ReadOpenExceptions
    <3>6. QED
      BY <1>2, <2>5, <3>4, <3>5, TowerMovesKeep DEF ReadOpenExceptions, AnswerPlaces
  <2>6. ASSUME NEW t \in Tasks, CreateException(t) PROVE TowerInv'
    <3>1. tower[t] \in Sweeping /\ tower[t].pc = "sweep.upsert"
      BY <1>2, <2>6 DEF CreateException, TowerAt, TowerInv, Idle, Answering
    <3>2. PICK before \in Sweeping : before = tower[t]
      BY <3>1
    <3>3. PICK c \in before.todo :
            /\ exceptions' = Append(exceptions, NewException(c))
            /\ tower' = [tower EXCEPT ![t].todo = before.todo \ {c}]
      BY <2>6, <3>2 DEF CreateException
    <3>4. c \in ExceptionTypes
      BY DEF Sweeping, ExceptionTypes
    <3>5. PICK row \in ExceptionRows : row = NewException(c) /\ SosIsKept(row)
      BY <3>4, NewExceptionIsARow
    <3>6. PICK call \in Sweeping : call = [before EXCEPT !.todo = before.todo \ {c}]
      BY DEF Sweeping
    <3>7. tower' = [tower EXCEPT ![t] = call] /\ call.pc = "sweep.upsert"
      BY <1>2, <3>1, <3>2, <3>3, <3>6 DEF TowerInv, Sweeping
    <3>8. /\ tower' \in [Tasks -> {Idle} \cup Sweeping \cup Answering]
          /\ \A u \in Tasks : tower'[u].pc \in AnswerPlaces => tower'[u] = tower[u]
      BY <1>2, <3>7 DEF TowerInv, AnswerPlaces
    <3>9. QED
      BY <1>2, <2>6, <3>3, <3>5, <3>8, AppendKeeps DEF CreateException
  <2>7. ASSUME NEW t \in Tasks, AutoResolve(t) PROVE TowerInv'
    <3>1. ASSUME NEW e \in DOMAIN exceptions
          PROVE  /\ exceptions'[e] \in ExceptionRows /\ SosIsKept(exceptions'[e])
      <4>1. PICK row \in ExceptionRows : row = exceptions[e] /\ SosIsKept(row)
        BY <1>2, RowsAreKept
      <4>2. exceptions'[e] = IF e \in ToAutoResolve(t)
                             THEN [row EXCEPT !.status = "RESOLVED", !.resolution = "sweep"]
                             ELSE row
        BY <2>7, <4>1 DEF AutoResolve
      <4>3. CASE e \in ToAutoResolve(t)
        <5>1. row.type # DRIVER_SOS
          BY <4>1, <4>3, ConditionAssumption DEF ToAutoResolve
        <5>2. QED
          BY <4>2, <4>3, <5>1 DEF ExceptionRows, SosIsKept
      <4>4. CASE e \notin ToAutoResolve(t)
        BY <4>1, <4>2, <4>4
      <4>5. QED
        BY <4>3, <4>4
    <3>2. PICK after \in [DOMAIN exceptions -> ExceptionRows] :
            exceptions' = after /\ \A e \in DOMAIN exceptions : SosIsKept(after[e])
      <4>1. DOMAIN exceptions' = DOMAIN exceptions /\ exceptions' = [e \in DOMAIN exceptions |-> exceptions'[e]]
        BY <2>7 DEF AutoResolve
      <4>2. QED
        BY <3>1, <4>1
    <3>3. QED
      BY <1>2, <2>7, <3>2, RowsWrittenKeep DEF AutoResolve, Ends
  <2>8. ASSUME NEW t \in Tasks, NEW e \in DOMAIN exceptions, Answer(t, e) PROVE TowerInv'
    <3>1. PICK pc \in {"ack.read", "resolve.read"} :
            tower' = [tower EXCEPT ![t] = [pc |-> pc, exception |-> e]]
      BY <2>8 DEF Answer
    <3>2. e \in Nat
      BY <1>2 DEF TowerInv
    <3>3. PICK call \in Answering : call = [pc |-> pc, exception |-> e]
      BY <3>2 DEF Answering
    <3>4. QED
      BY <1>2, <2>8, <3>1, <3>3, TowerMovesKeep DEF Answer
  <2>9. ASSUME NEW t \in Tasks, ReadForAck(t) PROVE TowerInv'
    <3>1. AnswerAt(t, "ack.read") /\ "ack.write" \in AnswerPlaces
      BY <1>2, <2>9, AnswersAreAboutRows DEF ReadForAck, AnswerPlaces
    <3>2. tower' = Goto(tower, t, "ack.write") \/ tower' = Ends(tower, t)
      BY <2>9 DEF ReadForAck
    <3>3. QED
      BY <1>2, <2>9, <3>1, <3>2, AnswerGoesOn DEF ReadForAck
  <2>10. ASSUME NEW t \in Tasks, ReadForResolve(t) PROVE TowerInv'
    <3>1. AnswerAt(t, "resolve.read") /\ "resolve.write" \in AnswerPlaces
      BY <1>2, <2>10, AnswersAreAboutRows DEF ReadForResolve, AnswerPlaces
    <3>2. tower' = Goto(tower, t, "resolve.write") \/ tower' = Ends(tower, t)
      BY <2>10 DEF ReadForResolve
    <3>3. QED
      BY <1>2, <2>10, <3>1, <3>2, AnswerGoesOn DEF ReadForResolve
  <2>11. ASSUME NEW t \in Tasks, AcknowledgeException(t) \/ ResolveException(t) PROVE TowerInv'
    <3>1. PICK e \in DOMAIN exceptions : e = tower[t].exception
      BY <1>2, <2>11, AnswersAreAboutRows
      DEF AcknowledgeException, ResolveException, AnswerPlaces, AnswerAt
    <3>2. PICK row \in ExceptionRows : row = exceptions[e] /\ SosIsKept(row)
      BY <1>2, RowsAreKept
    <3>3. PICK written \in ExceptionRows :
            SosIsKept(written) /\ exceptions' = [exceptions EXCEPT ![e] = written]
      <4>1. CASE AcknowledgeException(t)
        <5>1. exceptions' = [exceptions EXCEPT ![e] = [row EXCEPT !.status = "ACKNOWLEDGED"]]
          BY <1>2, <3>1, <3>2, <4>1 DEF AcknowledgeException, TowerInv
        <5>2. /\ [row EXCEPT !.status = "ACKNOWLEDGED"] \in ExceptionRows
              /\ SosIsKept([row EXCEPT !.status = "ACKNOWLEDGED"])
          BY <3>2 DEF ExceptionRows, SosIsKept
        <5>3. QED
          BY <5>1, <5>2
      <4>2. CASE ResolveException(t)
        <5>1. exceptions' = [exceptions EXCEPT ![e] =
                [row EXCEPT !.status = "RESOLVED", !.resolution = "operator"]]
          BY <1>2, <3>1, <3>2, <4>2 DEF ResolveException, TowerInv
        <5>2. /\ [row EXCEPT !.status = "RESOLVED", !.resolution = "operator"] \in ExceptionRows
              /\ SosIsKept([row EXCEPT !.status = "RESOLVED", !.resolution = "operator"])
          BY <3>2 DEF ExceptionRows, SosIsKept
        <5>3. QED
          BY <5>1, <5>2
      <4>3. QED
        BY <2>11, <4>1, <4>2
    <3>4. PICK after \in [DOMAIN exceptions -> ExceptionRows] :
            exceptions' = after /\ \A x \in DOMAIN exceptions : SosIsKept(after[x])
      <4>1. /\ DOMAIN exceptions' = DOMAIN exceptions
            /\ exceptions' = [x \in DOMAIN exceptions |-> exceptions'[x]]
            /\ \A x \in DOMAIN exceptions : exceptions'[x] = IF x = e THEN written ELSE exceptions[x]
        BY <1>2, <3>3 DEF TowerInv
      <4>2. \A x \in DOMAIN exceptions : exceptions'[x] \in ExceptionRows /\ SosIsKept(exceptions'[x])
        BY <1>2, <3>3, <4>1, RowsAreKept
      <4>3. QED
        BY <4>1, <4>2
    <3>5. QED
      BY <1>2, <2>11, <3>4, RowsWrittenKeep DEF AcknowledgeException, ResolveException, Ends
  <2>12. ASSUME NEW t \in Tasks, TowerFails(t) PROVE TowerInv'
    BY <1>2, <2>12, TowerMovesKeep DEF TowerFails, Ends, Idle, AnswerPlaces
  <2>13. QED
    BY <1>2, <2>1, <2>2, <2>3, <2>4, <2>5, <2>6, <2>7, <2>8, <2>9, <2>10, <2>11, <2>12
    DEF ExceptionNext
<1>3. QED
  BY <1>1, <1>2, PTL DEF ExceptionSpec

(***************************************************************************)
(* However many sweeps, operators and emergencies race, no sweep closes an *)
(* SOS: DRIVER_SOS is no condition a sweep detects                         *)
(* (detectAndSyncExceptions, exceptions.service.ts).                       *)
(***************************************************************************)
THEOREM SosIsClosedByOperators == ExceptionSpec => []SosNeedsOperator
<1>1. TowerInv => SosNeedsOperator
  BY DEF TowerInv
<1>2. QED
  BY <1>1, TowerInvariant, PTL

-----------------------------------------------------------------------------
(* Onboarding: nobody works who was not decided on *)

\* Whoever has a profile has an account, and exactly those past PENDING_APPROVAL were decided
\* on; an ACTIVE profile was approved, with its account.
Standing(a) ==
  /\ accounts[a] = "none" => profiles[a] = "none"
  /\ decisions[a] = <<>> <=> profiles[a] \in {"none", "PENDING_APPROVAL"}
  /\ profiles[a] = "ACTIVE" =>
       /\ accounts[a] = "ACTIVE"
       /\ \E i \in DOMAIN decisions[a] : decisions[a][i] = "APPROVED"

Counted(a) == Len(decisions[a]) + Cardinality(Deciding(a)) <= Cardinality(Tasks)

\* What a request still finds as it was when it looked.
InHand(call) ==
  /\ call.pc = "register.profile" => accounts[call.who] # "none" /\ profiles[call.who] = "none"
  /\ call.pc \in {"decide.read", "decide.write", "switch.read"} => profiles[call.who] # "none"
  /\ call.pc = "switch.write" => profiles[call.who] \notin {"none", "PENDING_APPROVAL"}

\* One request at most creates the profile of an applicant.
OneProfile ==
  \A t, u \in Tasks :
    desk[t].pc = "register.profile" /\ desk[u].pc = "register.profile" /\ desk[t].who = desk[u].who
      => t = u

DeskInv ==
  /\ OnboardingTypeOK
  /\ \A a \in Applicants : Standing(a)
  /\ \A t \in Tasks : InHand(desk[t])
  /\ OneProfile
  /\ \A a \in Applicants : Counted(a)

DeskOthers(t) == \A u \in Tasks \ {t} : desk'[u] = desk[u]

LEMMA DeskMoves ==
  ASSUME OnboardingTypeOK, NEW t \in Tasks, NEW call \in {Idle} \cup DeskCalls,
         desk' = [desk EXCEPT ![t] = call]
  PROVE  DeskOthers(t) /\ desk'[t] = call /\ desk' \in [Tasks -> {Idle} \cup DeskCalls]
BY DEF OnboardingTypeOK, DeskOthers

LEMMA DecidingIsFinite ==
  ASSUME NEW a
  PROVE  /\ IsFiniteSet(Deciding(a)) /\ Cardinality(Deciding(a)) \in Nat
         /\ Cardinality(Deciding(a)) <= Cardinality(Tasks) /\ Cardinality(Tasks) \in Nat
<1>1. Deciding(a) \subseteq Tasks
  BY DEF Deciding, At
<1>2. QED
  BY <1>1, TasksAssumption, FS_Subset, FS_CardinalityType

\* Only a request that finds an applicant undecided joins those that decide on him.
LEMMA CountedKeeps ==
  ASSUME OnboardingTypeOK, \A a \in Applicants : Counted(a), UNCHANGED decisions,
         NEW t \in Tasks, NEW call \in {Idle} \cup DeskCalls, desk' = [desk EXCEPT ![t] = call],
         call.pc = "decide.write" => decisions[call.who] = <<>>
  PROVE  \A a \in Applicants : Counted(a)'
<1>1. SUFFICES ASSUME NEW a \in Applicants PROVE Counted(a)'
  OBVIOUS
<1>2. PICK deciding : deciding = Deciding(a)'
  OBVIOUS
<1>3. deciding = {u \in Tasks : desk'[u].pc = "decide.write" /\ desk'[u].who = a}
  BY <1>2 DEF Deciding, At
<1>4. /\ IsFiniteSet(deciding) /\ Cardinality(deciding) \in Nat /\ Cardinality(Tasks) \in Nat
      /\ Cardinality(deciding) <= Cardinality(Tasks)
  <2>1. deciding \subseteq Tasks
    BY <1>3
  <2>2. QED
    BY <2>1, TasksAssumption, FS_Subset, FS_CardinalityType
<1>5. CASE decisions[a] = <<>>
  <2>1. Len(decisions'[a]) = 0
    BY <1>5
  <2>2. QED
    BY <1>2, <1>4, <2>1 DEF Counted
<1>6. CASE decisions[a] # <<>>
  <2>1. deciding \subseteq Deciding(a)
    BY <1>3, <1>6, DeskMoves DEF Deciding, At, DeskOthers
  <2>2. Cardinality(deciding) <= Cardinality(Deciding(a))
    BY <2>1, DecidingIsFinite, FS_Subset
  <2>3. Len(decisions[a]) \in Nat
    BY DEF OnboardingTypeOK
  <2>4. Len(decisions[a]) + Cardinality(Deciding(a)) <= Cardinality(Tasks)
    BY DEF Counted
  <2>5. Len(decisions[a]) + Cardinality(deciding) <= Cardinality(Tasks)
    BY <1>4, <2>2, <2>3, <2>4, DecidingIsFinite
  <2>6. QED
    BY <1>2, <2>5 DEF Counted
<1>7. QED
  BY <1>5, <1>6

\* Steps that only move requests.
LEMMA DeskMovesKeep ==
  ASSUME DeskInv, UNCHANGED <<accounts, profiles, decisions>>, NEW t \in Tasks,
         NEW call \in {Idle} \cup DeskCalls, desk' = [desk EXCEPT ![t] = call],
         InHand(call), call.pc # "register.profile",
         call.pc = "decide.write" => decisions[call.who] = <<>>
  PROVE  DeskInv'
<1>1. DeskOthers(t) /\ desk'[t] = call /\ desk' \in [Tasks -> {Idle} \cup DeskCalls]
  BY DeskMoves DEF DeskInv
<1>2. OnboardingTypeOK'
  BY <1>1 DEF DeskInv, OnboardingTypeOK
<1>3. \A a \in Applicants : Counted(a)'
  BY CountedKeeps DEF DeskInv
<1>4. \A a \in Applicants : Standing(a)'
  BY DEF DeskInv, Standing
<1>5. \A u \in Tasks : InHand(desk[u])'
  BY <1>1 DEF DeskInv, InHand, DeskOthers
<1>6. OneProfile'
  BY <1>1 DEF DeskInv, OneProfile, DeskOthers
<1>7. QED
  BY <1>2, <1>3, <1>4, <1>5, <1>6 DEF DeskInv

LEMMA DeskEnds ==
  ASSUME DeskInv, UNCHANGED <<accounts, profiles, decisions>>, NEW t \in Tasks, desk' = Ends(desk, t)
  PROVE  DeskInv'
<1>1. PICK call \in {Idle} : desk' = [desk EXCEPT ![t] = call] /\ call.pc = "idle"
  BY DEF Ends, Idle
<1>2. InHand(call)
  BY <1>1 DEF InHand
<1>3. QED
  BY <1>1, <1>2, DeskMovesKeep

RegisterPlaces == {"register.find", "register.user", "register.profile"}

DecidePlaces == {"decide.read", "decide.write"}

SwitchPlaces == {"switch.read", "switch.write"}

LEMMA WhoIsAnApplicant ==
  ASSUME DeskInv, NEW t \in Tasks, desk[t].pc # "idle"
  PROVE  desk[t] \in DeskCalls /\ desk[t].who \in Applicants
BY OnboardingAssumption DEF DeskInv, OnboardingTypeOK, DeskCalls, Idle

\* A request goes to its next await.
LEMMA DeskGoes ==
  ASSUME DeskInv, NEW t \in Tasks, NEW pc,
         \E places \in {RegisterPlaces, DecidePlaces, SwitchPlaces} : {desk[t].pc, pc} \subseteq places
  PROVE  \E call \in DeskCalls :
           /\ call.pc = pc /\ call.who = desk[t].who /\ call.who \in Applicants
           /\ Goto(desk, t, pc) = [desk EXCEPT ![t] = call]
<1>1. PICK before : before = desk[t]
  OBVIOUS
<1>2. before \in DeskCalls /\ before.pc = desk[t].pc
  <2>1. PICK places \in {RegisterPlaces, DecidePlaces, SwitchPlaces} : desk[t].pc \in places
    OBVIOUS
  <2>2. desk[t].pc # "idle"
    BY <2>1 DEF RegisterPlaces, DecidePlaces, SwitchPlaces
  <2>3. QED
    BY <1>1, <2>2, WhoIsAnApplicant
<1>3. Goto(desk, t, pc) = [desk EXCEPT ![t] = [before EXCEPT !.pc = pc]]
  BY <1>1 DEF DeskInv, OnboardingTypeOK, Goto
<1>4. /\ [before EXCEPT !.pc = pc] \in DeskCalls /\ [before EXCEPT !.pc = pc].pc = pc
      /\ [before EXCEPT !.pc = pc].who = before.who /\ before.who \in Applicants
  BY <1>2, OnboardingAssumption DEF DeskCalls, RegisterPlaces, DecidePlaces, SwitchPlaces
<1>5. QED
  BY <1>1, <1>3, <1>4

LEMMA CreateUserKeeps ==
  ASSUME DeskInv, NEW t \in Tasks, CreateUser(t)
  PROVE  DeskInv'
<1>1. PICK a \in Applicants : a = desk[t].who
  BY WhoIsAnApplicant DEF CreateUser, DeskAt
<1>2. CASE accounts[a] # "none"
  BY <1>1, <1>2, DeskEnds DEF CreateUser
<1>3. CASE accounts[a] = "none"
  <2>1. /\ desk' = Goto(desk, t, "register.profile") /\ UNCHANGED <<profiles, decisions>>
        /\ accounts' = [accounts EXCEPT ![a] = "PENDING_VERIFICATION"]
    BY <1>1, <1>3 DEF CreateUser
  <2>2. PICK call \in DeskCalls :
          call.pc = "register.profile" /\ call.who = a /\ desk' = [desk EXCEPT ![t] = call]
    BY <1>1, <2>1, DeskGoes DEF CreateUser, DeskAt, RegisterPlaces
  <2>3. DeskOthers(t) /\ desk'[t] = call /\ desk' \in [Tasks -> {Idle} \cup DeskCalls]
    BY <2>2, DeskMoves DEF DeskInv
  <2>4. OnboardingTypeOK'
    BY <2>1, <2>3 DEF DeskInv, OnboardingTypeOK
  <2>5. /\ accounts'[a] = "PENDING_VERIFICATION" /\ profiles[a] = "none"
        /\ \A b \in Applicants \ {a} : accounts'[b] = accounts[b]
    BY <1>3, <2>1 DEF DeskInv, OnboardingTypeOK, Standing
  <2>6. \A b \in Applicants : Standing(b)'
    BY <2>1, <2>5 DEF DeskInv, Standing
  <2>7. \A u \in Tasks \ {t} : desk[u].pc = "register.profile" => desk[u].who # a
    BY <1>3 DEF DeskInv, InHand
  <2>8. \A u \in Tasks : desk[u].pc = "register.profile" => desk[u].who \in Applicants
    BY WhoIsAnApplicant
  <2>9. \A u \in Tasks : InHand(desk[u])'
    BY <2>1, <2>2, <2>3, <2>5, <2>7, <2>8 DEF DeskInv, InHand, DeskOthers
  <2>10. OneProfile'
    BY <2>2, <2>3, <2>7 DEF DeskInv, OneProfile, DeskOthers
  <2>11. \A b \in Applicants : Counted(b)'
    BY <2>1, <2>2, CountedKeeps DEF DeskInv
  <2>12. QED
    BY <2>4, <2>6, <2>9, <2>10, <2>11 DEF DeskInv
<1>4. QED
  BY <1>2, <1>3

\* A profile is written and the request ends: created, or switched by its driver.
LEMMA ProfileKeeps ==
  ASSUME DeskInv, NEW t \in Tasks, NEW a \in Applicants, a = desk[t].who,
         NEW status \in {"PENDING_APPROVAL", "AVAILABLE", "OFFLINE"},
         status = "PENDING_APPROVAL" => desk[t].pc = "register.profile",
         status # "PENDING_APPROVAL" => desk[t].pc = "switch.write",
         profiles' = [profiles EXCEPT ![a] = status], desk' = Ends(desk, t),
         UNCHANGED <<accounts, decisions>>
  PROVE  DeskInv'
<1>1. PICK call \in {Idle} : call.pc = "idle" /\ desk' = [desk EXCEPT ![t] = call]
  BY DEF Ends, Idle
<1>2. DeskOthers(t) /\ desk'[t] = call /\ desk' \in [Tasks -> {Idle} \cup DeskCalls]
  BY <1>1, DeskMoves DEF DeskInv
<1>3. /\ profiles' \in [Applicants -> ProfileStatus] /\ profiles'[a] = status
      /\ \A b \in Applicants \ {a} : profiles'[b] = profiles[b]
  BY DEF DeskInv, OnboardingTypeOK, ProfileStatus
<1>4. OnboardingTypeOK'
  BY <1>2, <1>3 DEF DeskInv, OnboardingTypeOK
<1>5. /\ status = "PENDING_APPROVAL" => accounts[a] # "none" /\ profiles[a] = "none"
      /\ status # "PENDING_APPROVAL" => profiles[a] \notin {"none", "PENDING_APPROVAL"}
  BY DEF DeskInv, InHand
<1>6. \A b \in Applicants : Standing(b)'
  BY <1>3, <1>5 DEF DeskInv, Standing
<1>7. ASSUME NEW u \in Tasks PROVE InHand(desk[u])'
  <2>1. CASE u = t
    BY <1>1, <1>2, <2>1 DEF InHand
  <2>2. CASE u # t /\ desk[u].pc = "idle"
    BY <1>2, <2>2 DEF InHand, DeskOthers
  <2>3. CASE u # t /\ desk[u].pc # "idle"
    <3>1. PICK c \in DeskCalls, b \in Applicants : c = desk[u] /\ c = desk'[u] /\ b = c.who /\ InHand(c)
      BY <1>2, <2>3, WhoIsAnApplicant DEF DeskInv, DeskOthers
    <3>2. c.pc = "register.profile" /\ b = a => status # "PENDING_APPROVAL"
      BY <2>3, <3>1 DEF DeskInv, OneProfile
    <3>3. c.pc = "register.profile" => b # a
      BY <1>5, <3>1, <3>2 DEF InHand
    <3>4. InHand(c)'
      BY <1>3, <1>5, <3>1, <3>3 DEF InHand
    <3>5. QED
      BY <3>1, <3>4 DEF InHand
  <2>4. QED
    BY <2>1, <2>2, <2>3
<1>8. OneProfile'
  BY <1>1, <1>2 DEF DeskInv, OneProfile, DeskOthers
<1>9. \A b \in Applicants : Counted(b)'
  BY <1>1, CountedKeeps DEF DeskInv
<1>10. QED
  BY <1>4, <1>6, <1>7, <1>8, <1>9 DEF DeskInv

LEMMA DecisionKeeps ==
  ASSUME DeskInv, NEW t \in Tasks, WriteDecision(t)
  PROVE  DeskInv'
<1>1. desk[t] \in [pc : {"decide.read", "decide.write"}, who : Applicants, verdict : Verdicts]
  BY DEF WriteDecision, DeskAt, DeskInv, OnboardingTypeOK, DeskCalls, Idle
<1>2. PICK a \in Applicants, v \in Verdicts :
        a = desk[t].who /\ v = desk[t].verdict /\ desk[t].pc = "decide.write"
  BY <1>1 DEF WriteDecision, DeskAt
<1>3. /\ profiles' = [profiles EXCEPT ![a] = StatusAfter(a, v)]
      /\ accounts' = IF v = "APPROVED" THEN [accounts EXCEPT ![a] = "ACTIVE"] ELSE accounts
      /\ decisions' = [decisions EXCEPT ![a] = Append(decisions[a], v)]
      /\ desk' = Ends(desk, t)
  BY <1>2 DEF WriteDecision
<1>4. PICK call \in {Idle} : call.pc = "idle" /\ desk' = [desk EXCEPT ![t] = call]
  BY <1>3 DEF Ends, Idle
<1>5. DeskOthers(t) /\ desk'[t] = call /\ desk' \in [Tasks -> {Idle} \cup DeskCalls]
  BY <1>4, DeskMoves DEF DeskInv
<1>6. PICK status \in {"REJECTED", "OFFLINE", "ACTIVE"} :
        status = StatusAfter(a, v) /\ (status = "ACTIVE" => v = "APPROVED")
  BY DEF StatusAfter, Verdicts
<1>7. PICK before, after : before = decisions[a] /\ after = Append(before, v)
  OBVIOUS
<1>8. /\ before \in Seq(Verdicts) /\ after \in Seq(Verdicts) /\ Len(before) \in Nat
      /\ Len(after) = Len(before) + 1 /\ after # <<>> /\ Len(after) \in DOMAIN after
      /\ after[Len(after)] = v
  BY <1>7 DEF DeskInv, OnboardingTypeOK
<1>9. /\ profiles'[a] = status /\ decisions'[a] = after
      /\ v = "APPROVED" => accounts'[a] = "ACTIVE"
      /\ accounts[a] # "none" => accounts'[a] # "none"
      /\ \A b \in Applicants \ {a} :
           profiles'[b] = profiles[b] /\ decisions'[b] = decisions[b] /\ accounts'[b] = accounts[b]
  BY <1>3, <1>6, <1>7 DEF DeskInv, OnboardingTypeOK
<1>10. OnboardingTypeOK'
  <2>1. profiles' \in [Applicants -> ProfileStatus]
    BY <1>3, <1>6 DEF DeskInv, OnboardingTypeOK, ProfileStatus
  <2>2. accounts' \in [Applicants -> {"none", "PENDING_VERIFICATION", "ACTIVE"}]
    BY <1>3 DEF DeskInv, OnboardingTypeOK
  <2>3. decisions' \in [Applicants -> Seq(Verdicts)]
    BY <1>3, <1>7, <1>8 DEF DeskInv, OnboardingTypeOK
  <2>4. QED
    BY <1>5, <2>1, <2>2, <2>3 DEF OnboardingTypeOK
<1>11. profiles[a] # "none" /\ accounts[a] # "none"
  BY <1>2 DEF DeskInv, InHand, Standing
<1>12. ASSUME NEW b \in Applicants PROVE Standing(b)'
  <2>1. CASE b = a
    <3>1. status = "ACTIVE" => accounts'[a] = "ACTIVE" /\ \E i \in DOMAIN after : after[i] = "APPROVED"
      BY <1>6, <1>8, <1>9
    <3>2. QED
      BY <1>6, <1>8, <1>9, <1>11, <2>1, <3>1 DEF Standing
  <2>2. CASE b # a
    BY <1>9, <2>2 DEF DeskInv, Standing
  <2>3. QED
    BY <2>1, <2>2
<1>13. ASSUME NEW u \in Tasks PROVE InHand(desk[u])'
  <2>1. CASE u = t
    BY <1>4, <1>5, <2>1 DEF InHand
  <2>2. CASE u # t /\ desk[u].pc = "idle"
    BY <1>5, <2>2 DEF InHand, DeskOthers
  <2>3. CASE u # t /\ desk[u].pc # "idle"
    <3>1. PICK c \in DeskCalls, b \in Applicants : c = desk[u] /\ c = desk'[u] /\ b = c.who /\ InHand(c)
      BY <1>5, <2>3, WhoIsAnApplicant DEF DeskInv, DeskOthers
    <3>2. InHand(c)'
      BY <1>6, <1>9, <1>11, <3>1 DEF InHand
    <3>3. QED
      BY <3>1, <3>2 DEF InHand
  <2>4. QED
    BY <2>1, <2>2, <2>3
<1>14. OneProfile'
  BY <1>4, <1>5 DEF DeskInv, OneProfile, DeskOthers
<1>15. ASSUME NEW b \in Applicants PROVE Counted(b)'
  <2>1. PICK deciding : deciding = Deciding(b)'
    OBVIOUS
  <2>2. deciding = Deciding(b) \ {t}
    BY <1>4, <1>5, <2>1 DEF Deciding, At, DeskOthers
  <2>3. Len(decisions[b]) \in Nat /\ Len(decisions[b]) + Cardinality(Deciding(b)) <= Cardinality(Tasks)
    BY DEF DeskInv, Counted, OnboardingTypeOK
  <2>4. IsFiniteSet(Deciding(b)) /\ Cardinality(Deciding(b)) \in Nat /\ Cardinality(Tasks) \in Nat
    BY DecidingIsFinite
  <2>5. CASE b = a
    <3>1. t \in Deciding(b)
      BY <1>2, <2>5 DEF Deciding, At
    <3>2. Cardinality(deciding) = Cardinality(Deciding(b)) - 1
      BY <2>2, <2>4, <3>1, FS_RemoveElement
    <3>3. Len(decisions'[b]) = Len(decisions[b]) + 1
      BY <1>7, <1>8, <1>9, <2>5
    <3>4. QED
      BY <2>1, <2>3, <2>4, <3>2, <3>3 DEF Counted
  <2>6. CASE b # a
    <3>1. Cardinality(deciding) <= Cardinality(Deciding(b)) /\ Cardinality(deciding) \in Nat
      BY <2>2, <2>4, FS_Subset, FS_CardinalityType
    <3>2. decisions'[b] = decisions[b]
      BY <1>9, <2>6
    <3>3. QED
      BY <2>1, <2>3, <2>4, <3>1, <3>2 DEF Counted
  <2>7. QED
    BY <2>5, <2>6
<1>16. QED
  BY <1>10, <1>12, <1>13, <1>14, <1>15 DEF DeskInv

(***************************************************************************)
(* However registrations, decisions and switches race or break off, an     *)
(* applicant is decided on at most once per request that ran at once with  *)
(* the first decision, nobody past PENDING_APPROVAL is undecided, and an   *)
(* ACTIVE supplier was approved with his account (onboarding.service.ts).  *)
(***************************************************************************)
THEOREM DecidedFirst == OnboardingSpec => []DecidedBeforeWork
<1>1. OnboardingInit => DeskInv
  <2>1. ASSUME OnboardingInit, NEW a \in Applicants PROVE Standing(a) /\ Counted(a)
    <3>1. Len(decisions[a]) = 0
      BY <2>1 DEF OnboardingInit
    <3>2. QED
      BY <2>1, <3>1, DecidingIsFinite DEF OnboardingInit, Standing, Counted
  <2>2. QED
    BY <2>1 DEF OnboardingInit, DeskInv, OnboardingTypeOK, ProfileStatus, InHand, OneProfile, Idle
<1>2. ASSUME DeskInv, [OnboardingNext]_onboardingVars PROVE DeskInv'
  <2>1. CASE UNCHANGED onboardingVars
    BY <1>2, <2>1
    DEF onboardingVars, DeskInv, OnboardingTypeOK, Standing, Counted, Deciding, At, InHand, OneProfile
  <2>2. ASSUME NEW t \in Tasks, NEW a \in Applicants, Register(t, a) PROVE DeskInv'
    <3>1. PICK call \in DeskCalls : call = [pc |-> "register.find", who |-> a]
      BY DEF DeskCalls
    <3>2. /\ InHand(call) /\ call.pc \notin {"register.profile", "decide.write"}
          /\ UNCHANGED <<accounts, profiles, decisions>>
      BY <1>2, <2>2, <3>1, OnboardingAssumption DEF Register, InHand
    <3>3. QED
      BY <1>2, <2>2, <3>1, <3>2, DeskMovesKeep DEF Register
  <2>3. ASSUME NEW t \in Tasks, NEW a \in Applicants, Consider(t, a) PROVE DeskInv'
    <3>1. PICK v \in Verdicts : desk' = [desk EXCEPT ![t] = [pc |-> "decide.read", who |-> a, verdict |-> v]]
      BY <2>3 DEF Consider
    <3>2. PICK call \in DeskCalls : call = [pc |-> "decide.read", who |-> a, verdict |-> v]
      BY DEF DeskCalls
    <3>3. /\ InHand(call) /\ call.pc \notin {"register.profile", "decide.write"}
          /\ UNCHANGED <<accounts, profiles, decisions>>
      BY <1>2, <2>3, <3>2, OnboardingAssumption DEF Consider, InHand
    <3>4. QED
      BY <1>2, <2>3, <3>1, <3>2, <3>3, DeskMovesKeep DEF Consider
  <2>4. ASSUME NEW t \in Tasks, NEW a \in DriverApplicants, Switch(t, a) PROVE DeskInv'
    <3>1. PICK to \in {"AVAILABLE", "OFFLINE"} :
            desk' = [desk EXCEPT ![t] = [pc |-> "switch.read", who |-> a, to |-> to]]
      BY <2>4 DEF Switch
    <3>2. PICK call \in DeskCalls : call = [pc |-> "switch.read", who |-> a, to |-> to]
      BY DEF DeskCalls
    <3>3. /\ InHand(call) /\ call.pc \notin {"register.profile", "decide.write"}
          /\ UNCHANGED <<accounts, profiles, decisions>>
      BY <1>2, <2>4, <3>2, OnboardingAssumption DEF Switch, InHand
    <3>4. QED
      BY <1>2, <2>4, <3>1, <3>2, <3>3, DeskMovesKeep DEF Switch
  <2>5. ASSUME NEW t \in Tasks, FindUser(t) PROVE DeskInv'
    <3>1. CASE desk' = Goto(desk, t, "register.user")
      <4>1. PICK call \in DeskCalls : call.pc = "register.user" /\ desk' = [desk EXCEPT ![t] = call]
        BY <1>2, <2>5, <3>1, DeskGoes DEF FindUser, DeskAt, RegisterPlaces
      <4>2. QED
        BY <1>2, <2>5, <4>1, DeskMovesKeep DEF FindUser, InHand
    <3>2. CASE desk' = Ends(desk, t)
      BY <1>2, <2>5, <3>2, DeskEnds DEF FindUser
    <3>3. QED
      BY <2>5, <3>1, <3>2 DEF FindUser
  <2>6. ASSUME NEW t \in Tasks, CreateUser(t) PROVE DeskInv'
    BY <1>2, <2>6, CreateUserKeeps
  <2>7. ASSUME NEW t \in Tasks, CreateProfile(t) PROVE DeskInv'
    <3>1. PICK a \in Applicants : a = desk[t].who
      BY <1>2, <2>7, WhoIsAnApplicant DEF CreateProfile, DeskAt
    <3>2. QED
      BY <1>2, <2>7, <3>1, ProfileKeeps DEF CreateProfile, DeskAt
  <2>8. ASSUME NEW t \in Tasks, ReadApplicant(t) PROVE DeskInv'
    <3>1. CASE desk' = Goto(desk, t, "decide.write") /\ IsPending(desk[t].who)
      <4>1. PICK call \in DeskCalls :
              /\ call.pc = "decide.write" /\ call.who = desk[t].who /\ call.who \in Applicants
              /\ desk' = [desk EXCEPT ![t] = call]
        BY <1>2, <2>8, <3>1, DeskGoes DEF ReadApplicant, DeskAt, DecidePlaces
      <4>2. profiles[call.who] = "PENDING_APPROVAL" /\ decisions[call.who] = <<>>
        BY <1>2, <3>1, <4>1 DEF IsPending, DeskInv, Standing
      <4>3. QED
        BY <1>2, <2>8, <4>1, <4>2, DeskMovesKeep DEF ReadApplicant, InHand
    <3>2. CASE desk' = Ends(desk, t)
      BY <1>2, <2>8, <3>2, DeskEnds DEF ReadApplicant
    <3>3. QED
      BY <2>8, <3>1, <3>2 DEF ReadApplicant
  <2>9. ASSUME NEW t \in Tasks, WriteDecision(t) PROVE DeskInv'
    BY <1>2, <2>9, DecisionKeeps
  <2>10. ASSUME NEW t \in Tasks, ReadDriver(t) PROVE DeskInv'
    <3>1. CASE desk' = Goto(desk, t, "switch.write") /\ MaySwitch(desk[t].who)
      <4>1. PICK call \in DeskCalls :
              /\ call.pc = "switch.write" /\ call.who = desk[t].who
              /\ desk' = [desk EXCEPT ![t] = call]
        BY <1>2, <2>10, <3>1, DeskGoes DEF ReadDriver, DeskAt, SwitchPlaces
      <4>2. profiles[call.who] \notin {"none", "PENDING_APPROVAL"}
        BY <1>2, <2>10, <3>1, <4>1 DEF MaySwitch, IsPending, DeskInv, InHand, ReadDriver, DeskAt
      <4>3. QED
        BY <1>2, <2>10, <4>1, <4>2, DeskMovesKeep DEF ReadDriver, InHand
    <3>2. CASE desk' = Ends(desk, t)
      BY <1>2, <2>10, <3>2, DeskEnds DEF ReadDriver
    <3>3. QED
      BY <2>10, <3>1, <3>2 DEF ReadDriver
  <2>11. ASSUME NEW t \in Tasks, WriteSwitch(t) PROVE DeskInv'
    <3>1. PICK a \in Applicants : a = desk[t].who
      BY <1>2, <2>11, WhoIsAnApplicant DEF WriteSwitch, DeskAt
    <3>2. desk[t] \in [pc : {"switch.read", "switch.write"}, who : DriverApplicants,
                       to : {"AVAILABLE", "OFFLINE"}]
      <4>1. desk[t] \in DeskCalls /\ desk[t].pc = "switch.write"
        BY <1>2, <2>11, WhoIsAnApplicant DEF WriteSwitch, DeskAt
      <4>2. QED
        BY <4>1 DEF DeskCalls
    <3>3. PICK to \in {"AVAILABLE", "OFFLINE"} : to = desk[t].to
      BY <3>2
    <3>4. QED
      BY <1>2, <2>11, <3>1, <3>3, ProfileKeeps DEF WriteSwitch, DeskAt
  <2>12. ASSUME NEW t \in Tasks, DeskFails(t) PROVE DeskInv'
    BY <1>2, <2>12, DeskEnds DEF DeskFails
  <2>13. QED
    BY <1>2, <2>1, <2>2, <2>3, <2>4, <2>5, <2>6, <2>7, <2>8, <2>9, <2>10, <2>11, <2>12
    DEF OnboardingNext
<1>3. DeskInv => DecidedBeforeWork
  BY DEF DeskInv, DecidedBeforeWork, Standing, Counted
<1>4. QED
  BY <1>1, <1>2, <1>3, PTL DEF OnboardingSpec

-----------------------------------------------------------------------------
(* Documents: what a page shows as eligible, dispatch finds eligible *)

LEMMA MaximumExists ==
  ASSUME NEW n \in Nat, NEW S, S \subseteq 1 .. n, S # {}
  PROVE  \E m \in S : \A e \in S : e <= m
<1>1. PICK T : T = {k \in Nat : \E e \in S : k = n - e}
  OBVIOUS
<1>2. T \subseteq Nat /\ T # {}
  <2>1. PICK e \in S : e \in 1 .. n
    OBVIOUS
  <2>2. n - e \in Nat
    BY <2>1
  <2>3. QED
    BY <1>1, <2>2
<1>3. \E x \in T : \A y \in T : ~ (<<y, x>> \in OpToRel(<, Nat))
  BY <1>2, NatLessThanWellFounded, WFMin
<1>4. PICK x \in T : \A y \in T : ~ (y < x)
  BY <1>2, <1>3 DEF OpToRel
<1>5. PICK m \in S : x = n - m
  BY <1>1
<1>6. ASSUME NEW e \in S PROVE e <= m
  <2>1. e \in 1 .. n /\ m \in 1 .. n /\ n - e \in Nat
    OBVIOUS
  <2>2. n - e \in T
    BY <1>1, <2>1
  <2>3. ~(n - e < n - m)
    BY <1>4, <1>5, <2>2
  <2>4. QED
    BY <2>1, <2>3
<1>7. QED
  BY <1>6

LEMMA NewestIsAMember ==
  ASSUME NEW n \in Nat, NEW S, S \subseteq 1 .. n, S # {}
  PROVE  Newest(S) \in S /\ \A e \in S : e <= Newest(S)
BY MaximumExists DEF Newest

\* What a row says of its document: it has a file, and the last review is its status.
RowIsBacked(d) ==
  /\ documents[d].fileKey \in files
  /\ documents[d].status =
       IF ReviewsOf(d) = {} THEN "UPLOADED" ELSE reviews[Newest(ReviewsOf(d))].to

DocumentInv ==
  /\ documents \in Seq(DocumentRows)
  /\ reviews \in Seq([document : Nat, to : Decisions])
  /\ reviewer \in [Tasks -> {Idle} \cup ReviewerCalls]
  /\ files \subseteq Nat /\ IsFiniteSet(files)
  /\ \A i \in DOMAIN reviews : reviews[i].document \in DOMAIN documents
  /\ \A t \in Tasks : reviewer[t].pc = "row" => reviewer[t].key \in files
  /\ \A t \in Tasks : reviewer[t].pc \in {"read", "decide"} => reviewer[t].document \in DOMAIN documents
  /\ \A d \in DOMAIN documents : RowIsBacked(d)

\* A verified document that is eligible has not expired: the newest of its type.
LEMMA EligibleFollows ==
  ASSUME documents \in Seq(DocumentRows)
  PROVE  EligibleIsSelectable
<1>1. SUFFICES ASSUME Eligible, NEW type \in RequiredTypes
               PROVE  \E d \in Verified(type) : Valid(d)
  BY DEF EligibleIsSelectable, Ineligible
<1>2. Verified(type) # {} /\ type \in RequiredTypes \ missingTypes
  BY <1>1 DEF Eligible, missingTypes
<1>3. PICK n \in Nat : DOMAIN documents = 1 .. n
  OBVIOUS
<1>4. Verified(type) \subseteq 1 .. n
  BY <1>3 DEF Verified
<1>5. Newest(Verified(type)) \in Verified(type)
  BY <1>2, <1>4, NewestIsAMember
<1>6. Valid(Newest(Verified(type)))
  BY <1>1, <1>2 DEF Eligible, expiredTypes
<1>7. QED
  BY <1>5, <1>6

LEMMA ReviewerMovesKeep ==
  ASSUME DocumentInv, UNCHANGED <<documents, reviews>>, files \subseteq files', files' \subseteq Nat,
         IsFiniteSet(files'),
         NEW t \in Tasks, NEW call \in {Idle} \cup ReviewerCalls,
         reviewer' = [reviewer EXCEPT ![t] = call],
         call.pc = "row" => call.key \in files',
         call.pc \in {"read", "decide"} => call.document \in DOMAIN documents
  PROVE  DocumentInv'
<1>1. \A d : ReviewsOf(d)' = ReviewsOf(d)
  BY DEF ReviewsOf
<1>2. \A d \in DOMAIN documents : RowIsBacked(d)'
  BY <1>1 DEF DocumentInv, RowIsBacked
<1>3. QED
  BY <1>2 DEF DocumentInv

LEMMA CreateDocumentKeeps ==
  ASSUME DocumentInv, NEW t \in Tasks, CreateDocument(t)
  PROVE  DocumentInv'
<1>1. reviewer[t] \in [pc : {"save", "row"}, type : RequiredTypes, expiresAt : 0 .. Never, key : Nat]
  BY DEF CreateDocument, DocumentInv, ReviewerCalls, Idle
<1>2. PICK row \in DocumentRows :
        row = [type |-> reviewer[t].type, status |-> "UPLOADED",
               expiresAt |-> reviewer[t].expiresAt, fileKey |-> reviewer[t].key]
  BY <1>1 DEF DocumentRows
<1>3. row.fileKey \in files /\ row.status = "UPLOADED"
  BY <1>2 DEF CreateDocument, DocumentInv
<1>4. PICK before, after : before = documents /\ after = documents'
  OBVIOUS
<1>5. before \in Seq(DocumentRows) /\ after = Append(before, row)
  BY <1>2, <1>4 DEF CreateDocument, DocumentInv
<1>6. PICK n \in Nat : DOMAIN before = 1 .. n
  BY <1>5
<1>7. /\ after \in Seq(DocumentRows) /\ DOMAIN after = 1 .. n + 1 /\ after[n + 1] = row
      /\ \A d \in 1 .. n : after[d] = before[d]
  BY <1>5, <1>6
<1>8. /\ UNCHANGED <<files, reviews>> /\ reviewer' = [reviewer EXCEPT ![t] = Idle]
  BY DEF CreateDocument, Ends
<1>9. \A d : ReviewsOf(d)' = ReviewsOf(d)
  BY <1>8 DEF ReviewsOf
<1>10. ReviewsOf(n + 1) = {}
  BY <1>4, <1>6 DEF DocumentInv, ReviewsOf
<1>11. ASSUME NEW d \in DOMAIN documents' PROVE RowIsBacked(d)'
  <2>1. CASE d = n + 1
    BY <1>3, <1>4, <1>7, <1>8, <1>9, <1>10, <2>1 DEF RowIsBacked
  <2>2. CASE d \in 1 .. n
    BY <1>4, <1>6, <1>7, <1>8, <1>9, <2>2 DEF DocumentInv, RowIsBacked
  <2>3. QED
    BY <1>4, <1>7, <2>1, <2>2
<1>12. \A u \in Tasks : reviewer'[u].pc # "idle" => reviewer'[u] = reviewer[u]
  BY <1>8 DEF DocumentInv, Idle
<1>13. reviewer' \in [Tasks -> {Idle} \cup ReviewerCalls]
  BY <1>8 DEF DocumentInv
<1>14. DOMAIN documents \subseteq DOMAIN documents'
  BY <1>4, <1>6, <1>7
<1>15. QED
  BY <1>4, <1>7, <1>8, <1>11, <1>12, <1>13, <1>14 DEF DocumentInv

LEMMA DecideKeeps ==
  ASSUME DocumentInv, NEW t \in Tasks, Decide(t)
  PROVE  DocumentInv'
<1>1. reviewer[t] \in [pc : {"read", "decide"}, document : Nat, to : Decisions]
  BY DEF Decide, DocumentInv, ReviewerCalls, Idle
<1>2. PICK d \in DOMAIN documents, to \in Decisions :
        d = reviewer[t].document /\ to = reviewer[t].to /\ d \in Nat
  BY <1>1 DEF Decide, DocumentInv
<1>3. /\ documents' = [documents EXCEPT ![d].status = to]
      /\ reviews' = Append(reviews, [document |-> d, to |-> to])
      /\ reviewer' = [reviewer EXCEPT ![t] = Idle] /\ UNCHANGED files
  BY <1>2 DEF Decide, Ends
<1>4. /\ documents' \in Seq(DocumentRows) /\ DOMAIN documents' = DOMAIN documents
      /\ documents'[d].status = to /\ documents'[d].fileKey = documents[d].fileKey
      /\ \A e \in DOMAIN documents \ {d} : documents'[e] = documents[e]
  <2>1. PICK row \in DocumentRows : row = documents[d]
    BY DEF DocumentInv
  <2>2. PICK written \in DocumentRows : written = [row EXCEPT !.status = to]
    BY DEF DocumentRows, Decisions
  <2>3. documents' = [documents EXCEPT ![d] = written]
    BY <1>3, <2>1, <2>2 DEF DocumentInv
  <2>4. written.status = to /\ written.fileKey = row.fileKey
    BY <2>2 DEF DocumentRows
  <2>5. QED
    BY <2>1, <2>3, <2>4 DEF DocumentInv
<1>5. PICK before, after, n : before = reviews /\ after = reviews' /\ n = Len(reviews)
  OBVIOUS
<1>6. PICK review \in [document : Nat, to : Decisions] : review = [document |-> d, to |-> to]
  BY <1>2
<1>7. /\ after \in Seq([document : Nat, to : Decisions])
      /\ n \in Nat /\ n + 1 \in Nat
      /\ DOMAIN before = 1 .. n /\ DOMAIN after = 1 .. n + 1 /\ after[n + 1] = review
      /\ \A i \in 1 .. n : after[i] = before[i]
  <2>1. before \in Seq([document : Nat, to : Decisions]) /\ after = Append(before, review)
    BY <1>3, <1>5, <1>6 DEF DocumentInv
  <2>2. QED
    BY <1>5, <2>1
<1>8. ASSUME NEW e \in DOMAIN documents' PROVE RowIsBacked(e)'
  <2>1. PICK R, Rnow : R = ReviewsOf(e) /\ Rnow = ReviewsOf(e)'
    OBVIOUS
  <2>2. /\ R = {i \in 1 .. n : before[i].document = e}
        /\ Rnow = {i \in 1 .. n + 1 : after[i].document = e}
    BY <1>5, <1>7, <2>1 DEF ReviewsOf
  <2>3. CASE e = d
    <3>1. n + 1 \in Rnow /\ Rnow \subseteq 1 .. n + 1
      BY <1>6, <1>7, <2>2, <2>3
    <3>2. Newest(Rnow) = n + 1
      <4>1. Newest(Rnow) \in Rnow /\ n + 1 <= Newest(Rnow)
        BY <1>7, <3>1, NewestIsAMember
      <4>2. PICK m : m = Newest(Rnow)
        OBVIOUS
      <4>3. m \in 1 .. n + 1 /\ n + 1 <= m
        BY <3>1, <4>1, <4>2
      <4>4. m = n + 1
        BY <1>7, <4>3
      <4>5. QED
        BY <4>2, <4>4
    <3>3. documents'[e].status = after[n + 1].to /\ documents'[e].fileKey \in files'
      BY <1>3, <1>4, <1>6, <1>7, <2>3 DEF DocumentInv, RowIsBacked
    <3>4. QED
      BY <1>5, <2>1, <3>1, <3>2, <3>3 DEF RowIsBacked
  <2>4. CASE e # d
    <3>1. Rnow = R
      BY <1>6, <1>7, <2>2, <2>4
    <3>2. R # {} => after[Newest(R)] = before[Newest(R)]
      BY <1>7, <2>2, NewestIsAMember
    <3>3. PICK newest : newest = Newest(R)
      OBVIOUS
    <3>4. /\ documents[e].fileKey \in files
          /\ documents[e].status = IF R = {} THEN "UPLOADED" ELSE before[newest].to
      BY <1>4, <1>5, <2>1, <3>3 DEF DocumentInv, RowIsBacked
    <3>5. documents'[e] = documents[e] /\ files' = files
      BY <1>3, <1>4, <2>4
    <3>6. Newest(ReviewsOf(e)') = newest /\ ReviewsOf(e)' = R
      BY <2>1, <3>1, <3>3
    <3>7. documents'[e].status = IF R = {} THEN "UPLOADED" ELSE after[newest].to
      BY <3>2, <3>3, <3>4, <3>5
    <3>8. QED
      BY <1>5, <3>4, <3>5, <3>6, <3>7 DEF RowIsBacked
  <2>5. QED
    BY <2>3, <2>4
<1>9. \A i \in DOMAIN reviews' : reviews'[i].document \in DOMAIN documents'
  BY <1>4, <1>5, <1>6, <1>7 DEF DocumentInv
<1>10. /\ reviewer' \in [Tasks -> {Idle} \cup ReviewerCalls]
       /\ \A u \in Tasks : reviewer'[u].pc # "idle" => reviewer'[u] = reviewer[u]
  BY <1>3 DEF DocumentInv, Idle
<1>11. QED
  BY <1>3, <1>4, <1>5, <1>7, <1>8, <1>9, <1>10 DEF DocumentInv

LEMMA DocumentsInvariant == DocumentSpec => []DocumentInv
<1>1. DocumentInit => DocumentInv
  BY FS_EmptySet DEF DocumentInit, DocumentInv, Idle
<1>2. ASSUME DocumentInv, [DocumentNext]_documentVars PROVE DocumentInv'
  <2>1. CASE UNCHANGED documentVars
    BY <1>2, <2>1 DEF DocumentInv, RowIsBacked, ReviewsOf, documentVars
  <2>2. ASSUME NEW t \in Tasks, Upload(t) PROVE DocumentInv'
    <3>1. PICK type \in RequiredTypes, day \in 0 .. Never :
            reviewer' = [reviewer EXCEPT ![t] =
              [pc |-> "save", type |-> type, expiresAt |-> day, key |-> 0]]
      BY <2>2 DEF Upload
    <3>2. PICK call \in ReviewerCalls :
            call = [pc |-> "save", type |-> type, expiresAt |-> day, key |-> 0]
      BY DEF ReviewerCalls
    <3>3. UNCHANGED <<documents, reviews>> /\ files' = files /\ files \subseteq Nat /\ IsFiniteSet(files)
      BY <1>2, <2>2 DEF Upload, DocumentInv
    <3>4. QED
      BY <1>2, <3>1, <3>2, <3>3, ReviewerMovesKeep
  <2>3. ASSUME NEW t \in Tasks, SaveFile(t) PROVE DocumentInv'
    <3>1. PICK before : before = reviewer[t]
      OBVIOUS
    <3>2. before \in [pc : {"save", "row"}, type : RequiredTypes, expiresAt : 0 .. Never, key : Nat]
      BY <1>2, <2>3, <3>1 DEF SaveFile, DocumentInv, ReviewerCalls, Idle
    <3>3. PICK key \in Nat : key = Cardinality(files) + 1
      <4>1. Cardinality(files) \in Nat
        BY <1>2, FS_CardinalityType DEF DocumentInv
      <4>2. QED
        BY <4>1
    <3>4. PICK call \in ReviewerCalls : call = [before EXCEPT !.pc = "row", !.key = key]
      BY <3>2 DEF ReviewerCalls
    <3>5. /\ files' = files \cup {key}
          /\ reviewer' = [reviewer EXCEPT ![t] = call]
      BY <1>2, <2>3, <3>1, <3>3, <3>4 DEF SaveFile, DocumentInv
    <3>6. call.pc = "row" /\ call.key = key
      BY <3>2, <3>4
    <3>7. UNCHANGED <<documents, reviews>> /\ files' \subseteq Nat
      BY <1>2, <2>3, <3>5 DEF SaveFile, DocumentInv
    <3>8. IsFiniteSet(files')
      <4>1. IsFiniteSet(files \cup {key})
        BY <1>2, FS_AddElement, Zenon DEF DocumentInv
      <4>2. QED
        BY <3>5, <4>1
    <3>9. QED
      BY <1>2, <3>5, <3>6, <3>7, <3>8, ReviewerMovesKeep
  <2>4. ASSUME NEW t \in Tasks, CreateDocument(t) PROVE DocumentInv'
    BY <1>2, <2>4, CreateDocumentKeeps
  <2>5. ASSUME NEW t \in Tasks, NEW d \in DOMAIN documents, Review(t, d) PROVE DocumentInv'
    <3>1. PICK to \in Decisions :
            reviewer' = [reviewer EXCEPT ![t] = [pc |-> "read", document |-> d, to |-> to]]
      BY <2>5 DEF Review
    <3>2. d \in Nat
      BY <1>2 DEF DocumentInv
    <3>3. PICK call \in ReviewerCalls : call = [pc |-> "read", document |-> d, to |-> to]
      BY <3>2 DEF ReviewerCalls
    <3>4. UNCHANGED <<documents, reviews>> /\ files' = files /\ files \subseteq Nat /\ IsFiniteSet(files)
      BY <1>2, <2>5 DEF Review, DocumentInv
    <3>5. QED
      BY <1>2, <3>1, <3>3, <3>4, ReviewerMovesKeep
  <2>6. ASSUME NEW t \in Tasks, ReadDocument(t) PROVE DocumentInv'
    <3>1. PICK before : before = reviewer[t]
      OBVIOUS
    <3>2. /\ before \in [pc : {"read", "decide"}, document : Nat, to : Decisions]
          /\ before.document \in DOMAIN documents
      <4>1. before.pc = "read" /\ before \in {Idle} \cup ReviewerCalls
        BY <1>2, <2>6, <3>1 DEF ReadDocument, DocumentInv
      <4>2. before.document \in DOMAIN documents
        BY <1>2, <3>1, <4>1 DEF DocumentInv
      <4>3. QED
        BY <4>1, <4>2 DEF ReviewerCalls, Idle
    <3>3. PICK call \in ReviewerCalls : call = [before EXCEPT !.pc = "decide"]
      BY <3>2 DEF ReviewerCalls
    <3>4. UNCHANGED <<documents, reviews>> /\ files' = files /\ files \subseteq Nat /\ IsFiniteSet(files)
      BY <1>2, <2>6 DEF ReadDocument, DocumentInv
    <3>5. CASE reviewer' = Goto(reviewer, t, "decide")
      <4>1. reviewer' = [reviewer EXCEPT ![t] = call]
        BY <1>2, <3>1, <3>3, <3>5 DEF Goto, DocumentInv
      <4>2. call.pc = "decide" /\ call.document = before.document
        BY <3>2, <3>3
      <4>3. QED
        BY <1>2, <3>2, <3>4, <4>1, <4>2, ReviewerMovesKeep
    <3>6. CASE reviewer' = Ends(reviewer, t)
      BY <1>2, <3>4, <3>6, ReviewerMovesKeep DEF Ends, Idle
    <3>7. QED
      BY <2>6, <3>5, <3>6 DEF ReadDocument
  <2>7. ASSUME NEW t \in Tasks, Decide(t) PROVE DocumentInv'
    BY <1>2, <2>7, DecideKeeps
  <2>8. ASSUME NEW t \in Tasks, ReviewerFails(t) PROVE DocumentInv'
    <3>1. UNCHANGED <<documents, reviews>> /\ files' = files /\ files \subseteq Nat /\ IsFiniteSet(files)
      BY <1>2, <2>8 DEF ReviewerFails, DocumentInv
    <3>2. QED
      BY <1>2, <2>8, <3>1, ReviewerMovesKeep DEF ReviewerFails, Ends, Idle
  <2>9. CASE DayPasses
    BY <1>2, <2>9 DEF DayPasses, DocumentInv, RowIsBacked, ReviewsOf
  <2>10. QED
    BY <1>2, <2>1, <2>2, <2>3, <2>4, <2>5, <2>6, <2>7, <2>8, <2>9 DEF DocumentNext
<1>3. QED
  BY <1>1, <1>2, PTL DEF DocumentSpec

(***************************************************************************)
(* A partner whose page says he is eligible is selectable, on every history *)
(* of uploads, reviews and expiries (computeEligibility and                *)
(* getIneligibleOwnerIds, documents.service.ts): the newest VERIFIED       *)
(* document of a type is among those that will do.                         *)
(***************************************************************************)
THEOREM EligiblePartnersAreFound == DocumentSpec => []EligibleIsSelectable
<1>1. DocumentInv => EligibleIsSelectable
  BY EligibleFollows DEF DocumentInv
<1>2. QED
  BY <1>1, DocumentsInvariant, PTL

(***************************************************************************)
(* Whatever uploads and reviews race or break off, a document has its file *)
(* and the status the last review in the audit log gave it.                *)
(***************************************************************************)
THEOREM PapersAreBacked == DocumentSpec => []DocumentsAreBacked
<1>1. DocumentInv => DocumentsAreBacked
  BY DEF DocumentInv, DocumentsAreBacked, RowIsBacked
<1>2. QED
  BY <1>1, DocumentsInvariant, PTL

-----------------------------------------------------------------------------
(* The back office: one service moves, the others stand still *)

LEMMA OthersStandStill ==
  ASSUME NEW c, Only(c)
  PROVE  /\ c # "settlements" => UNCHANGED settlementVars
         /\ c # "referrals" => UNCHANGED referralVars
         /\ c # "documents" => UNCHANGED documentVars
         /\ c # "onboarding" => UNCHANGED onboardingVars
         /\ c # "exceptions" => UNCHANGED exceptionVars
         /\ c # "tickets" => UNCHANGED ticketVars
         /\ c # "access" => UNCHANGED accessVars
         /\ c # "webhooks" => UNCHANGED webhookVars
         /\ c # "missions" => UNCHANGED missionVars
         /\ c # "limiter" => UNCHANGED vars
         /\ c # "console" => UNCHANGED consoleVars
         /\ c # "pages" => UNCHANGED pageVars
BY DEF Only, Still

\* Each service takes steps of its own or none.
LEMMA ServicesStep ==
  ASSUME [BackOfficeNext]_officeVars
  PROVE  /\ [SettlementNext]_settlementVars
         /\ [ReferralNext]_referralVars
         /\ [DocumentNext]_documentVars
         /\ [OnboardingNext]_onboardingVars
         /\ [ExceptionNext]_exceptionVars
         /\ [Next]_vars
         /\ [ConsoleNext]_consoleVars
         /\ [PagesNext]_pageVars
         /\ TicketMoves \/ UNCHANGED ticketVars
         /\ AccessMoves \/ UNCHANGED accessVars
         /\ WebhookMoves \/ UNCHANGED webhookVars
         /\ MissionMoves \/ UNCHANGED missionVars
<1>1. CASE UNCHANGED officeVars
  BY <1>1 DEF officeVars
<1>2. CASE BackOfficeNext
  BY <1>2, OthersStandStill DEF BackOfficeNext
<1>3. QED
  BY <1>1, <1>2

\* What has been overtaken stays so.
LEMMA OvertakenStays ==
  ASSUME [BackOfficeNext]_officeVars, overtaken
  PROVE  overtaken'
<1>1. CASE UNCHANGED overtaken
  BY <1>1
<1>2. CASE TicketMoves
  BY <1>2, Zenon DEF TicketMoves
<1>3. CASE AccessMoves
  BY <1>3, Zenon DEF AccessMoves
<1>4. CASE WebhookMoves
  BY <1>4, Zenon DEF WebhookMoves
<1>5. CASE MissionMoves
  BY <1>5, Zenon DEF MissionMoves
<1>6. QED
  BY <1>1, <1>2, <1>3, <1>4, <1>5 DEF BackOfficeNext, officeVars

-----------------------------------------------------------------------------
(* Tickets: who closed a closed ticket had every message on the page *)

AgentTypeOK ==
  /\ ticketStatus \in TicketStatus
  /\ thread \in Seq(Entry)
  /\ agent \in [Tasks -> {Idle} \cup AgentCalls]

TicketInv == AgentTypeOK /\ (overtaken \/ MessagesAreHeard)

\* The ticket is written from a status it still has, not closed by a message, and not closed
\* over a message that was not on the page.
LEMMA EntryKeepsTickets ==
  ASSUME AgentTypeOK, MessagesAreHeard, NEW entry \in Entry, thread' = Append(thread, entry),
         \/ entry.what = "message" /\ ticketStatus' \notin Closed
         \/ entry.what = "assigned" /\ (ticketStatus' \in Closed => ticketStatus \in Closed)
         \/ /\ entry.what = ticketStatus'
            /\ ticketStatus' \in Closed => \A m \in Messages : m <= entry.seen
  PROVE  MessagesAreHeard'
<1>1. PICK n \in Nat : n = Len(thread)
  BY DEF AgentTypeOK
<1>2. /\ DOMAIN thread = 1 .. n /\ DOMAIN thread' = 1 .. n + 1 /\ thread'[n + 1] = entry
      /\ \A i \in 1 .. n : thread'[i] = thread[i]
  BY <1>1 DEF AgentTypeOK
<1>3. SUFFICES ASSUME ticketStatus' \in Closed
               PROVE  \E i \in 1 .. n + 1 : /\ thread'[i].what \in Closed
                                            /\ \A m \in Messages' : m <= thread'[i].seen
  BY <1>2 DEF MessagesAreHeard
<1>4. entry.what # "message"
  BY <1>3 DEF Closed
<1>5. Messages' = Messages
  BY <1>1, <1>2, <1>4 DEF Messages
<1>6. n + 1 \in 1 .. n + 1 /\ 1 .. n \subseteq 1 .. n + 1
  BY <1>1
<1>7. CASE entry.what = ticketStatus' /\ \A m \in Messages : m <= entry.seen
  BY <1>2, <1>3, <1>5, <1>6, <1>7
<1>8. CASE ticketStatus \in Closed
  <2>1. PICK i \in 1 .. n : thread[i].what \in Closed /\ \A m \in Messages : m <= thread[i].seen
    BY <1>2, <1>8 DEF MessagesAreHeard
  <2>2. QED
    BY <1>2, <1>5, <1>6, <2>1
<1>9. QED
  BY <1>3, <1>4, <1>7, <1>8

LEMMA AgentOf ==
  ASSUME AgentTypeOK, NEW t \in Tasks, agent[t] # Idle
  PROVE  /\ agent[t].to \in TicketStatus
         /\ agent[t].seen \in Nat
         /\ agent[t].pc \in {"message.write", "assign.write", "status.write"} =>
              agent[t].read \in TicketStatus
BY DEF AgentTypeOK, AgentCalls

LEMMA TicketStep ==
  ASSUME TicketInv, TicketMoves, overtaken => overtaken'
  PROVE  TicketInv'
<1>1. PICK t \in Tasks :
        \/ Turn(t) \/ ReadTicket(t) \/ AgentFails(t)
        \/ /\ AddMessage(t) \/ AssignTicket(t) \/ UpdateTicketStatus(t)
           /\ ~ overtaken' => ~ Overtaken(t)
  BY Zenon DEF TicketMoves
<1>2. AgentTypeOK /\ Idle.pc = "idle"
  BY DEF TicketInv, Idle
<1>3. CASE Turn(t)
  <2>1. PICK pc \in {"message.read", "assign.read", "status.read"}, to \in TicketStatus,
             seen \in 0 .. Len(thread) :
               agent' = [agent EXCEPT ![t] = [pc |-> pc, to |-> to, seen |-> seen]]
    BY <1>3 DEF Turn
  <2>2. seen \in Nat
    BY <1>2, <2>1 DEF AgentTypeOK
  <2>3. [pc |-> pc, to |-> to, seen |-> seen] \in AgentCalls
    BY <2>2 DEF AgentCalls
  <2>4. PICK call \in AgentCalls : agent' = [agent EXCEPT ![t] = call]
    BY <2>1, <2>3
  <2>5. QED
    BY <1>3, <2>4 DEF Turn, TicketInv, AgentTypeOK, MessagesAreHeard, Messages
<1>4. CASE ReadTicket(t)
  <2>1. PICK pc \in {"message.write", "assign.write", "status.write"} :
          agent' = [agent EXCEPT ![t] =
            [pc |-> pc, to |-> agent[t].to, seen |-> agent[t].seen, read |-> ticketStatus]]
    BY <1>4 DEF ReadTicket, Reads
  <2>2. agent[t] # Idle
    BY <1>2, <1>4 DEF ReadTicket, Reads
  <2>3. PICK call \in AgentCalls :
          call = [pc |-> pc, to |-> agent[t].to, seen |-> agent[t].seen, read |-> ticketStatus]
    BY <1>2, <2>2, AgentOf DEF AgentCalls, AgentTypeOK
  <2>4. UNCHANGED <<ticketStatus, thread>>
    BY <1>4 DEF ReadTicket, Reads
  <2>5. QED
    BY <2>1, <2>3, <2>4 DEF TicketInv, AgentTypeOK, MessagesAreHeard, Messages
<1>5. CASE AgentFails(t)
  BY <1>5 DEF AgentFails, Ends, TicketInv, AgentTypeOK, MessagesAreHeard, Messages
<1>6. ASSUME NEW pc \in {"message.write", "assign.write", "status.write"},
             NEW what \in {"message", "assigned"} \cup TicketStatus, NEW status,
             Writes(t, pc, what, status),
             agent[t].to \in TicketStatus /\ agent[t].read \in TicketStatus => status \in TicketStatus
      PROVE  /\ AgentTypeOK' /\ ticketStatus' = status
             /\ thread' = Append(thread, [what |-> what, seen |-> agent[t].seen])
             /\ [what |-> what, seen |-> agent[t].seen] \in Entry
             /\ agent[t].to \in TicketStatus /\ agent[t].read \in TicketStatus
  <2>1. agent[t] # Idle /\ agent[t].pc = pc
    BY <1>2, <1>6 DEF Writes
  <2>2. /\ agent[t].to \in TicketStatus /\ agent[t].read \in TicketStatus
        /\ agent[t].seen \in Nat
    BY <1>2, <2>1, AgentOf
  <2>3. PICK entry \in Entry : entry = [what |-> what, seen |-> agent[t].seen]
    BY <2>2 DEF Entry
  <2>4. /\ ticketStatus' = status /\ thread' = Append(thread, entry)
        /\ agent' = [agent EXCEPT ![t] = Idle]
    BY <1>6, <2>3 DEF Writes, Ends
  <2>5. thread' \in Seq(Entry)
    BY <1>2, <2>4 DEF AgentTypeOK
  <2>6. QED
    BY <1>2, <1>6, <2>2, <2>3, <2>4, <2>5 DEF AgentTypeOK
<1>7. CASE AddMessage(t) /\ (~ overtaken' => ~ Overtaken(t))
  <2>1. /\ Writes(t, "message.write", "message", StatusAfterMessage(agent[t].read))
        /\ agent[t].pc = "message.write"
    BY <1>7 DEF AddMessage, Writes
  <2>2. StatusAfterMessage(agent[t].read) \in TicketStatus
    BY <1>2 DEF StatusAfterMessage, TicketStatus, AgentTypeOK
  <2>3. /\ AgentTypeOK' /\ ticketStatus' = StatusAfterMessage(agent[t].read)
        /\ \E entry \in Entry : entry.what = "message" /\ thread' = Append(thread, entry)
    BY <1>6, <2>1, <2>2
  <2>4. ASSUME ~ overtaken' PROVE MessagesAreHeard'
    <3>1. agent[t].read = ticketStatus
      BY <1>7, <2>1, <2>4 DEF Overtaken
    <3>2. ticketStatus' \notin Closed
      BY <2>3, <3>1 DEF StatusAfterMessage, Closed
    <3>3. MessagesAreHeard
      BY <2>4 DEF TicketInv
    <3>4. QED
      BY <1>2, <2>3, <3>2, <3>3, EntryKeepsTickets
  <2>5. QED
    BY <2>3, <2>4 DEF TicketInv
<1>8. CASE AssignTicket(t) /\ (~ overtaken' => ~ Overtaken(t))
  <2>1. PICK status : status = IF agent[t].read = "OPEN" THEN "IN_PROGRESS" ELSE agent[t].read
    OBVIOUS
  <2>2. Writes(t, "assign.write", "assigned", status) /\ agent[t].pc = "assign.write"
    BY <1>8, <2>1 DEF AssignTicket, Writes
  <2>3. /\ AgentTypeOK' /\ ticketStatus' = status
        /\ \E entry \in Entry : entry.what = "assigned" /\ thread' = Append(thread, entry)
    BY <1>6, <2>1, <2>2 DEF TicketStatus
  <2>4. ASSUME ~ overtaken' PROVE MessagesAreHeard'
    <3>1. agent[t].read = ticketStatus
      BY <1>8, <2>2, <2>4 DEF Overtaken
    <3>2. ticketStatus' \in Closed => ticketStatus \in Closed
      BY <2>1, <2>3, <3>1 DEF Closed
    <3>3. MessagesAreHeard
      BY <2>4 DEF TicketInv
    <3>4. QED
      BY <1>2, <2>3, <3>2, <3>3, EntryKeepsTickets
  <2>5. QED
    BY <2>3, <2>4 DEF TicketInv
<1>9. CASE UpdateTicketStatus(t) /\ (~ overtaken' => ~ Overtaken(t))
  <2>1. Writes(t, "status.write", agent[t].to, agent[t].to) /\ agent[t].pc = "status.write"
    BY <1>9 DEF UpdateTicketStatus, Writes
  <2>2. PICK to \in TicketStatus : to = agent[t].to
    BY <1>2, <2>1, AgentOf
  <2>3. /\ AgentTypeOK' /\ ticketStatus' = to
        /\ \E entry \in Entry : /\ entry.what = to /\ entry.seen = agent[t].seen
                               /\ thread' = Append(thread, entry)
    BY <1>6, <2>1, <2>2
  <2>4. ASSUME ~ overtaken' PROVE MessagesAreHeard'
    <3>1. MessagesAreHeard
      BY <2>4 DEF TicketInv
    <3>2. agent[t].seen \in Nat /\ Messages \subseteq Nat
      BY <1>2, <2>1, AgentOf DEF AgentTypeOK, Messages
    <3>3. to \in Closed => \A m \in Messages : m <= agent[t].seen
      BY <1>9, <2>1, <2>2, <2>4, <3>2 DEF Overtaken
    <3>4. QED
      BY <1>2, <2>3, <3>1, <3>3, EntryKeepsTickets
  <2>5. QED
    BY <2>3, <2>4 DEF TicketInv
<1>10. QED
  BY <1>1, <1>3, <1>4, <1>5, <1>7, <1>8, <1>9

LEMMA TicketsInit == ASSUME TicketInit, overtaken = FALSE PROVE TicketInv
<1>1. AgentTypeOK
  BY DEF TicketInit, AgentTypeOK, TicketStatus
<1>2. MessagesAreHeard
  BY DEF TicketInit, MessagesAreHeard, Closed
<1>3. QED
  BY <1>1, <1>2 DEF TicketInv

LEMMA TicketsRest ==
  ASSUME TicketInv, UNCHANGED ticketVars, overtaken => overtaken'
  PROVE  TicketInv'
BY DEF TicketInv, ticketVars, AgentTypeOK, MessagesAreHeard, Messages

-----------------------------------------------------------------------------
(* Access: sessions follow the password, a second factor is usable *)

Account == [password : Nat, secret : Nat, mfaEnabled : BOOLEAN]

AccountCalls ==
  [pc : {"login", "setup", "confirm", "disable"}, read : Account]
  \cup [pc : {"change", "revoke"}, read : Account, session : Int]

\* The types, without the bounds of a run.
AccountTypeOK ==
  /\ user \in Account
  /\ made \in Nat
  /\ DOMAIN sessions \subseteq Int
  /\ \A s \in DOMAIN sessions : sessions[s] \in [password : Nat, active : BOOLEAN]
  /\ caller \in [Tasks -> {Idle} \cup AccountCalls]

\* A change of password, not by s, is about to revoke it.
BeingRevoked(s) == \E t \in Tasks : caller[t].pc = "revoke" /\ caller[t].session # s

SessionsAreWatched ==
  \A s \in Active : s = keeper \/ sessions[s].password = user.password \/ BeingRevoked(s)

AccessInv ==
  /\ AccountTypeOK
  /\ \A t \in Tasks : caller[t].pc = "setup" => ~ caller[t].read.mfaEnabled
  /\ overtaken \/ (SessionsAreWatched /\ MfaIsUsable)

LEMMA CallerOf ==
  ASSUME AccountTypeOK, NEW t \in Tasks, caller[t] # Idle
  PROVE  /\ caller[t] \in AccountCalls
         /\ caller[t].read \in Account
         /\ caller[t].pc \in {"change", "revoke"} => caller[t].session \in Int
BY DEF AccountTypeOK, AccountCalls

\* A request that neither comes from revoking nor touches a row or a session.
LEMMA CallerMovesKeep ==
  ASSUME AccessInv, NEW t \in Tasks, NEW call \in {Idle} \cup AccountCalls,
         caller' = [caller EXCEPT ![t] = call], caller[t].pc # "revoke" \/ overtaken',
         call.pc = "setup" => ~ call.read.mfaEnabled,
         UNCHANGED <<user, sessions, made, proved, keeper>>, overtaken => overtaken'
  PROVE  AccessInv'
<1>1. AccountTypeOK' /\ MfaIsUsable' = MfaIsUsable
  BY DEF AccessInv, AccountTypeOK, MfaIsUsable
<1>2. \A u \in Tasks : u # t => caller'[u] = caller[u]
  BY DEF AccessInv, AccountTypeOK
<1>3. caller'[t] = call
  BY DEF AccessInv, AccountTypeOK
<1>4. \A u \in Tasks : caller'[u].pc = "setup" => ~ caller'[u].read.mfaEnabled
  BY <1>2, <1>3 DEF AccessInv
<1>5. ASSUME caller[t].pc # "revoke", SessionsAreWatched PROVE SessionsAreWatched'
  <2>1. \A s : BeingRevoked(s) => BeingRevoked(s)'
    BY <1>2, <1>5 DEF BeingRevoked
  <2>2. QED
    BY <1>5, <2>1 DEF SessionsAreWatched, Active
<1>6. QED
  BY <1>1, <1>4, <1>5 DEF AccessInv

LEMMA ChangeKeeps ==
  ASSUME AccessInv, NEW t \in Tasks, ChangePassword(t), overtaken => overtaken'
  PROVE  AccessInv'
<1>1. caller[t] # Idle /\ caller[t].pc = "change"
  BY DEF ChangePassword, Idle
<1>2. /\ caller[t] \in AccountCalls
      /\ user \in Account /\ user' = [user EXCEPT !.password = @ + 1]
  BY <1>1, CallerOf DEF AccessInv, AccountTypeOK, ChangePassword
<1>3. PICK call \in AccountCalls : call = [caller[t] EXCEPT !.pc = "revoke"]
  BY <1>1, <1>2 DEF AccountCalls
<1>4. /\ caller' = [caller EXCEPT ![t] = call]
      /\ call.pc = "revoke" /\ call.session = caller[t].session
  BY <1>1, <1>2, <1>3 DEF ChangePassword, Goto, AccountCalls, AccessInv, AccountTypeOK
<1>5. user' \in Account /\ user'.secret = user.secret /\ user'.mfaEnabled = user.mfaEnabled
  BY <1>2 DEF Account
<1>6. AccountTypeOK'
  BY <1>4, <1>5 DEF ChangePassword, AccessInv, AccountTypeOK
<1>7. \A u \in Tasks : caller'[u].pc = "setup" => ~ caller'[u].read.mfaEnabled
  BY <1>4 DEF AccessInv, AccountTypeOK
<1>8. SessionsAreWatched'
  <2>1. caller'[t].pc = "revoke" /\ caller'[t].session = keeper'
    BY <1>4 DEF ChangePassword, AccessInv, AccountTypeOK
  <2>2. \A s : s = keeper' \/ BeingRevoked(s)'
    BY <2>1 DEF BeingRevoked
  <2>3. QED
    BY <2>2 DEF SessionsAreWatched
<1>9. MfaIsUsable => MfaIsUsable'
  BY <1>5 DEF MfaIsUsable, ChangePassword
<1>10. QED
  BY <1>6, <1>7, <1>8, <1>9 DEF AccessInv

LEMMA RevokeKeeps ==
  ASSUME AccessInv, NEW t \in Tasks, RevokeSessions(t), overtaken => overtaken'
  PROVE  AccessInv'
<1>1. /\ caller' = [caller EXCEPT ![t] = Idle]
      /\ UNCHANGED <<user, made, proved, keeper>> /\ DOMAIN sessions' = DOMAIN sessions
      /\ \A s \in DOMAIN sessions :
           /\ sessions'[s] \in [password : Nat, active : BOOLEAN]
           /\ sessions'[s].password = sessions[s].password
           /\ sessions'[s].active <=> (sessions[s].active /\ s = caller[t].session)
  BY DEF RevokeSessions, SessionsKept, Ends, AccessInv, AccountTypeOK
<1>2. AccountTypeOK' /\ MfaIsUsable' = MfaIsUsable
  BY <1>1 DEF AccessInv, AccountTypeOK, MfaIsUsable
<1>3. caller'[t] = Idle /\ \A u \in Tasks : u # t => caller'[u] = caller[u]
  BY <1>1 DEF AccessInv, AccountTypeOK
<1>4. \A u \in Tasks : caller'[u].pc = "setup" => ~ caller'[u].read.mfaEnabled
  BY <1>3 DEF AccessInv, Idle
<1>5. ASSUME SessionsAreWatched PROVE SessionsAreWatched'
  <2>1. SUFFICES ASSUME NEW s \in Active'
                 PROVE  s = keeper \/ sessions'[s].password = user.password \/ BeingRevoked(s)'
    BY <1>1 DEF SessionsAreWatched
  <2>2. s \in DOMAIN sessions /\ sessions'[s].active
    BY <1>1, <2>1 DEF Active
  <2>3. s \in Active /\ s = caller[t].session /\ sessions'[s].password = sessions[s].password
    BY <1>1, <2>2 DEF Active
  <2>4. BeingRevoked(s) => BeingRevoked(s)'
    BY <1>3, <2>3 DEF BeingRevoked
  <2>5. QED
    BY <1>5, <2>3, <2>4 DEF SessionsAreWatched
<1>6. QED
  BY <1>2, <1>4, <1>5 DEF AccessInv

LEMMA OpenKeeps ==
  ASSUME AccessInv, NEW t \in Tasks, OpenSession(t), ~ overtaken' => ~ ReadStale(t),
         overtaken => overtaken'
  PROVE  AccessInv'
<1>1. caller[t] # Idle /\ caller[t].pc = "login"
  BY DEF OpenSession, Idle
<1>2. PICK new : new = Cardinality(DOMAIN sessions) + 1
  OBVIOUS
<1>3. /\ caller' = [caller EXCEPT ![t] = Idle] /\ UNCHANGED <<user, made, proved, keeper>>
      /\ DOMAIN sessions' = 1 .. new
      /\ \A s \in 1 .. new :
           sessions'[s] = IF s \in DOMAIN sessions THEN sessions[s]
                          ELSE [password |-> caller[t].read.password, active |-> TRUE]
  BY <1>2 DEF OpenSession, Ends
<1>4. caller[t].read.password \in Nat
  BY <1>1, CallerOf DEF AccessInv, Account
<1>5. \A s \in DOMAIN sessions' : sessions'[s] \in [password : Nat, active : BOOLEAN]
  <2>1. [password |-> caller[t].read.password, active |-> TRUE] \in [password : Nat, active : BOOLEAN]
    BY <1>4
  <2>2. \A s \in DOMAIN sessions : sessions[s] \in [password : Nat, active : BOOLEAN]
    BY DEF AccessInv, AccountTypeOK
  <2>3. QED
    BY <1>3, <2>1, <2>2
<1>6. AccountTypeOK' /\ MfaIsUsable' = MfaIsUsable
  BY <1>3, <1>5 DEF AccessInv, AccountTypeOK, MfaIsUsable
<1>7. caller'[t] = Idle /\ \A u \in Tasks : u # t => caller'[u] = caller[u]
  BY <1>3 DEF AccessInv, AccountTypeOK
<1>8. \A u \in Tasks : caller'[u].pc = "setup" => ~ caller'[u].read.mfaEnabled
  BY <1>7 DEF AccessInv, Idle
<1>9. ASSUME ~ overtaken', SessionsAreWatched PROVE SessionsAreWatched'
  <2>1. caller[t].read.password = user.password
    BY <1>1, <1>9 DEF ReadStale
  <2>2. \A s : BeingRevoked(s) => BeingRevoked(s)'
    BY <1>1, <1>7 DEF BeingRevoked
  <2>3. SUFFICES ASSUME NEW s \in Active'
                 PROVE  s = keeper \/ sessions'[s].password = user.password \/ BeingRevoked(s)'
    BY <1>3 DEF SessionsAreWatched
  <2>4. s \in 1 .. new /\ sessions'[s].active
    BY <1>3, <2>3 DEF Active
  <2>5. CASE s \in DOMAIN sessions
    <3>1. s \in Active /\ sessions'[s] = sessions[s]
      BY <1>3, <2>4, <2>5 DEF Active
    <3>2. QED
      BY <1>9, <2>2, <3>1 DEF SessionsAreWatched
  <2>6. CASE s \notin DOMAIN sessions
    <3>1. sessions'[s] = [password |-> caller[t].read.password, active |-> TRUE]
      BY <1>3, <2>4, <2>6
    <3>2. QED
      BY <2>1, <3>1
  <2>7. QED
    BY <2>5, <2>6
<1>10. QED
  BY <1>6, <1>8, <1>9 DEF AccessInv

LEMMA LogoutKeeps ==
  ASSUME AccessInv, NEW s \in DOMAIN sessions, Logout(s), overtaken => overtaken'
  PROVE  AccessInv'
<1>1. /\ UNCHANGED <<user, made, proved, keeper, caller>>
      /\ DOMAIN sessions' = DOMAIN sessions
      /\ \A r \in DOMAIN sessions :
           /\ sessions'[r] \in [password : Nat, active : BOOLEAN]
           /\ sessions'[r].password = sessions[r].password
           /\ sessions'[r].active => sessions[r].active
  BY DEF Logout, AccessInv, AccountTypeOK
<1>2. AccountTypeOK' /\ MfaIsUsable' = MfaIsUsable
  BY <1>1 DEF AccessInv, AccountTypeOK, MfaIsUsable
<1>3. \A u \in Tasks : caller'[u].pc = "setup" => ~ caller'[u].read.mfaEnabled
  BY <1>1 DEF AccessInv
<1>4. ASSUME SessionsAreWatched PROVE SessionsAreWatched'
  BY <1>1, <1>4 DEF SessionsAreWatched, Active, BeingRevoked
<1>5. QED
  BY <1>2, <1>3, <1>4 DEF AccessInv

\* A step that writes the secret or the flag of the row, and ends its request.
LEMMA FactorKeeps ==
  ASSUME AccessInv, NEW t \in Tasks, caller[t].pc \in {"setup", "confirm", "disable"},
         caller' = [caller EXCEPT ![t] = Idle], UNCHANGED <<sessions, keeper>>,
         user' \in Account, user'.password = user.password, made' \in Nat,
         overtaken => overtaken', ~ overtaken' => MfaIsUsable'
  PROVE  AccessInv'
<1>1. AccountTypeOK'
  BY DEF AccessInv, AccountTypeOK
<1>2. caller'[t] = Idle /\ \A u \in Tasks : u # t => caller'[u] = caller[u]
  BY DEF AccessInv, AccountTypeOK
<1>3. \A u \in Tasks : caller'[u].pc = "setup" => ~ caller'[u].read.mfaEnabled
  BY <1>2 DEF AccessInv, Idle
<1>4. ASSUME SessionsAreWatched PROVE SessionsAreWatched'
  <2>1. \A s : BeingRevoked(s) => BeingRevoked(s)'
    BY <1>2 DEF BeingRevoked
  <2>2. QED
    BY <1>4, <2>1 DEF SessionsAreWatched, Active
<1>5. QED
  BY <1>1, <1>3, <1>4 DEF AccessInv

LEMMA AccessStep ==
  ASSUME AccessInv, AccessMoves, overtaken => overtaken'
  PROVE  AccessInv'
<1>1. /\ user \in [password : Nat, secret : Nat, mfaEnabled : BOOLEAN] /\ user \in Account
      /\ made \in Nat
      /\ \A t \in Tasks : caller[t] # Idle => caller[t] \in AccountCalls
      /\ Idle.pc = "idle"
  BY CallerOf DEF AccessInv, AccountTypeOK, Account, Idle
<1>2. ASSUME NEW t \in Tasks, NEW call \in AccountCalls, Calls(t, call),
             call.pc = "setup" => ~ call.read.mfaEnabled
      PROVE  AccessInv'
  BY <1>1, <1>2, CallerMovesKeep DEF Calls
<1>3. ASSUME NEW s \in DOMAIN sessions, Logout(s) PROVE AccessInv'
  BY <1>3, LogoutKeeps
<1>4. ASSUME NEW t \in Tasks, BeginLogin(t) \/ BeginDisable(t) \/ BeginConfirm(t) \/ BeginSetup(t)
      PROVE  AccessInv'
  <2>1. PICK call \in AccountCalls :
          Calls(t, call) /\ (call.pc = "setup" => ~ call.read.mfaEnabled)
    BY <1>1, <1>4 DEF BeginLogin, BeginDisable, BeginConfirm, BeginSetup, MayGenerate, AccountCalls
  <2>2. QED
    BY <1>2, <2>1
<1>5. ASSUME NEW t \in Tasks, NEW s \in DOMAIN sessions, BeginChange(t, s) PROVE AccessInv'
  <2>1. s \in Int
    BY <1>5 DEF AccessInv, AccountTypeOK
  <2>2. PICK call \in AccountCalls : call = [pc |-> "change", read |-> user, session |-> s]
    BY <1>1, <2>1 DEF AccountCalls
  <2>3. QED
    BY <1>2, <1>5, <2>2 DEF BeginChange
<1>6. ASSUME NEW t \in Tasks, ChangePassword(t) PROVE AccessInv'
  BY <1>6, ChangeKeeps
<1>7. ASSUME NEW t \in Tasks, RevokeSessions(t) PROVE AccessInv'
  BY <1>7, RevokeKeeps
<1>8. ASSUME NEW t \in Tasks, DisableMfa(t) PROVE AccessInv'
  <2>1. user' \in Account /\ user'.password = user.password /\ user'.mfaEnabled = FALSE
    BY <1>1, <1>8 DEF DisableMfa, Account
  <2>2. MfaIsUsable'
    BY <2>1 DEF MfaIsUsable
  <2>3. QED
    BY <1>1, <1>8, <2>1, <2>2, FactorKeeps DEF DisableMfa, Ends
<1>9. ASSUME NEW t \in Tasks, OpenSession(t), ~ overtaken' => ~ ReadStale(t) PROVE AccessInv'
  BY <1>9, OpenKeeps
<1>10. ASSUME NEW t \in Tasks, StoreSecret(t), ~ overtaken' => ~ ReadStale(t) PROVE AccessInv'
  <2>1. /\ caller[t].pc = "setup" /\ ~ caller[t].read.mfaEnabled
        /\ caller[t].read \in [password : Nat, secret : Nat, mfaEnabled : BOOLEAN]
    BY <1>1, <1>10, CallerOf DEF StoreSecret, AccessInv, Account
  <2>2. /\ user' \in Account /\ user'.password = user.password /\ made' \in Nat
        /\ user'.mfaEnabled = user.mfaEnabled
    BY <1>1, <1>10 DEF StoreSecret, Account
  <2>3. ASSUME ~ overtaken' PROVE MfaIsUsable'
    <3>1. user.mfaEnabled = caller[t].read.mfaEnabled
      BY <1>10, <2>1, <2>3 DEF ReadStale
    <3>2. QED
      BY <2>1, <2>2, <3>1 DEF MfaIsUsable
  <2>4. QED
    BY <1>10, <2>1, <2>2, <2>3, FactorKeeps DEF StoreSecret, Ends
<1>11. ASSUME NEW t \in Tasks, EnableMfa(t), ~ overtaken' => ~ ReadStale(t) PROVE AccessInv'
  <2>1. /\ user' \in Account /\ user'.password = user.password /\ user'.secret = user.secret
    BY <1>1, <1>11 DEF EnableMfa, Account
  <2>2. ASSUME ~ overtaken' PROVE MfaIsUsable'
    <3>1. user.secret = caller[t].read.secret
      BY <1>11, <2>2 DEF ReadStale, EnableMfa
    <3>2. QED
      BY <1>11, <2>1, <3>1 DEF MfaIsUsable, EnableMfa
  <2>3. QED
    BY <1>1, <1>11, <2>1, <2>2, FactorKeeps DEF EnableMfa, Ends
<1>12. ASSUME NEW t \in Tasks, CallerFails(t), ~ overtaken' => caller[t].pc # "revoke" PROVE AccessInv'
  <2>1. Idle.pc # "setup"
    BY <1>1
  <2>2. QED
    BY <1>12, <2>1, CallerMovesKeep DEF CallerFails, Ends
<1>13. CASE \E s \in DOMAIN sessions : Logout(s)
  BY <1>3, <1>13
<1>14. ASSUME NEW t \in Tasks,
              \/ \/ BeginLogin(t) \/ BeginDisable(t) \/ BeginConfirm(t) \/ BeginSetup(t)
                 \/ \E s \in DOMAIN sessions : BeginChange(t, s)
                 \/ ChangePassword(t) \/ RevokeSessions(t) \/ DisableMfa(t)
              \/ (OpenSession(t) \/ StoreSecret(t) \/ EnableMfa(t)) /\ (~ overtaken' => ~ ReadStale(t))
              \/ CallerFails(t) /\ (~ overtaken' => caller[t].pc # "revoke")
       PROVE  AccessInv'
  BY <1>4, <1>5, <1>6, <1>7, <1>8, <1>9, <1>10, <1>11, <1>12, <1>14
<1>15. QED
  BY <1>13, <1>14, Zenon DEF AccessMoves

LEMMA AccessBegins == ASSUME AccessInit, overtaken = FALSE PROVE AccessInv
<1>1. AccountTypeOK
  BY DEF AccessInit, AccountTypeOK, Account
<1>2. Active = {} /\ user.mfaEnabled = FALSE
  BY DEF AccessInit, Active
<1>3. SessionsAreWatched /\ MfaIsUsable
  BY <1>2 DEF SessionsAreWatched, MfaIsUsable
<1>4. \A t \in Tasks : caller[t].pc # "setup"
  BY DEF AccessInit, Idle
<1>5. QED
  BY <1>1, <1>3, <1>4 DEF AccessInv

LEMMA AccessRests ==
  ASSUME AccessInv, UNCHANGED accessVars, overtaken => overtaken'
  PROVE  AccessInv'
<1>1. AccountTypeOK' /\ MfaIsUsable' = MfaIsUsable
  BY DEF AccessInv, AccountTypeOK, MfaIsUsable, accessVars
<1>2. SessionsAreWatched' = SessionsAreWatched
  BY DEF SessionsAreWatched, Active, BeingRevoked, accessVars
<1>3. QED
  BY <1>1, <1>2 DEF AccessInv, accessVars

-----------------------------------------------------------------------------
(* Webhooks: the supplier was told no other secret than the one in force *)

SecretInv == 0 \notin told /\ (overtaken \/ SecretIsKept)

LEMMA SecretStep ==
  ASSUME WebhookInv, SecretInv, WebhookMoves, overtaken => overtaken'
  PROVE  SecretInv'
<1>1. CASE told' = told /\ supplier'.secret = supplier.secret
  BY <1>1 DEF SecretInv, SecretIsKept
<1>2. ASSUME NEW t \in Tasks, StoreWebhook(t), ~ overtaken' => ~ SecretOvertaken(t)
      PROVE  SecretInv'
  <2>1. courier[t] \in [pc : {"store"}, read : Supplier]
    BY <1>2 DEF StoreWebhook, WebhookInv, CourierCalls, Idle
  <2>2. courier[t].read.secret \in Nat /\ generated \in Nat /\ courier[t].pc = "store"
    BY <2>1, WebhookAssumption DEF Supplier, WebhookInv
  <2>3. PICK secret : secret = IF NeedsSecret(courier[t].read) THEN generated + 1
                              ELSE courier[t].read.secret
    OBVIOUS
  <2>4. told' = told \cup {secret} /\ supplier' = [url |-> TRUE, secret |-> secret]
    BY <1>2, <2>3, Zenon DEF StoreWebhook
  <2>5. secret # 0 /\ (courier[t].read.secret # 0 => secret = courier[t].read.secret)
    BY <2>2, <2>3 DEF NeedsSecret
  <2>6. supplier'.secret = secret
    BY <2>4
  <2>7. ASSUME ~ overtaken' PROVE SecretIsKept'
    <3>1. courier[t].read.secret = supplier.secret /\ SecretIsKept
      BY <1>2, <2>2, <2>7 DEF SecretOvertaken, SecretInv
    <3>2. \A old \in told : old = secret
      BY <2>5, <3>1 DEF SecretInv, SecretIsKept
    <3>3. QED
      BY <2>4, <2>6, <3>2 DEF SecretIsKept
  <2>8. 0 \notin told'
    BY <2>4, <2>5 DEF SecretInv
  <2>9. QED
    BY <2>7, <2>8 DEF SecretInv
<1>3. ASSUME NEW t \in Tasks,
             \/ BeginSetWebhook(t)
             \/ \E e \in Events : RaiseEvent(t, e)
             \/ \E i \in DOMAIN rows : RetryDelivery(t, i)
             \/ AttemptDelivery(t) \/ RecordDelivery(t) \/ CourierFails(t)
      PROVE  SecretInv'
  <2>1. told' = told /\ supplier' = supplier
    BY <1>3 DEF BeginSetWebhook, RaiseEvent, RetryDelivery, AttemptDelivery, RecordDelivery, CourierFails
  <2>2. QED
    BY <1>1, <2>1
<1>4. CASE DisableWebhook
  BY <1>1, <1>4 DEF DisableWebhook
<1>5. QED
  BY <1>2, <1>3, <1>4, Zenon DEF WebhookMoves

LEMMA SecretBegins == ASSUME WebhookInit, overtaken = FALSE PROVE SecretInv
BY DEF WebhookInit, SecretInv, SecretIsKept

LEMMA SecretRests ==
  ASSUME SecretInv, UNCHANGED webhookVars, overtaken => overtaken'
  PROVE  SecretInv'
BY DEF SecretInv, SecretIsKept, webhookVars

-----------------------------------------------------------------------------
(* Missions: an order stamped as delivered is delivered *)

OneAtATime == \A t, u \in Tasks : press[t] # Idle /\ press[u] # Idle => t = u

\* A request pressed on the order as it is asks for what the order still allows.
OnCourse(call) ==
  /\ call.pc \in {"count", "attempt", "proof", "check"} /\ call.to = "DELIVERED" =>
       canTransition(orderStatus, "DELIVERED")
  /\ call.pc = "commit" => canTransition(orderStatus, call.to)
  /\ call.pc = "pickup" => call.to # "DELIVERED"

Stamped == OneAtATime /\ (\A t \in Tasks : OnCourse(press[t])) /\ StampedIsDelivered

StampInv == overtaken \/ Stamped

LEMMA OnlyOneMoves ==
  ASSUME MissionTypeOK, NEW t \in Tasks, \A u \in Tasks : u # t => press[u] = Idle,
         NEW call \in {Idle} \cup PressCalls, press' = [press EXCEPT ![t] = call]
  PROVE  OneAtATime' /\ press'[t] = call /\ \A u \in Tasks : u # t => press'[u] = Idle
BY DEF MissionTypeOK, OneAtATime

\* The only request goes on: nothing is stamped that is not on its way to DELIVERED.
LEMMA StampMoves ==
  ASSUME MissionTypeOK, NEW t \in Tasks, \A u \in Tasks : u # t => press[u] = Idle,
         NEW call \in {Idle} \cup PressCalls, press' = [press EXCEPT ![t] = call],
         OnCourse(call)',
         delivery'.deliveredAt => orderStatus' = "DELIVERED" \/ (call # Idle /\ call.to = "DELIVERED")
  PROVE  Stamped'
<1>1. OneAtATime' /\ press'[t] = call /\ \A u \in Tasks : u # t => press'[u] = Idle
  BY OnlyOneMoves
<1>2. StampedIsDelivered'
  BY <1>1 DEF StampedIsDelivered
<1>3. ASSUME NEW u \in Tasks PROVE OnCourse(press[u])'
  <2>1. CASE u = t
    BY <1>1, <2>1 DEF OnCourse
  <2>2. CASE u # t
    <3>1. press'[u] = Idle /\ Idle.pc = "idle"
      BY <1>1, <2>2 DEF Idle
    <3>2. QED
      BY <3>1 DEF OnCourse
  <2>3. QED
    BY <2>1, <2>2
<1>4. QED
  BY <1>1, <1>2, <1>3 DEF Stamped

LEMMA TerminalStays ==
  /\ \A to : ~ canTransition("DELIVERED", to)
  /\ \A shown \in MissionStatus : ResultButtons(shown) # {} => canTransition(shown, "DELIVERED")
BY DEF canTransition, ORDER_TRANSITIONS, OrderStatus, TERMINAL_STATUSES, FAILURE_STATUSES,
       ResultButtons, MissionStatus

\* A button pressed on an up-to-date screen while nothing else runs.
LEMMA PressedInTime ==
  ASSUME MissionInv, Stamped, NEW t \in Tasks, screen = orderStatus,
         \A u \in Tasks : press[u] = Idle,
         \/ \E to \in MissionStatus : PressStatus(t, to)
         \/ \E result \in Outcomes : PressResult(t, result)
         \/ PressCancel(t)
  PROVE  Stamped'
<1>1. MissionTypeOK
  BY DEF MissionInv
<1>2. delivery.deliveredAt => orderStatus = "DELIVERED"
  BY DEF Stamped, StampedIsDelivered
<1>3. ASSUME NEW call \in PressCalls, Asks(t, call), call.pc \in {"check", "count"},
             call.to = "DELIVERED" => canTransition(orderStatus, "DELIVERED")
      PROVE  Stamped'
  <2>1. OnCourse(call)'
    BY <1>3 DEF OnCourse, Asks
  <2>2. QED
    BY <1>1, <1>2, <1>3, <2>1, StampMoves DEF Asks
<1>4. ASSUME NEW to \in MissionStatus, PressStatus(t, to) PROVE Stamped'
  <2>1. to # "DELIVERED"
    BY <1>1, <1>4, StatusButtonsAskNoOutcome DEF PressStatus, MissionTypeOK
  <2>2. PICK call \in PressCalls : call = [pc |-> "check", to |-> to]
    BY DEF PressCalls
  <2>3. QED
    BY <1>3, <1>4, <2>1, <2>2 DEF PressStatus
<1>5. ASSUME NEW result \in Outcomes, PressResult(t, result) PROVE Stamped'
  <2>1. PICK call : call = [pc |-> "count", result |-> result,
                            to |-> ATTEMPT_RESULT_TO_ORDER_STATUS[result]]
    OBVIOUS
  <2>2. call \in PressCalls /\ call.pc = "count"
    BY <2>1, MissionAssumption, OutcomesHaveAStatus DEF PressCalls
  <2>3. canTransition(orderStatus, "DELIVERED")
    BY <1>1, <1>5, TerminalStays DEF PressResult, MissionTypeOK
  <2>4. QED
    BY <1>3, <1>5, <2>1, <2>2, <2>3 DEF PressResult
<1>6. CASE PressCancel(t)
  <2>1. PICK call \in PressCalls : call = [pc |-> "check", to |-> "CANCELLED"]
    BY DEF PressCalls, MissionStatus, OrderStatus
  <2>2. QED
    BY <1>3, <1>6, <2>1 DEF PressCancel
<1>7. QED
  BY <1>4, <1>5, <1>6

\* The request that runs alone goes through its awaits.
LEMMA PressGoesOn ==
  ASSUME MissionInv, Stamped, NEW t \in Tasks,
         \/ CountAttempts(t) \/ StoreAttempt(t) \/ StoreProof(t)
         \/ CheckTransition(t) \/ CommitTransition(t) \/ StampPickup(t)
  PROVE  Stamped'
<1>1. /\ MissionTypeOK /\ PressIsBacked(press[t]) /\ OnCourse(press[t]) /\ press[t] # Idle
      /\ Idle.pc = "idle" /\ Idle \in {Idle} \cup PressCalls
  <2>1. Idle.pc = "idle"
    BY DEF Idle
  <2>2. press[t].pc \in {"count", "attempt", "proof", "check", "commit", "pickup"}
    BY DEF CountAttempts, StoreAttempt, StoreProof, CheckTransition, CommitTransition, StampPickup
  <2>3. QED
    BY <2>1, <2>2 DEF MissionInv, Stamped
<1>2. \A u \in Tasks : u # t => press[u] = Idle
  BY <1>1 DEF Stamped, OneAtATime
<1>3. delivery.deliveredAt => orderStatus = "DELIVERED" \/ press[t].to = "DELIVERED"
  BY <1>1, <1>2 DEF Stamped, StampedIsDelivered
<1>4. CASE CountAttempts(t)
  <2>1. PICK n : n = Len(attempts) + 1
    OBVIOUS
  <2>2. PICK call : call = [pc |-> "attempt", result |-> press[t].result, to |-> press[t].to,
                            number |-> n]
    OBVIOUS
  <2>3. n \in 1 .. MaxAttempts + 1
    BY <1>1, <2>1, AttemptsAreASequence, MissionAssumption
  <2>4. call \in PressCalls /\ call.pc = "attempt" /\ call.to = press[t].to
    BY <1>1, <1>4, <2>2, <2>3, CallOf DEF PressCalls, CountAttempts
  <2>5. /\ press' = [press EXCEPT ![t] = call] /\ UNCHANGED <<orderStatus, delivery>>
        /\ press[t].pc = "count"
    BY <1>4, <2>1, <2>2 DEF CountAttempts, NextNumber
  <2>6. OnCourse(call)'
    BY <1>1, <2>4, <2>5 DEF OnCourse
  <2>7. call # Idle
    BY <1>1, <2>4
  <2>8. QED
    BY <1>1, <1>2, <1>3, <2>4, <2>5, <2>6, <2>7, StampMoves
<1>5. CASE StoreAttempt(t)
  <2>1. /\ press[t].pc = "attempt" /\ press[t].result \in Results /\ press[t].to \in MissionStatus
        /\ UNCHANGED <<orderStatus, delivery>>
    BY <1>1, <1>5, CallOf DEF StoreAttempt
  <2>2. PICK call \in PressCalls :
          /\ press' = [press EXCEPT ![t] = call]
          /\ call.pc \in {"proof", "check"} /\ call.to = press[t].to
    <3>1. PICK proving \in PressCalls :
            proving = [pc |-> "proof", result |-> press[t].result, to |-> press[t].to]
      BY <2>1 DEF PressCalls
    <3>2. PICK checking \in PressCalls : checking = [pc |-> "check", to |-> press[t].to]
      BY <2>1 DEF PressCalls
    <3>3. press' = [press EXCEPT ![t] = proving] \/ press' = [press EXCEPT ![t] = checking]
      BY <1>5, <3>1, <3>2 DEF StoreAttempt
    <3>4. QED
      BY <3>1, <3>2, <3>3
  <2>3. OnCourse(call)'
    BY <1>1, <2>1, <2>2 DEF OnCourse
  <2>4. call # Idle
    BY <1>1, <2>2
  <2>5. QED
    BY <1>1, <1>2, <1>3, <2>1, <2>2, <2>3, <2>4, StampMoves
<1>6. CASE StoreProof(t)
  <2>1. press[t].pc = "proof" /\ press[t].to = "DELIVERED" /\ orderStatus' = orderStatus
    BY <1>1, <1>6, CallOf, OutcomesHaveAStatus DEF PressIsBacked, StatusAsked, StoreProof
  <2>2. PICK call \in PressCalls : call = [pc |-> "check", to |-> "DELIVERED"]
    BY DEF PressCalls, MissionStatus, OrderStatus
  <2>3. OnCourse(call)'
    BY <1>1, <2>1, <2>2 DEF OnCourse
  <2>4. press' = [press EXCEPT ![t] = call]
    BY <1>6, <2>1, <2>2 DEF StoreProof
  <2>5. call # Idle /\ call.to = "DELIVERED"
    BY <1>1, <2>2
  <2>6. QED
    BY <1>1, <1>2, <2>3, <2>4, <2>5, StampMoves
<1>7. CASE CheckTransition(t)
  <2>1. /\ press[t].pc = "check" /\ UNCHANGED <<orderStatus, delivery>>
        /\ press[t] \in [pc : {"check", "commit", "pickup"}, to : MissionStatus]
    BY <1>1, <1>7, CallOf DEF CheckTransition
  <2>2. PICK to \in MissionStatus : press[t] = [pc |-> "check", to |-> to]
    BY <2>1
  <2>3. CASE canTransition(orderStatus, to)
    <3>1. PICK call \in PressCalls : call = [pc |-> "commit", to |-> to]
      BY DEF PressCalls
    <3>2. press' = [press EXCEPT ![t] = call] /\ call # Idle
      <4>1. press' = Goto(press, t, "commit")
        BY <1>7, <2>2, <2>3 DEF CheckTransition
      <4>2. Goto(press, t, "commit") = [press EXCEPT ![t] = call]
        <5>1. Goto(press, t, "commit") = [press EXCEPT ![t] = [pc |-> "commit", to |-> to]]
          BY <2>2, GotoKeepsTo
        <5>2. QED
          BY <3>1, <5>1
      <4>3. call # Idle
        BY <1>1, <3>1
      <4>4. QED
        BY <4>1, <4>2, <4>3
    <3>3. OnCourse(call)'
      BY <2>1, <2>3, <3>1 DEF OnCourse
    <3>4. delivery'.deliveredAt => orderStatus' = "DELIVERED" \/ call.to = "DELIVERED"
      BY <1>3, <2>1, <2>2, <3>1
    <3>5. QED
      BY <1>1, <1>2, <3>2, <3>3, <3>4, StampMoves
  <2>4. CASE ~ canTransition(orderStatus, to)
    <3>1. press' = [press EXCEPT ![t] = Idle]
      BY <1>7, <2>2, <2>4 DEF CheckTransition, Ends
    <3>2. to # "DELIVERED"
      BY <1>1, <2>1, <2>2, <2>4 DEF OnCourse
    <3>3. OnCourse(Idle)'
      BY <1>1 DEF OnCourse
    <3>4. delivery'.deliveredAt => orderStatus' = "DELIVERED"
      BY <1>3, <2>1, <2>2, <3>2
    <3>5. QED
      BY <1>1, <1>2, <3>1, <3>3, <3>4, StampMoves
  <2>5. QED
    BY <2>3, <2>4
<1>8. CASE CommitTransition(t)
  <2>1. /\ press[t].pc = "commit" /\ delivery' = delivery
        /\ press[t] \in [pc : {"check", "commit", "pickup"}, to : MissionStatus]
    BY <1>1, <1>8, CallOf DEF CommitTransition
  <2>2. PICK to \in MissionStatus : press[t] = [pc |-> "commit", to |-> to]
    BY <2>1
  <2>3. orderStatus' = to /\ canTransition(orderStatus, to)
    BY <1>1, <1>8, <2>1, <2>2 DEF CommitTransition, OnCourse
  <2>4. delivery'.deliveredAt => to = "DELIVERED"
    BY <1>3, <2>1, <2>2, <2>3, TerminalStays
  <2>5. CASE to = "PICKED_UP"
    <3>1. PICK call \in PressCalls : call = [pc |-> "pickup", to |-> to]
      BY DEF PressCalls
    <3>2. press' = [press EXCEPT ![t] = call]
      <4>1. press' = Goto(press, t, "pickup")
        BY <1>8, <2>2, <2>5 DEF CommitTransition
      <4>2. Goto(press, t, "pickup") = [press EXCEPT ![t] = call]
        <5>1. Goto(press, t, "pickup") = [press EXCEPT ![t] = [pc |-> "pickup", to |-> to]]
          BY <2>2, GotoKeepsTo
        <5>2. QED
          BY <3>1, <5>1
      <4>3. QED
        BY <4>1, <4>2
    <3>3. OnCourse(call)'
      BY <2>5, <3>1 DEF OnCourse
    <3>4. QED
      BY <1>1, <1>2, <2>3, <2>4, <3>2, <3>3, StampMoves
  <2>6. CASE to # "PICKED_UP"
    <3>1. press' = [press EXCEPT ![t] = Idle]
      BY <1>8, <2>2, <2>6 DEF CommitTransition, Ends
    <3>2. OnCourse(Idle)'
      BY <1>1 DEF OnCourse
    <3>3. QED
      BY <1>1, <1>2, <2>3, <2>4, <3>1, <3>2, StampMoves
  <2>7. QED
    BY <2>5, <2>6
<1>9. CASE StampPickup(t)
  <2>1. /\ press[t].pc = "pickup" /\ orderStatus' = orderStatus
        /\ press' = [press EXCEPT ![t] = Idle]
    BY <1>9 DEF StampPickup, Ends
  <2>2. delivery'.deliveredAt = delivery.deliveredAt
    BY <1>1, <1>9 DEF StampPickup, MissionTypeOK
  <2>3. press[t].to # "DELIVERED"
    BY <1>1, <2>1 DEF OnCourse
  <2>4. OnCourse(Idle)'
    BY <1>1 DEF OnCourse
  <2>5. QED
    BY <1>1, <1>2, <1>3, <2>1, <2>2, <2>3, <2>4, StampMoves
<1>10. QED
  BY <1>4, <1>5, <1>6, <1>7, <1>8, <1>9

LEMMA StampStep ==
  ASSUME MissionInv, StampInv, MissionMoves, overtaken => overtaken'
  PROVE  StampInv'
<1>1. SUFFICES ASSUME ~ overtaken', Stamped PROVE Stamped'
  BY DEF StampInv
<1>2. CASE RefreshScreen
  BY <1>1, <1>2 DEF RefreshScreen, Stamped, OneAtATime, OnCourse, StampedIsDelivered
<1>3. ASSUME NEW t \in Tasks, ~ (screen # orderStatus \/ \E u \in Tasks : press[u] # Idle),
             \/ \E to \in MissionStatus : PressStatus(t, to)
             \/ \E result \in Outcomes : PressResult(t, result)
             \/ PressCancel(t)
      PROVE  Stamped'
  BY <1>1, <1>3, PressedInTime
<1>4. ASSUME NEW t \in Tasks,
             \/ CountAttempts(t) \/ StoreAttempt(t) \/ StoreProof(t)
             \/ CheckTransition(t) \/ CommitTransition(t) \/ StampPickup(t)
      PROVE  Stamped'
  BY <1>1, <1>4, PressGoesOn
<1>5. QED
  BY <1>1, <1>2, <1>3, <1>4, Zenon DEF MissionMoves

LEMMA StampBegins == ASSUME MissionInit, overtaken = FALSE PROVE StampInv
BY DEF MissionInit, StampInv, Stamped, OneAtATime, OnCourse, StampedIsDelivered, Idle

LEMMA StampRests ==
  ASSUME StampInv, UNCHANGED missionVars, overtaken => overtaken'
  PROVE  StampInv'
BY DEF StampInv, Stamped, OneAtATime, OnCourse, StampedIsDelivered, missionVars

-----------------------------------------------------------------------------
(* What holds unless a request was overtaken *)

(***************************************************************************)
(* The services share no state: a behaviour of the back office is one of   *)
(* each of them, so what is proved of one holds in their composition.      *)
(***************************************************************************)
THEOREM ServicesAreThere ==
  /\ BackOfficeSpec => SettlementSpec /\ ReferralSpec /\ DocumentSpec /\ OnboardingSpec
  /\ BackOfficeSpec => ExceptionSpec /\ TicketSpec /\ AccessSpec /\ WebhookSpec
  /\ BackOfficeSpec => MissionSpec /\ Spec /\ ConsoleSpec /\ PagesSpec
<1>1. BackOfficeInit =>
        /\ SettlementInit /\ ReferralInit /\ DocumentInit /\ OnboardingInit
        /\ ExceptionInit /\ TicketInit /\ AccessInit /\ WebhookInit
        /\ MissionInit /\ Init /\ ConsoleInit /\ PagesInit
  BY DEF BackOfficeInit
<1>2. TicketMoves => TicketNext
  BY DEF TicketMoves, TicketNext
<1>3. AccessMoves => AccessNext
  BY DEF AccessMoves, AccessNext
<1>4. WebhookMoves => WebhookNext
  BY DEF WebhookMoves, WebhookNext
<1>5. MissionMoves => MissionNext
  BY DEF MissionMoves, MissionNext
<1>6. [BackOfficeNext]_officeVars =>
        /\ [SettlementNext]_settlementVars /\ [ReferralNext]_referralVars
        /\ [DocumentNext]_documentVars /\ [OnboardingNext]_onboardingVars
        /\ [ExceptionNext]_exceptionVars /\ [TicketNext]_ticketVars
        /\ [AccessNext]_accessVars /\ [WebhookNext]_webhookVars
        /\ [MissionNext]_missionVars /\ [Next]_vars
        /\ [ConsoleNext]_consoleVars /\ [PagesNext]_pageVars
  BY <1>2, <1>3, <1>4, <1>5, ServicesStep
<1>7. QED
  BY <1>1, <1>6, PTL
  DEF BackOfficeSpec, SettlementSpec, ReferralSpec, DocumentSpec, OnboardingSpec, ExceptionSpec,
      TicketSpec, AccessSpec, WebhookSpec, MissionSpec, Spec, ConsoleSpec, PagesSpec

OvertakenInv == TicketInv /\ AccessInv /\ SecretInv /\ StampInv

(***************************************************************************)
(* As long as no request wrote from a row changed since, no button was     *)
(* pressed on an outdated screen and no request died on its way, whatever  *)
(* else races: a ticket is closed by somebody whose page showed every      *)
(* message (support.service.ts), sessions follow the password and a second *)
(* factor is usable (auth.service.ts), the supplier has the secret in      *)
(* force (webhooks.service.ts) and what is stamped as delivered is         *)
(* (deliveries.service.ts).                                                *)
(***************************************************************************)
THEOREM OvertakingAloneBreaks == BackOfficeSpec => []KeptUnlessOvertaken
<1>1. BackOfficeInit => OvertakenInv
  BY TicketsInit, AccessBegins, SecretBegins, StampBegins DEF BackOfficeInit, OvertakenInv
<1>2. ASSUME OvertakenInv, WebhookInv, MissionInv, [BackOfficeNext]_officeVars
      PROVE  OvertakenInv'
  <2>1. overtaken => overtaken'
    BY <1>2, OvertakenStays
  <2>2. TicketInv'
    BY <1>2, <2>1, ServicesStep, TicketStep, TicketsRest DEF OvertakenInv
  <2>3. AccessInv'
    BY <1>2, <2>1, ServicesStep, AccessStep, AccessRests DEF OvertakenInv
  <2>4. SecretInv'
    BY <1>2, <2>1, ServicesStep, SecretStep, SecretRests DEF OvertakenInv
  <2>5. StampInv'
    BY <1>2, <2>1, ServicesStep, StampStep, StampRests DEF OvertakenInv
  <2>6. QED
    BY <2>2, <2>3, <2>4, <2>5 DEF OvertakenInv
<1>3. OvertakenInv => KeptUnlessOvertaken
  <2>1. SessionsAreWatched => SessionsFollowPassword
    BY DEF SessionsAreWatched, SessionsFollowPassword, BeingRevoked, At
  <2>2. QED
    BY <2>1 DEF OvertakenInv, TicketInv, AccessInv, SecretInv, StampInv, Stamped, KeptUnlessOvertaken
<1>4. BackOfficeSpec => []WebhookInv
  BY ServicesAreThere, WebhookInvariant, PTL
<1>5. BackOfficeSpec => []MissionInv
  BY ServicesAreThere, Invariance, PTL
<1>6. QED
  BY <1>1, <1>2, <1>3, <1>4, <1>5, PTL DEF BackOfficeSpec

-----------------------------------------------------------------------------
(* Counting: what is written once per request that ran at once *)

\* The rows there are, and the requests that are about to add one.
PerRequest(found, asking) ==
  /\ IsFiniteSet(found)
  /\ Cardinality(found) + Cardinality(asking) <= Cardinality(Tasks)

LEMMA TasksAreFinite ==
  ASSUME NEW asking \in SUBSET Tasks
  PROVE  /\ IsFiniteSet(asking) /\ Cardinality(asking) \in Nat
         /\ Cardinality(Tasks) \in Nat /\ Cardinality(asking) <= Cardinality(Tasks)
BY TasksAssumption, FS_Subset, FS_CardinalityType

\* Who finds nothing may ask.
LEMMA NothingFound == ASSUME NEW asking \in SUBSET Tasks PROVE PerRequest({}, asking)
BY TasksAreFinite, FS_EmptySet DEF PerRequest

LEMMA NoMoreFound ==
  ASSUME NEW asking \in SUBSET Tasks, NEW found, PerRequest(found, asking),
         NEW fewer \in SUBSET asking, NEW less \in SUBSET found
  PROVE  PerRequest(less, fewer)
<1>1. /\ IsFiniteSet(less) /\ Cardinality(less) \in Nat /\ Cardinality(found) \in Nat
      /\ Cardinality(less) <= Cardinality(found)
  BY FS_Subset, FS_CardinalityType DEF PerRequest
<1>2. /\ Cardinality(asking) \in Nat /\ IsFiniteSet(asking) /\ Cardinality(Tasks) \in Nat
  BY TasksAreFinite
<1>3. Cardinality(fewer) \in Nat /\ Cardinality(fewer) <= Cardinality(asking)
  BY <1>2, FS_Subset, FS_CardinalityType
<1>4. QED
  BY <1>1, <1>2, <1>3 DEF PerRequest

\* Who writes a row asks no longer.
LEMMA OneMoreFound ==
  ASSUME NEW asking \in SUBSET Tasks, NEW found, PerRequest(found, asking),
         NEW t \in asking, NEW row
  PROVE  PerRequest(found \cup {row}, asking \ {t})
<1>1. /\ IsFiniteSet(asking) /\ Cardinality(asking) \in Nat /\ Cardinality(Tasks) \in Nat
      /\ IsFiniteSet(found) /\ Cardinality(found) \in Nat
      /\ Cardinality(found) + Cardinality(asking) <= Cardinality(Tasks)
  BY TasksAreFinite, FS_CardinalityType DEF PerRequest
<1>2. Cardinality(asking \ {t}) = Cardinality(asking) - 1
  BY <1>1, FS_RemoveElement, Zenon
<1>3. /\ IsFiniteSet(found \cup {row})
      /\ \/ Cardinality(found \cup {row}) = Cardinality(found)
         \/ Cardinality(found \cup {row}) = Cardinality(found) + 1
  BY <1>1, FS_AddElement, Zenon
<1>4. QED
  BY <1>1, <1>2, <1>3 DEF PerRequest

\* Rows that are written over are not more than they were.
LEMMA RowsWrittenOver ==
  ASSUME NEW asking \in SUBSET Tasks, NEW found, PerRequest(found, asking),
         NEW fewer \in SUBSET asking, NEW written, NEW f \in [found -> written],
         \A row \in written : \E old \in found : f[old] = row
  PROVE  PerRequest(written, fewer)
<1>1. f \in Surjection(found, written) /\ IsFiniteSet(found)
  BY DEF Surjection, PerRequest
<1>2. IsFiniteSet(written) /\ Cardinality(written) <= Cardinality(found)
  BY <1>1, FS_Surjection
<1>3. PerRequest(found, fewer)
  BY NoMoreFound
<1>4. /\ Cardinality(written) \in Nat /\ Cardinality(found) \in Nat
      /\ Cardinality(fewer) \in Nat /\ Cardinality(Tasks) \in Nat
  BY <1>1, <1>2, FS_CardinalityType, TasksAreFinite
<1>5. QED
  BY <1>2, <1>3, <1>4 DEF PerRequest

-----------------------------------------------------------------------------
(* Settlements: an order is paid out once per request that ran at once *)

PayoutsOf(o) == {row \in payouts : row.order = o}

PayoutInv == \A o \in SettlableOrders : PerRequest(PayoutsOf(o), Settling(o))

LEMMA SettlingIsByTasks == \A o : Settling(o) \in SUBSET Tasks /\ Settling(o)' \in SUBSET Tasks
BY DEF Settling, At

\* Steps that move a request away from settling, or never had it there.
LEMMA PayoutsRest ==
  ASSUME ClerkTypeOK, PayoutInv, payouts' = payouts,
         \A t \in Tasks : clerk'[t].pc = "settle" => clerk'[t] = clerk[t]
  PROVE  PayoutInv'
<1>1. ASSUME NEW o \in SettlableOrders PROVE PerRequest(PayoutsOf(o)', Settling(o)')
  <2>1. PayoutsOf(o)' = PayoutsOf(o) /\ Settling(o)' \in SUBSET Settling(o)
    BY DEF PayoutsOf, Settling, At
  <2>2. PerRequest(PayoutsOf(o), Settling(o))
    BY DEF PayoutInv
  <2>3. QED
    BY <2>1, <2>2, SettlingIsByTasks, NoMoreFound
<1>2. QED
  BY <1>1 DEF PayoutInv, PerRequest

LEMMA ReadingFindsNoPayout ==
  ASSUME ClerkTypeOK, PayoutInv, NEW t \in Tasks, ReadSettlable(t)
  PROVE  PayoutInv'
<1>1. /\ payouts' = payouts
      /\ clerk'[t].pc = "settle" /\ clerk'[t].orders = Settlable
      /\ \A u \in Tasks \ {t} : clerk'[u] = clerk[u]
  BY DEF ReadSettlable, ClerkTypeOK
<1>2. ASSUME NEW o \in SettlableOrders PROVE PerRequest(PayoutsOf(o)', Settling(o)')
  <2>1. PerRequest(PayoutsOf(o), Settling(o)) /\ PayoutsOf(o)' = PayoutsOf(o)
    BY <1>1 DEF PayoutInv, PayoutsOf
  <2>2. CASE o \in Settlable
    <3>1. PayoutsOf(o) = {}
      BY <2>2 DEF Settlable, PaidOut, PayoutsOf
    <3>2. QED
      BY <2>1, <3>1, SettlingIsByTasks, NothingFound
  <2>3. CASE o \notin Settlable
    <3>1. Settling(o)' \in SUBSET Settling(o)
      BY <1>1, <2>3 DEF Settling, At
    <3>2. QED
      BY <2>1, <3>1, SettlingIsByTasks, NoMoreFound
  <2>4. QED
    BY <2>2, <2>3
<1>3. QED
  BY <1>2 DEF PayoutInv, PerRequest

LEMMA CreatingPaysOnce ==
  ASSUME ClerkTypeOK, PayoutInv, NEW t \in Tasks, CreateSettlement(t)
  PROVE  PayoutInv'
<1>1. PICK n : n = Len(settlements')
  OBVIOUS
<1>2. PICK orders : orders = clerk[t].orders
  OBVIOUS
<1>3. payouts' = payouts \cup {[order |-> o, settlement |-> n, status |-> "PENDING"] : o \in orders}
  BY <1>1, <1>2 DEF CreateSettlement
<1>4. /\ clerk[t].pc = "settle" /\ clerk'[t].pc = "idle"
      /\ \A u \in Tasks \ {t} : clerk'[u] = clerk[u]
  BY DEF CreateSettlement, ClerkTypeOK, Ends, Idle
<1>5. ASSUME NEW o \in SettlableOrders PROVE PerRequest(PayoutsOf(o)', Settling(o)')
  <2>1. PerRequest(PayoutsOf(o), Settling(o)) /\ Settling(o)' = Settling(o) \ {t}
    BY <1>4 DEF PayoutInv, Settling, At
  <2>2. CASE o \in orders
    <3>1. PICK row : row = [order |-> o, settlement |-> n, status |-> "PENDING"]
      OBVIOUS
    <3>2. PayoutsOf(o)' = PayoutsOf(o) \cup {row}
      BY <1>3, <2>2, <3>1 DEF PayoutsOf
    <3>3. t \in Settling(o)
      BY <1>2, <1>4, <2>2 DEF Settling, At
    <3>4. Settling(o) \in SUBSET Tasks
      BY SettlingIsByTasks
    <3>5. PerRequest(PayoutsOf(o) \cup {row}, Settling(o) \ {t})
      BY <2>1, <3>3, <3>4, OneMoreFound
    <3>6. QED
      BY <2>1, <3>2, <3>5
  <2>3. CASE o \notin orders
    <3>1. PayoutsOf(o)' = PayoutsOf(o)
      BY <1>3, <2>3 DEF PayoutsOf
    <3>2. QED
      BY <2>1, <3>1, SettlingIsByTasks, NoMoreFound
  <2>4. QED
    BY <2>2, <2>3
<1>6. QED
  BY <1>5 DEF PayoutInv, PerRequest

LEMMA WritingKeepsPayouts ==
  ASSUME ClerkTypeOK, PayoutInv, NEW t \in Tasks, WriteSettlement(t)
  PROVE  PayoutInv'
<1>1. PICK s, to : s = clerk[t].settlement /\ to = clerk[t].to
  OBVIOUS
<1>2. payouts' = RowsAfter(s, to)
  BY <1>1 DEF WriteSettlement
<1>3. /\ clerk'[t].pc = "idle"
      /\ \A u \in Tasks \ {t} : clerk'[u] = clerk[u]
  BY DEF WriteSettlement, ClerkTypeOK, Ends, Idle
<1>4. CASE to # "PAID"
  BY <1>2, <1>3, <1>4, PayoutsRest DEF RowsAfter
<1>5. CASE to = "PAID"
  <2>1. ASSUME NEW o \in SettlableOrders PROVE PerRequest(PayoutsOf(o)', Settling(o)')
    <3>1. PerRequest(PayoutsOf(o), Settling(o)) /\ Settling(o)' \in SUBSET Settling(o)
      BY <1>3 DEF PayoutInv, Settling, At
    <3>2. PICK f : f = [row \in PayoutsOf(o) |-> IF row.settlement = s THEN Confirmed(row) ELSE row]
      OBVIOUS
    <3>3. \A row \in payouts : Confirmed(row).order = row.order
      BY DEF ClerkTypeOK, Payouts, Confirmed
    <3>4. PICK written : written = PayoutsOf(o)'
      OBVIOUS
    <3>5. written = {row \in RowsAfter(s, to) : row.order = o}
      BY <1>2, <3>4 DEF PayoutsOf
    <3>6. RowsAfter(s, to) = {IF row.settlement = s THEN Confirmed(row) ELSE row : row \in payouts}
      BY <1>5 DEF RowsAfter
    <3>7. ASSUME NEW row \in PayoutsOf(o) PROVE f[row] \in written
      <4>1. row \in payouts /\ row.order = o
        BY <3>7 DEF PayoutsOf
      <4>2. f[row] \in RowsAfter(s, to) /\ f[row].order = o
        BY <3>2, <3>3, <3>6, <3>7, <4>1
      <4>3. QED
        BY <3>5, <4>2
    <3>8. f \in [PayoutsOf(o) -> written]
      BY <3>2, <3>7
    <3>9. ASSUME NEW row \in written PROVE \E old \in PayoutsOf(o) : f[old] = row
      <4>1. PICK old \in payouts : row = IF old.settlement = s THEN Confirmed(old) ELSE old
        BY <3>5, <3>6, <3>9
      <4>2. old.order = o
        BY <3>3, <3>5, <3>9, <4>1
      <4>3. old \in PayoutsOf(o)
        BY <4>1, <4>2 DEF PayoutsOf
      <4>4. QED
        BY <3>2, <4>1, <4>3
    <3>10. QED
      BY <3>1, <3>4, <3>8, <3>9, SettlingIsByTasks, RowsWrittenOver
  <2>2. QED
    BY <2>1 DEF PayoutInv, PerRequest
<1>6. QED
  BY <1>4, <1>5

LEMMA PayoutsStep ==
  ASSUME SettlementInv, PayoutInv, [SettlementNext]_settlementVars
  PROVE  PayoutInv'
<1>1. ClerkTypeOK
  BY DEF SettlementInv
<1>2. CASE UNCHANGED settlementVars
  BY <1>1, <1>2, PayoutsRest DEF settlementVars
<1>3. ASSUME NEW o \in SettlableOrders, ConfirmOrder(o) PROVE PayoutInv'
  BY <1>1, <1>3, PayoutsRest DEF ConfirmOrder
<1>4. ASSUME NEW t \in Tasks, ReadSettlable(t) PROVE PayoutInv'
  BY <1>1, <1>4, ReadingFindsNoPayout
<1>5. ASSUME NEW t \in Tasks, CreateSettlement(t) PROVE PayoutInv'
  BY <1>1, <1>5, CreatingPaysOnce
<1>6. ASSUME NEW t \in Tasks, NEW s, PressSettlementButton(t, s) PROVE PayoutInv'
  <2>1. /\ payouts' = payouts /\ clerk'[t].pc = "check"
        /\ \A u \in Tasks \ {t} : clerk'[u] = clerk[u]
    BY <1>1, <1>6 DEF PressSettlementButton, ClerkTypeOK
  <2>2. QED
    BY <1>1, <2>1, PayoutsRest
<1>7. ASSUME NEW t \in Tasks, AssertSettlementTransition(t) PROVE PayoutInv'
  <2>1. clerk[t] \in [pc : {"check", "write"}, settlement : Nat, to : SettlementStatus]
    BY <1>1, <1>7 DEF AssertSettlementTransition, ClerkTypeOK, ClerkCalls, Idle
  <2>2. /\ payouts' = payouts /\ clerk'[t].pc \in {"write", "idle"}
        /\ \A u \in Tasks \ {t} : clerk'[u] = clerk[u]
    BY <1>1, <1>7, <2>1 DEF AssertSettlementTransition, ClerkTypeOK, Goto, Ends, Idle
  <2>3. QED
    BY <1>1, <2>2, PayoutsRest
<1>8. ASSUME NEW t \in Tasks, WriteSettlement(t) PROVE PayoutInv'
  BY <1>1, <1>8, WritingKeepsPayouts
<1>9. ASSUME NEW t \in Tasks, ClerkFails(t) PROVE PayoutInv'
  BY <1>1, <1>9, PayoutsRest DEF ClerkFails, ClerkTypeOK, Ends, Idle
<1>10. QED
  BY <1>2, <1>3, <1>4, <1>5, <1>6, <1>7, <1>8, <1>9 DEF SettlementNext

LEMMA PayoutsBegin == ASSUME SettlementInit PROVE PayoutInv
<1>1. \A o : PayoutsOf(o) = {}
  BY DEF SettlementInit, PayoutsOf
<1>2. QED
  BY <1>1, SettlingIsByTasks, NothingFound DEF PayoutInv

LEMMA PayoutsArePerRequest == SettlementSpec => []PayoutsPerRequest
<1>1. PayoutInv => PayoutsPerRequest
  BY DEF PayoutInv, PayoutsPerRequest, PerRequest, PayoutsOf
<1>2. QED
  BY <1>1, PayoutsBegin, PayoutsStep, SettlementInvariant, PTL DEF SettlementSpec

-----------------------------------------------------------------------------
(* Referrals: the bonus is paid once per request that ran at once *)

Milestone == Cardinality(deliveredAt) >= MILESTONE

BonusInv ==
  /\ IsFiniteSet(deliveredAt)
  /\ rewarded \in BOOLEAN /\ bonuses \in Nat
  /\ wallets \in [{"referrer", "referee"} -> Nat]
  /\ rider \in [Tasks -> {Idle} \cup RiderCalls]
  /\ bonuses > 0 => rewarded /\ Milestone
  /\ \A t \in Tasks : rider[t].pc = "reward" => Milestone
  /\ bonuses + Cardinality(Rewarding) <= Cardinality(Tasks)
  /\ wallets["referrer"] = bonuses * REFERRER_BONUS_AMOUNT
  /\ wallets["referee"] = bonuses * REFEREE_BONUS_AMOUNT

LEMMA RewardingIsByTasks == Rewarding \in SUBSET Tasks /\ Rewarding' \in SUBSET Tasks
BY DEF Rewarding

\* The request of t is about its trip at every await.
LEMMA RiderGoes ==
  ASSUME BonusInv, NEW t \in Tasks, rider[t] # Idle,
         NEW pc \in {"store", "move.check", "move.commit", "milestone", "count", "reward"},
         rider' = Goto(rider, t, pc)
  PROVE  /\ rider' \in [Tasks -> {Idle} \cup RiderCalls] /\ rider'[t].pc = pc
         /\ \A u \in Tasks \ {t} : rider'[u] = rider[u]
<1>1. PICK before : before = rider[t]
  OBVIOUS
<1>2. before \in RiderCalls
  BY <1>1 DEF BonusInv
<1>3. PICK call : call = [before EXCEPT !.pc = pc]
  OBVIOUS
<1>4. call \in RiderCalls /\ call.pc = pc
  BY <1>2, <1>3 DEF RiderCalls
<1>5. rider' = [rider EXCEPT ![t] = call]
  BY <1>1, <1>3 DEF Goto
<1>6. QED
  BY <1>4, <1>5 DEF BonusInv

LEMMA RiderEnds ==
  ASSUME BonusInv, NEW t \in Tasks, rider' = Ends(rider, t)
  PROVE  /\ rider' \in [Tasks -> {Idle} \cup RiderCalls] /\ rider'[t].pc = "idle"
         /\ \A u \in Tasks \ {t} : rider'[u] = rider[u]
BY DEF BonusInv, Ends, Idle

\* Steps that pay nothing and begin no counting.
LEMMA BonusesRest ==
  ASSUME BonusInv, UNCHANGED <<rewarded, bonuses, wallets>>,
         IsFiniteSet(deliveredAt'), Milestone => Milestone',
         rider' \in [Tasks -> {Idle} \cup RiderCalls], NEW t \in Tasks,
         \A u \in Tasks \ {t} : rider'[u] = rider[u],
         rider'[t].pc \in {"count", "reward"} => rider[t].pc \in {"count", "reward"},
         rider'[t].pc = "reward" => Milestone'
  PROVE  BonusInv'
<1>1. Rewarding' \in SUBSET Rewarding
  BY DEF Rewarding
<1>2. /\ Cardinality(Rewarding') <= Cardinality(Rewarding)
      /\ Cardinality(Rewarding') \in Nat /\ Cardinality(Rewarding) \in Nat
      /\ Cardinality(Tasks) \in Nat
  BY <1>1, RewardingIsByTasks, TasksAreFinite, FS_Subset
<1>3. bonuses + Cardinality(Rewarding') <= Cardinality(Tasks)
  BY <1>2 DEF BonusInv
<1>4. \A u \in Tasks : rider'[u].pc = "reward" => Milestone'
  BY DEF BonusInv
<1>5. bonuses' > 0 => rewarded' /\ Milestone'
  BY DEF BonusInv
<1>6. QED
  BY <1>3, <1>4, <1>5 DEF BonusInv

LEMMA ReadRefereeKeeps ==
  ASSUME BonusInv, NEW t \in Tasks, ReadReferee(t)
  PROVE  BonusInv'
<1>1. rider[t] # Idle /\ UNCHANGED <<deliveredAt, rewarded, bonuses, wallets>>
  BY DEF ReadReferee, RiderAt, Idle
<1>2. Milestone' = Milestone
  BY <1>1 DEF Milestone
<1>3. CASE rewarded
  <2>1. /\ rider' \in [Tasks -> {Idle} \cup RiderCalls] /\ rider'[t].pc = "idle"
        /\ \A u \in Tasks \ {t} : rider'[u] = rider[u]
    BY <1>3, RiderEnds DEF ReadReferee
  <2>2. QED
    BY <1>1, <1>2, <2>1, BonusesRest DEF BonusInv
<1>4. CASE ~ rewarded
  <2>1. /\ rider' \in [Tasks -> {Idle} \cup RiderCalls] /\ rider'[t].pc = "count"
        /\ \A u \in Tasks \ {t} : rider'[u] = rider[u]
    BY <1>1, <1>4, RiderGoes DEF ReadReferee
  <2>2. bonuses = 0
    BY <1>4 DEF BonusInv
  <2>3. bonuses + Cardinality(Rewarding') <= Cardinality(Tasks)
    BY <2>2, RewardingIsByTasks, TasksAreFinite
  <2>4. \A u \in Tasks : rider'[u].pc = "reward" => Milestone'
    BY <1>2, <2>1 DEF BonusInv
  <2>5. QED
    BY <1>1, <1>2, <2>1, <2>2, <2>3, <2>4 DEF BonusInv
<1>5. QED
  BY <1>3, <1>4

LEMMA RewardKeeps ==
  ASSUME BonusInv, NEW t \in Tasks, Reward(t)
  PROVE  BonusInv'
<1>1. rider[t].pc = "reward" /\ deliveredAt' = deliveredAt /\ rewarded' = TRUE /\ bonuses' = bonuses + 1
  BY DEF Reward, RiderAt
<1>2. Milestone /\ Milestone' = Milestone
  BY <1>1 DEF BonusInv, Milestone
<1>3. /\ rider' \in [Tasks -> {Idle} \cup RiderCalls] /\ rider'[t].pc = "idle"
      /\ \A u \in Tasks \ {t} : rider'[u] = rider[u]
  BY RiderEnds DEF Reward
<1>4. Rewarding' = Rewarding \ {t} /\ t \in Rewarding
  BY <1>1, <1>3 DEF Rewarding
<1>5. IsFiniteSet(Rewarding) /\ Cardinality(Rewarding) \in Nat /\ Cardinality(Tasks) \in Nat
  BY RewardingIsByTasks, TasksAreFinite
<1>6. Cardinality(Rewarding \ {t}) = Cardinality(Rewarding) - 1
  BY <1>4, <1>5, FS_RemoveElement, Zenon
<1>7. bonuses' \in Nat /\ bonuses' + Cardinality(Rewarding') <= Cardinality(Tasks)
  BY <1>1, <1>4, <1>5, <1>6 DEF BonusInv
<1>8. wallets["referrer"] \in Nat /\ wallets["referee"] \in Nat /\ bonuses \in Nat
  BY DEF BonusInv
<1>9. /\ wallets' = [referrer |-> wallets["referrer"] + REFERRER_BONUS_AMOUNT,
                     referee  |-> wallets["referee"] + REFEREE_BONUS_AMOUNT]
      /\ wallets["referrer"] = bonuses * REFERRER_BONUS_AMOUNT
      /\ wallets["referee"] = bonuses * REFEREE_BONUS_AMOUNT
  BY DEF BonusInv, Reward
<1>10. /\ wallets'["referrer"] = bonuses' * REFERRER_BONUS_AMOUNT
       /\ wallets'["referee"] = bonuses' * REFEREE_BONUS_AMOUNT
  BY <1>1, <1>8, <1>9 DEF REFERRER_BONUS_AMOUNT, REFEREE_BONUS_AMOUNT
<1>11. wallets' \in [{"referrer", "referee"} -> Nat]
  BY <1>8, <1>9 DEF REFERRER_BONUS_AMOUNT, REFEREE_BONUS_AMOUNT
<1>12. QED
  BY <1>1, <1>2, <1>3, <1>7, <1>10, <1>11 DEF BonusInv

LEMMA BonusesStep ==
  ASSUME BonusInv, [ReferralNext]_referralVars
  PROVE  BonusInv'
<1>1. Idle.pc = "idle" /\ IsFiniteSet(deliveredAt)
  BY DEF Idle, BonusInv
<1>2. CASE UNCHANGED referralVars
  BY <1>2 DEF referralVars, BonusInv, Milestone, Rewarding
<1>3. ASSUME NEW t \in Tasks, NEW o \in Trips, Arrive(t, o) PROVE BonusInv'
  <2>1. PICK call \in RiderCalls : call = [pc |-> "store", trip |-> o]
    BY DEF RiderCalls
  <2>2. rider' = [rider EXCEPT ![t] = call] /\ call.pc = "store"
    BY <1>3, <2>1 DEF Arrive
  <2>3. UNCHANGED <<deliveredAt, rewarded, bonuses, wallets>> /\ Milestone' = Milestone
    BY <1>3 DEF Arrive, Milestone
  <2>4. /\ rider' \in [Tasks -> {Idle} \cup RiderCalls] /\ rider'[t].pc = "store"
        /\ \A u \in Tasks \ {t} : rider'[u] = rider[u]
    BY <2>2 DEF BonusInv
  <2>5. QED
    BY <1>1, <2>3, <2>4, BonusesRest
<1>4. ASSUME NEW t \in Tasks, StoreDeliveredAt(t) PROVE BonusInv'
  <2>1. rider[t] # Idle /\ UNCHANGED <<rewarded, bonuses, wallets>>
    BY <1>1, <1>4 DEF StoreDeliveredAt, RiderAt
  <2>2. PICK o : deliveredAt' = deliveredAt \cup {o}
    BY <1>4 DEF StoreDeliveredAt
  <2>3. IsFiniteSet(deliveredAt') /\ Milestone => Milestone'
    <3>1. /\ IsFiniteSet(deliveredAt \cup {o})
          /\ \/ Cardinality(deliveredAt \cup {o}) = Cardinality(deliveredAt)
             \/ Cardinality(deliveredAt \cup {o}) = Cardinality(deliveredAt) + 1
      BY <1>1, FS_AddElement, Zenon
    <3>2. Cardinality(deliveredAt) \in Nat
      BY <1>1, FS_CardinalityType
    <3>3. QED
      BY <2>2, <3>1, <3>2, ReferralAssumption DEF Milestone
  <2>4. IsFiniteSet(deliveredAt')
    BY <1>1, <2>2, FS_AddElement, Zenon
  <2>5. /\ rider' \in [Tasks -> {Idle} \cup RiderCalls] /\ rider'[t].pc = "move.check"
        /\ \A u \in Tasks \ {t} : rider'[u] = rider[u]
    BY <1>4, <2>1, RiderGoes DEF StoreDeliveredAt
  <2>6. QED
    BY <2>1, <2>3, <2>4, <2>5, BonusesRest
<1>5. ASSUME NEW t \in Tasks, CheckDelivered(t) \/ CommitDelivered(t) \/ RiderFails(t) PROVE BonusInv'
  <2>1. UNCHANGED <<deliveredAt, rewarded, bonuses, wallets>> /\ Milestone' = Milestone
    BY <1>5 DEF CheckDelivered, CommitDelivered, RiderFails, Milestone
  <2>2. rider[t] # Idle
    BY <1>1, <1>5 DEF CheckDelivered, CommitDelivered, RiderFails, RiderAt
  <2>3. \/ rider' = Ends(rider, t)
        \/ \E pc \in {"move.commit", "milestone"} : rider' = Goto(rider, t, pc)
    BY <1>5 DEF CheckDelivered, CommitDelivered, RiderFails
  <2>4. /\ rider' \in [Tasks -> {Idle} \cup RiderCalls]
        /\ rider'[t].pc \in {"idle", "move.commit", "milestone"}
        /\ \A u \in Tasks \ {t} : rider'[u] = rider[u]
    BY <2>2, <2>3, RiderEnds, RiderGoes
  <2>5. QED
    BY <1>1, <2>1, <2>4, BonusesRest
<1>6. ASSUME NEW t \in Tasks, CountDeliveries(t) PROVE BonusInv'
  <2>1. /\ UNCHANGED <<deliveredAt, rewarded, bonuses, wallets>> /\ Milestone' = Milestone
        /\ rider[t].pc = "count" /\ rider[t] # Idle
    BY <1>1, <1>6 DEF CountDeliveries, RiderAt, Milestone
  <2>2. Cardinality(deliveredAt) \in Nat
    BY <1>1, FS_CardinalityType
  <2>3. rider' = Ends(rider, t) \/ (rider' = Goto(rider, t, "reward") /\ Milestone)
    BY <1>6, <2>2, ReferralAssumption DEF CountDeliveries, Milestone
  <2>4. /\ rider' \in [Tasks -> {Idle} \cup RiderCalls]
        /\ rider'[t].pc = "idle" \/ (rider'[t].pc = "reward" /\ Milestone)
        /\ \A u \in Tasks \ {t} : rider'[u] = rider[u]
    BY <2>1, <2>3, RiderEnds, RiderGoes
  <2>5. QED
    BY <1>1, <2>1, <2>4, BonusesRest
<1>7. ASSUME NEW t \in Tasks, ReadReferee(t) PROVE BonusInv'
  BY <1>7, ReadRefereeKeeps
<1>8. ASSUME NEW t \in Tasks, Reward(t) PROVE BonusInv'
  BY <1>8, RewardKeeps
<1>9. QED
  BY <1>2, <1>3, <1>4, <1>5, <1>6, <1>7, <1>8 DEF ReferralNext

LEMMA BonusesBegin == ASSUME ReferralInit PROVE BonusInv
<1>1. Rewarding = {} /\ \A t \in Tasks : rider[t].pc = "idle"
  BY DEF ReferralInit, Rewarding, Idle
<1>2. Cardinality(Rewarding) = 0 /\ IsFiniteSet(deliveredAt) /\ Cardinality(Tasks) \in Nat
  BY <1>1, FS_EmptySet, RewardingIsByTasks, TasksAreFinite DEF ReferralInit
<1>3. bonuses = 0 /\ wallets = [d \in {"referrer", "referee"} |-> 0] /\ rewarded = FALSE
  BY DEF ReferralInit
<1>4. /\ wallets \in [{"referrer", "referee"} -> Nat]
      /\ wallets["referrer"] = bonuses * REFERRER_BONUS_AMOUNT
      /\ wallets["referee"] = bonuses * REFEREE_BONUS_AMOUNT
  BY <1>3 DEF REFERRER_BONUS_AMOUNT, REFEREE_BONUS_AMOUNT
<1>5. rider \in [Tasks -> {Idle} \cup RiderCalls]
  BY DEF ReferralInit
<1>6. rewarded \in BOOLEAN
  BY <1>3, Zenon
<1>7. bonuses \in Nat /\ ~ bonuses > 0
  BY <1>3
<1>8. bonuses + Cardinality(Rewarding) <= Cardinality(Tasks)
  BY <1>2, <1>3
<1>9. QED
  BY <1>1, <1>2, <1>4, <1>5, <1>6, <1>7, <1>8 DEF BonusInv

LEMMA BonusesArePerRequest == ReferralSpec => []BonusesPerRequest
<1>1. BonusInv => BonusesPerRequest
  BY DEF BonusInv, BonusesPerRequest, Milestone
<1>2. QED
  BY <1>1, BonusesBegin, BonusesStep, PTL DEF ReferralSpec

-----------------------------------------------------------------------------
(* Exceptions: a condition is open once per request that ran at once *)

Acked(e) == \E t \in Tasks : tower[t].pc = "ack.write" /\ tower[t].exception = e

\* Rows of the condition that are open, or that an acknowledgement opens again.
Held(c) ==
  {e \in DOMAIN exceptions :
     exceptions[e].type = c /\ (exceptions[e].status # "RESOLVED" \/ Acked(e))}

Opening(c) == {t \in At(tower, "sweep.upsert") : c \in tower[t].todo}

HeldInv == \A c \in Conditions : PerRequest(Held(c), Opening(c))

LEMMA OpeningIsByTasks == \A c : Opening(c) \in SUBSET Tasks /\ Opening(c)' \in SUBSET Tasks
BY DEF Opening, At

LEMMA HeldShrinks ==
  ASSUME HeldInv, \A c \in Conditions : Held(c)' \subseteq Held(c) /\ Opening(c)' \subseteq Opening(c)
  PROVE  HeldInv'
<1>1. ASSUME NEW c \in Conditions PROVE PerRequest(Held(c)', Opening(c)')
  <2>1. PerRequest(Held(c), Opening(c)) /\ Opening(c) \in SUBSET Tasks
    BY OpeningIsByTasks DEF HeldInv
  <2>2. QED
    BY <2>1, NoMoreFound
<1>2. QED
  BY <1>1 DEF HeldInv, PerRequest

LEMMA TheOthersWait ==
  ASSUME TowerInv, NEW t \in Tasks, NEW call, tower' = [tower EXCEPT ![t] = call]
  PROVE  tower'[t] = call /\ \A u \in Tasks \ {t} : tower'[u] = tower[u]
BY DEF TowerInv

\* A request moves, and is neither at opening nor at the acknowledgement of a closed row.
LEMMA TowerRests ==
  ASSUME TowerInv, HeldInv, exceptions' = exceptions, NEW t \in Tasks, NEW call,
         tower' = [tower EXCEPT ![t] = call], call.pc # "sweep.upsert",
         call.pc = "ack.write" => exceptions[call.exception].status # "RESOLVED"
  PROVE  HeldInv'
<1>1. tower'[t] = call /\ \A u \in Tasks \ {t} : tower'[u] = tower[u]
  BY TheOthersWait
<1>2. ASSUME NEW c \in Conditions PROVE Held(c)' \subseteq Held(c) /\ Opening(c)' \subseteq Opening(c)
  <2>1. Opening(c)' \subseteq Opening(c)
    BY <1>1 DEF Opening, At
  <2>2. ASSUME NEW e \in Held(c)' PROVE e \in Held(c)
    <3>1. /\ e \in DOMAIN exceptions /\ exceptions[e].type = c
          /\ exceptions[e].status # "RESOLVED" \/ Acked(e)'
      BY <2>2 DEF Held
    <3>2. Acked(e)' => exceptions[e].status # "RESOLVED" \/ Acked(e)
      BY <1>1 DEF Acked
    <3>3. QED
      BY <3>1, <3>2 DEF Held
  <2>3. QED
    BY <2>1, <2>2
<1>3. QED
  BY <1>2, HeldShrinks

\* Rows are written over, and none is open that was not held.
LEMMA TowerWrites ==
  ASSUME TowerInv, HeldInv, NEW t \in Tasks, tower' = Ends(tower, t),
         DOMAIN exceptions' = DOMAIN exceptions,
         \A e \in DOMAIN exceptions :
           /\ exceptions'[e].type = exceptions[e].type
           /\ exceptions'[e].status # "RESOLVED" => exceptions[e].status # "RESOLVED" \/ Acked(e)
  PROVE  HeldInv'
<1>1. tower'[t].pc = "idle" /\ \A u \in Tasks \ {t} : tower'[u] = tower[u]
  <2>1. tower'[t] = Idle /\ \A u \in Tasks \ {t} : tower'[u] = tower[u]
    BY TheOthersWait DEF Ends
  <2>2. QED
    BY <2>1 DEF Idle
<1>2. ASSUME NEW c \in Conditions PROVE Held(c)' \subseteq Held(c) /\ Opening(c)' \subseteq Opening(c)
  <2>1. Opening(c)' \subseteq Opening(c)
    BY <1>1 DEF Opening, At
  <2>2. ASSUME NEW e \in Held(c)' PROVE e \in Held(c)
    <3>1. /\ e \in DOMAIN exceptions /\ exceptions[e].type = c
          /\ exceptions'[e].status # "RESOLVED" \/ Acked(e)'
      BY <2>2 DEF Held
    <3>2. Acked(e)' => Acked(e)
      BY <1>1 DEF Acked
    <3>3. QED
      BY <3>1, <3>2 DEF Held
  <2>3. QED
    BY <2>1, <2>2
<1>3. QED
  BY <1>2, HeldShrinks

\* Rows nobody has open are waited for by as many acknowledgements.
LEMMA OnlyAcknowledgementsHold ==
  ASSUME TowerInv, NEW c \in Conditions, c \notin Known({c}, OpenExceptions),
         NEW asking \in SUBSET Tasks, \A u \in asking : tower[u].pc # "ack.write"
  PROVE  PerRequest(Held(c), asking)
<1>1. PICK ackers : ackers = {u \in Tasks : tower[u].pc = "ack.write"}
  OBVIOUS
<1>2. ASSUME NEW e \in Held(c) PROVE \E u \in ackers : tower[u].exception = e
  <2>1. e \in DOMAIN exceptions /\ exceptions[e].type = c
    BY <1>2 DEF Held
  <2>2. exceptions[e].status = "RESOLVED"
    BY <2>1 DEF Known, OpenExceptions
  <2>3. QED
    BY <1>1, <1>2, <2>2 DEF Held, Acked
<1>3. PICK f : f = [e \in Held(c) |-> CHOOSE u \in ackers : tower[u].exception = e]
  OBVIOUS
<1>4. ASSUME NEW e \in Held(c) PROVE f[e] \in ackers /\ tower[f[e]].exception = e
  <2>1. PICK u \in ackers : tower[u].exception = e
    BY <1>2, <1>4
  <2>2. f[e] = CHOOSE w \in ackers : tower[w].exception = e
    BY <1>3, <1>4
  <2>3. QED
    BY <2>1, <2>2, Zenon
<1>5. f \in Injection(Held(c), ackers)
  <2>1. f \in [Held(c) -> ackers]
    BY <1>3, <1>4
  <2>2. \A d, e \in Held(c) : f[d] = f[e] => d = e
    BY <1>4
  <2>3. QED
    BY <2>1, <2>2 DEF Injection, IsInjective
<1>6. ackers \in SUBSET Tasks /\ asking \cup ackers \in SUBSET Tasks /\ asking \cap ackers = {}
  BY <1>1
<1>7. /\ IsFiniteSet(ackers) /\ Cardinality(ackers) \in Nat
      /\ IsFiniteSet(asking) /\ Cardinality(asking) \in Nat
      /\ Cardinality(asking \cup ackers) <= Cardinality(Tasks) /\ Cardinality(Tasks) \in Nat
  BY <1>6, TasksAreFinite
<1>8. Cardinality(asking \cup ackers) = Cardinality(asking) + Cardinality(ackers)
  BY <1>6, <1>7, FS_Union, FS_EmptySet
<1>9. /\ IsFiniteSet(Held(c)) /\ Cardinality(Held(c)) \in Nat
      /\ Cardinality(Held(c)) <= Cardinality(ackers)
  BY <1>5, <1>7, FS_Injection, FS_CardinalityType
<1>10. QED
  BY <1>7, <1>8, <1>9 DEF PerRequest

LEMMA ReadingOpensOnce ==
  ASSUME TowerInv, HeldInv, NEW t \in Tasks, ReadOpenExceptions(t)
  PROVE  HeldInv'
<1>1. PICK todo, triggered : todo = tower[t].todo /\ triggered = tower[t].triggered
  OBVIOUS
<1>2. PICK call :
        call = [pc |-> "sweep.upsert", triggered |-> triggered, open |-> OpenExceptions,
                todo |-> todo \ Known(todo, OpenExceptions)]
  OBVIOUS
<1>3. /\ tower' = [tower EXCEPT ![t] = call] /\ exceptions' = exceptions
      /\ tower[t].pc = "sweep.open"
  BY <1>1, <1>2 DEF ReadOpenExceptions, TowerAt
<1>4. tower'[t] = call /\ \A u \in Tasks \ {t} : tower'[u] = tower[u]
  BY <1>3, TheOthersWait
<1>5. call.pc = "sweep.upsert" /\ call.todo = todo \ Known(todo, OpenExceptions)
  BY <1>2
<1>6. ASSUME NEW e PROVE Acked(e)' <=> Acked(e)
  BY <1>3, <1>4, <1>5 DEF Acked
<1>7. ASSUME NEW c \in Conditions PROVE PerRequest(Held(c)', Opening(c)')
  <2>1. Held(c)' = Held(c)
    BY <1>3, <1>6 DEF Held
  <2>2. PerRequest(Held(c), Opening(c)) /\ Opening(c) \in SUBSET Tasks /\ Opening(c)' \in SUBSET Tasks
    BY OpeningIsByTasks DEF HeldInv
  <2>3. CASE c \in call.todo
    <3>1. c \notin Known({c}, OpenExceptions)
      BY <1>5, <2>3 DEF Known
    <3>2. PICK asking : asking = Opening(c)'
      OBVIOUS
    <3>3. \A u \in asking : tower[u].pc # "ack.write"
      BY <1>3, <1>4, <3>2 DEF Opening, At
    <3>4. PerRequest(Held(c), asking)
      BY <2>2, <3>1, <3>2, <3>3, OnlyAcknowledgementsHold
    <3>5. QED
      BY <2>1, <3>2, <3>4
  <2>4. CASE c \notin call.todo
    <3>1. Opening(c)' \in SUBSET Opening(c)
      BY <1>4, <2>4 DEF Opening, At
    <3>2. QED
      BY <2>1, <2>2, <3>1, NoMoreFound
  <2>5. QED
    BY <2>3, <2>4
<1>8. QED
  BY <1>7 DEF HeldInv, PerRequest

LEMMA CreatingOpensOnce ==
  ASSUME TowerInv, HeldInv, NEW t \in Tasks, CreateException(t)
  PROVE  HeldInv'
<1>1. tower[t] \in Sweeping /\ tower[t].pc = "sweep.upsert"
  BY DEF CreateException, TowerAt, TowerInv, Answering, Idle
<1>2. PICK type \in tower[t].todo :
        /\ exceptions' = Append(exceptions, NewException(type))
        /\ tower' = [tower EXCEPT ![t].todo = tower[t].todo \ {type}]
  BY DEF CreateException
<1>3. PICK before : before = tower[t]
  OBVIOUS
<1>4. PICK call : call = [before EXCEPT !.todo = before.todo \ {type}]
  OBVIOUS
<1>5. call.pc = "sweep.upsert" /\ call.todo = tower[t].todo \ {type}
  BY <1>1, <1>3, <1>4 DEF Sweeping
<1>6. tower' = [tower EXCEPT ![t] = call]
  BY <1>2, <1>3, <1>4
<1>7. tower'[t] = call /\ \A u \in Tasks \ {t} : tower'[u] = tower[u]
  BY <1>6, TheOthersWait
<1>8. ASSUME NEW e PROVE Acked(e)' <=> Acked(e)
  BY <1>1, <1>5, <1>7 DEF Acked
<1>9. PICK n \in Nat : n = Len(exceptions)
  BY DEF TowerInv
<1>10. /\ DOMAIN exceptions = 1 .. n /\ DOMAIN exceptions' = 1 .. n + 1
       /\ \A e \in 1 .. n : exceptions'[e] = exceptions[e]
       /\ exceptions'[n + 1] = NewException(type)
  <2>1. PICK row \in ExceptionRows : row = NewException(type)
    BY <1>1, <1>2, NewExceptionIsARow DEF Sweeping, ExceptionTypes
  <2>2. exceptions \in Seq(ExceptionRows) /\ exceptions' = Append(exceptions, row)
    BY <1>2, <2>1 DEF TowerInv
  <2>3. QED
    BY <1>9, <2>1, <2>2
<1>11. ASSUME NEW c \in Conditions PROVE PerRequest(Held(c)', Opening(c)')
  <2>1. PerRequest(Held(c), Opening(c)) /\ Opening(c) \in SUBSET Tasks
    BY OpeningIsByTasks DEF HeldInv
  <2>2. CASE c = type
    <3>1. Held(c)' \in SUBSET (Held(c) \cup {n + 1})
      BY <1>8, <1>9, <1>10 DEF Held
    <3>2. Opening(c)' = Opening(c) \ {t} /\ t \in Opening(c)
      BY <1>1, <1>2, <1>5, <1>7, <2>2 DEF Opening, At
    <3>3. PerRequest(Held(c) \cup {n + 1}, Opening(c) \ {t})
      BY <2>1, <3>2, OneMoreFound
    <3>4. Opening(c) \ {t} \in SUBSET Tasks /\ Opening(c)' \in SUBSET (Opening(c) \ {t})
      BY <2>1, <3>2
    <3>5. QED
      BY <3>1, <3>3, <3>4, NoMoreFound
  <2>3. CASE c # type
    <3>1. NewException(type).type = type
      BY DEF NewException
    <3>2. Held(c)' \in SUBSET Held(c)
      BY <1>8, <1>9, <1>10, <2>3, <3>1 DEF Held
    <3>3. Opening(c)' \in SUBSET Opening(c)
      BY <1>1, <1>5, <1>7 DEF Opening, At
    <3>4. QED
      BY <2>1, <3>2, <3>3, NoMoreFound
  <2>4. QED
    BY <2>2, <2>3
<1>12. QED
  BY <1>11 DEF HeldInv, PerRequest

LEMMA SosOpensNone ==
  ASSUME TowerInv, HeldInv, TriggerDriverSos
  PROVE  HeldInv'
<1>1. PICK n \in Nat : n = Len(exceptions)
  BY DEF TowerInv
<1>2. PICK row \in ExceptionRows : row = NewException(DRIVER_SOS)
  BY NewExceptionIsARow DEF ExceptionTypes
<1>3. exceptions \in Seq(ExceptionRows) /\ exceptions' = Append(exceptions, row) /\ tower' = tower
  BY <1>2 DEF TowerInv, TriggerDriverSos
<1>4. /\ DOMAIN exceptions = 1 .. n /\ DOMAIN exceptions' = 1 .. n + 1
      /\ \A e \in 1 .. n : exceptions'[e] = exceptions[e]
      /\ exceptions'[n + 1] = row
  BY <1>1, <1>3
<1>5. row.type = DRIVER_SOS
  BY <1>2 DEF NewException
<1>6. ASSUME NEW c \in Conditions PROVE Held(c)' \subseteq Held(c) /\ Opening(c)' \subseteq Opening(c)
  <2>1. c # DRIVER_SOS
    BY ConditionAssumption
  <2>2. \A e : Acked(e)' <=> Acked(e)
    BY <1>3 DEF Acked
  <2>3. Held(c)' \subseteq Held(c)
    BY <1>1, <1>4, <1>5, <2>1, <2>2 DEF Held
  <2>4. QED
    BY <1>3, <2>3 DEF Opening, At
<1>7. QED
  BY <1>6, HeldShrinks

LEMMA HeldStep ==
  ASSUME TowerInv, HeldInv, [ExceptionNext]_exceptionVars
  PROVE  HeldInv'
<1>1. /\ \A e \in DOMAIN exceptions : exceptions[e] \in ExceptionRows
      /\ Idle.pc = "idle"
  BY DEF TowerInv, Idle
<1>2. CASE UNCHANGED exceptionVars
  <2>1. \A c \in Conditions : Held(c)' \subseteq Held(c) /\ Opening(c)' \subseteq Opening(c)
    BY <1>2 DEF exceptionVars, Held, Opening, Acked, At
  <2>2. QED
    BY <2>1, HeldShrinks
<1>3. CASE OrderMovesOn
  <2>1. \A c \in Conditions : Held(c)' \subseteq Held(c) /\ Opening(c)' \subseteq Opening(c)
    BY <1>3 DEF OrderMovesOn, Held, Opening, Acked, At
  <2>2. QED
    BY <2>1, HeldShrinks
<1>4. CASE TriggerDriverSos
  BY <1>4, SosOpensNone
<1>5. ASSUME NEW t \in Tasks, ReadOrders(t) PROVE HeldInv'
  <2>1. PICK call : call = [pc |-> "sweep.open", triggered |-> wrong, todo |-> wrong, open |-> {}]
    OBVIOUS
  <2>2. tower' = [tower EXCEPT ![t] = call] /\ exceptions' = exceptions
    BY <1>5, <2>1 DEF ReadOrders
  <2>3. call.pc = "sweep.open"
    BY <2>1
  <2>4. QED
    BY <2>2, <2>3, TowerRests
<1>6. ASSUME NEW t \in Tasks, ReadOpenExceptions(t) PROVE HeldInv'
  BY <1>6, ReadingOpensOnce
<1>7. ASSUME NEW t \in Tasks, CreateException(t) PROVE HeldInv'
  BY <1>7, CreatingOpensOnce
<1>8. ASSUME NEW t \in Tasks, AutoResolve(t) PROVE HeldInv'
  <2>1. tower' = Ends(tower, t) /\ DOMAIN exceptions' = DOMAIN exceptions
    BY <1>8 DEF AutoResolve
  <2>2. ASSUME NEW e \in DOMAIN exceptions
        PROVE  /\ exceptions'[e].type = exceptions[e].type
               /\ exceptions'[e].status # "RESOLVED" => exceptions[e].status # "RESOLVED"
    <3>1. PICK row \in ExceptionRows : row = exceptions[e]
      BY <1>1, <2>2
    <3>2. \/ exceptions'[e] = [row EXCEPT !.status = "RESOLVED", !.resolution = "sweep"]
          \/ exceptions'[e] = row
      BY <1>8, <2>2, <3>1 DEF AutoResolve
    <3>3. QED
      BY <3>1, <3>2 DEF ExceptionRows
  <2>3. QED
    BY <2>1, <2>2, TowerWrites
<1>9. ASSUME NEW t \in Tasks, NEW e \in DOMAIN exceptions, Answer(t, e) PROVE HeldInv'
  <2>1. PICK pc \in {"ack.read", "resolve.read"} :
          tower' = [tower EXCEPT ![t] = [pc |-> pc, exception |-> e]]
    BY <1>9 DEF Answer
  <2>2. PICK call : call = [pc |-> pc, exception |-> e]
    OBVIOUS
  <2>3. call.pc \in {"ack.read", "resolve.read"} /\ tower' = [tower EXCEPT ![t] = call]
    BY <2>1, <2>2
  <2>4. exceptions' = exceptions
    BY <1>9 DEF Answer
  <2>5. QED
    BY <2>3, <2>4, TowerRests
<1>10. ASSUME NEW t \in Tasks, ReadForAck(t) \/ ReadForResolve(t) PROVE HeldInv'
  <2>1. PICK read \in AnswerPlaces : AnswerAt(t, read)
    BY <1>10, AnswersAreAboutRows DEF ReadForAck, ReadForResolve, AnswerPlaces
  <2>2. PICK before \in Answering : before = tower[t]
    BY <2>1 DEF AnswerAt
  <2>3. exceptions' = exceptions
    BY <1>10 DEF ReadForAck, ReadForResolve
  <2>4. CASE tower' = Ends(tower, t)
    BY <1>1, <2>3, <2>4, TowerRests DEF Ends
  <2>5. ASSUME NEW pc \in {"ack.write", "resolve.write"}, tower' = Goto(tower, t, pc),
               pc = "ack.write" => exceptions[before.exception].status # "RESOLVED"
        PROVE  HeldInv'
    <3>1. PICK call : call = [before EXCEPT !.pc = pc]
      OBVIOUS
    <3>2. call.pc = pc /\ call.exception = before.exception
      BY <3>1 DEF Answering
    <3>3. tower' = [tower EXCEPT ![t] = call]
      BY <2>2, <2>5, <3>1 DEF Goto
    <3>4. QED
      BY <2>3, <2>5, <3>2, <3>3, TowerRests
  <2>6. QED
    BY <1>10, <2>2, <2>4, <2>5 DEF ReadForAck, ReadForResolve
<1>11. ASSUME NEW t \in Tasks, AcknowledgeException(t) \/ ResolveException(t) PROVE HeldInv'
  <2>1. PICK write \in {"ack.write", "resolve.write"} :
          /\ AnswerAt(t, write)
          /\ write = "ack.write" <=> AcknowledgeException(t)
          /\ write = "resolve.write" => ResolveException(t)
    <3>1. ASSUME AcknowledgeException(t) PROVE AnswerAt(t, "ack.write") /\ tower[t].pc = "ack.write"
      BY <3>1, AnswersAreAboutRows DEF AcknowledgeException, AnswerPlaces, TowerAt
    <3>2. ASSUME ResolveException(t) PROVE AnswerAt(t, "resolve.write") /\ tower[t].pc = "resolve.write"
      BY <3>2, AnswersAreAboutRows DEF ResolveException, AnswerPlaces, TowerAt
    <3>3. QED
      BY <1>11, <3>1, <3>2
  <2>2. PICK x \in DOMAIN exceptions : x = tower[t].exception
    BY <2>1 DEF AnswerAt
  <2>3. PICK row \in ExceptionRows : row = exceptions[x]
    BY <1>1, <2>2
  <2>4. tower' = Ends(tower, t)
    BY <1>11 DEF AcknowledgeException, ResolveException
  <2>5. CASE AcknowledgeException(t)
    <3>1. exceptions' = [exceptions EXCEPT ![x] = [row EXCEPT !.status = "ACKNOWLEDGED"]]
      BY <2>2, <2>3, <2>5 DEF AcknowledgeException
    <3>2. [row EXCEPT !.status = "ACKNOWLEDGED"].type = row.type
      BY DEF ExceptionRows
    <3>3. Acked(x)
      BY <2>1, <2>2, <2>5 DEF Acked, AnswerAt
    <3>4. DOMAIN exceptions' = DOMAIN exceptions
      BY <3>1
    <3>5. \A e \in DOMAIN exceptions :
            /\ exceptions'[e].type = exceptions[e].type
            /\ exceptions'[e].status # "RESOLVED" => exceptions[e].status # "RESOLVED" \/ Acked(e)
      BY <2>3, <3>1, <3>2, <3>3
    <3>6. QED
      BY <2>4, <3>4, <3>5, TowerWrites
  <2>6. CASE ResolveException(t)
    <3>1. PICK resolved : resolved = [row EXCEPT !.status = "RESOLVED", !.resolution = "operator"]
      OBVIOUS
    <3>2. exceptions' = [exceptions EXCEPT ![x] = resolved]
      BY <2>2, <2>3, <2>6, <3>1 DEF ResolveException, TowerInv
    <3>3. DOMAIN exceptions' = DOMAIN exceptions
      BY <3>2
    <3>4. \A e \in DOMAIN exceptions :
            /\ exceptions'[e].type = exceptions[e].type
            /\ exceptions'[e].status # "RESOLVED" => exceptions[e].status # "RESOLVED"
      <4>1. resolved.type = row.type /\ resolved.status = "RESOLVED"
        BY <3>1 DEF ExceptionRows
      <4>2. QED
        BY <2>2, <2>3, <3>2, <4>1
    <3>5. QED
      BY <2>4, <3>3, <3>4, TowerWrites
  <2>7. QED
    BY <1>11, <2>5, <2>6
<1>12. ASSUME NEW t \in Tasks, TowerFails(t) PROVE HeldInv'
  BY <1>1, <1>12, TowerRests DEF TowerFails, Ends
<1>13. QED
  BY <1>2, <1>3, <1>4, <1>5, <1>6, <1>7, <1>8, <1>9, <1>10, <1>11, <1>12 DEF ExceptionNext

LEMMA HeldBegins == ASSUME ExceptionInit PROVE HeldInv
<1>1. \A c : Held(c) = {}
  BY DEF ExceptionInit, Held
<1>2. QED
  BY <1>1, OpeningIsByTasks, NothingFound DEF HeldInv

LEMMA OpenIsPerRequest == ExceptionSpec => []OpenPerRequest
<1>1. ASSUME HeldInv, NEW c \in Conditions
      PROVE  Cardinality({e \in OpenExceptions : exceptions[e].type = c})
               + Cardinality({t \in At(tower, "sweep.upsert") : c \in tower[t].todo})
             <= Cardinality(Tasks)
  <2>1. PICK open : open = {e \in OpenExceptions : exceptions[e].type = c}
    OBVIOUS
  <2>2. open \in SUBSET Held(c) /\ Opening(c) \in SUBSET Opening(c)
    BY <2>1 DEF OpenExceptions, Held
  <2>3. PerRequest(open, Opening(c))
    BY <1>1, <2>2, OpeningIsByTasks, NoMoreFound DEF HeldInv
  <2>4. QED
    BY <2>1, <2>3 DEF PerRequest, Opening
<1>2. HeldInv => OpenPerRequest
  BY <1>1 DEF OpenPerRequest
<1>3. QED
  BY <1>2, HeldBegins, HeldStep, TowerInvariant, PTL DEF ExceptionSpec

(***************************************************************************)
(* Whatever requests race or die, what a service writes after it has looked *)
(* for an earlier row is written once per request that ran at once: an     *)
(* order's payout (settlements.service.ts), a driver's bonus               *)
(* (referrals.service.ts), the exception of a condition                    *)
(* (exceptions.service.ts), the number of an attempt (deliveries.service.ts).*)
(***************************************************************************)
THEOREM OneRowPerRequest == BackOfficeSpec => []OncePerRequest
BY ServicesAreThere, PayoutsArePerRequest, BonusesArePerRequest, OpenIsPerRequest, AttemptNumbers,
   PTL DEF OncePerRequest

-----------------------------------------------------------------------------
(* Screens: what the tables of buttons and routes say of each other *)

\* At each status a component shows it at, the service behind a button accepts it, the
\* statuses `but` apart.
Accepted(buttons, but) ==
  \A b \in buttons :
    NoPage \notin b.shown /\ \A s \in b.shown \ but : s \in DOMAIN b.route.moves

\* The permissions of a role cover what the buttons of a page ask for.
Covered(role, buttons) ==
  \A b \in buttons :
    \/ /\ hasAnyPermission(role, b.route.needs)
       /\ role = "SUPER_ADMIN" => role \notin b.route.bound
    \/ role # "SUPER_ADMIN" /\ role \in b.route.own

LEMMA NoPageIsNoStatus ==
  /\ NoPage # "PENDING" /\ NoPage # "CONFIRMED" /\ NoPage # "READY_FOR_PICKUP"
      /\ NoPage # "ASSIGNED"
  /\ NoPage # "PICKED_UP" /\ NoPage # "IN_TRANSIT" /\ NoPage # "OUT_FOR_DELIVERY"
      /\ NoPage # "CUSTOMER_ABSENT"
  /\ NoPage # "WRONG_ADDRESS" /\ NoPage # "CUSTOMER_REFUSED" /\ NoPage # "RESCHEDULED"
      /\ NoPage # "DELIVERED"
  /\ NoPage # "RETURNED" /\ NoPage # "CANCELLED" /\ NoPage # "NONE" /\ NoPage # "MOOT"
  /\ NoPage # "DRAFT" /\ NoPage # "PENDING_PAYMENT" /\ NoPage # "ACTIVE" /\ NoPage # "INACTIVE"
  /\ NoPage # "OPEN" /\ NoPage # "ACKNOWLEDGED" /\ NoPage # "PENDING_APPROVAL"
      /\ NoPage # "OFFLINE"
  /\ NoPage # "AVAILABLE" /\ NoPage # "UPLOADED" /\ NoPage # "IN_PROGRESS" /\ NoPage # "RESOLVED"
  /\ NoPage # "CLOSED" /\ NoPage # "ON" /\ NoPage # "OFF"
BY Zenon DEF NoPage

LEMMA ButtonTransitions ==
  /\ canTransition("PENDING", "CONFIRMED") /\ canTransition("CONFIRMED", "READY_FOR_PICKUP")
  /\ canTransition("READY_FOR_PICKUP", "ASSIGNED")
  /\ canTransition("PENDING", "CANCELLED") /\ canTransition("CONFIRMED", "CANCELLED")
  /\ canTransition("ASSIGNED", "PICKED_UP") /\ canTransition("PICKED_UP", "IN_TRANSIT")
  /\ canTransition("IN_TRANSIT", "OUT_FOR_DELIVERY")
      /\ canTransition("RESCHEDULED", "OUT_FOR_DELIVERY")
  /\ canTransition("CUSTOMER_ABSENT", "RESCHEDULED")
      /\ canTransition("WRONG_ADDRESS", "RESCHEDULED")
  /\ \A s \in FAILURE_STATUSES : canTransition(s, "RETURNED")
  /\ \A result \in Results : canTransition("OUT_FOR_DELIVERY", ATTEMPT_RESULT_TO_ORDER_STATUS[result])
BY DEF canTransition, ORDER_TRANSITIONS, OrderStatus, FAILURE_STATUSES, TERMINAL_STATUSES,
   Results,
   ATTEMPT_RESULT_TO_ORDER_STATUS

LEMMA TransitionAccepts ==
  ASSUME NEW to
  PROVE  DOMAIN Transition(to) = {s \in OrderStatus : canTransition(s, to)}
BY DEF Transition, Turning

LEMMA RouteFields ==
  /\ \A shown, route : Button(shown, route).shown = shown /\ Button(shown, route).route = route
  /\ \A needs, moves :
       /\ Route(needs, moves).needs = needs /\ Route(needs, moves).moves = moves
       /\ Route(needs, moves).bound = {} /\ Route(needs, moves).own = {}
  /\ \A role, needs, moves :
       /\ BoundTo(role, Route(needs, moves)).needs = needs
       /\ BoundTo(role, Route(needs, moves)).moves = moves
       /\ BoundTo(role, Route(needs, moves)).bound = {role}
       /\ BoundTo(role, Route(needs, moves)).own = {}
  /\ \A roles, needs, moves :
       /\ OpenTo(roles, Route(needs, moves)).needs = needs
       /\ OpenTo(roles, Route(needs, moves)).moves = moves
       /\ OpenTo(roles, Route(needs, moves)).bound = {}
       /\ OpenTo(roles, Route(needs, moves)).own = roles
  /\ \A from, to : DOMAIN Turning(from, to) = from /\ \A s \in from : Turning(from, to)[s] = to
  /\ \A from : DOMAIN Keeping(from) = from
  /\ \A to : DOMAIN Creating(to) = {"NONE"}
BY DEF Button, Route, BoundTo, OpenTo, Turning, Keeping, Creating

\* Transition(to) is accepted at the statuses the table lets go to it.
LEMMA TransitionsAreAccepted ==
  ASSUME NEW buttons, NEW but,
         \A b \in buttons : b.shown \subseteq OrderStatus /\ \E to :
           b.route.moves = Transition(to) /\ \A s \in b.shown \ but : canTransition(s, to)
  PROVE  Accepted(buttons, but)
<1>1. NoPage \notin OrderStatus
  BY NoPageIsNoStatus DEF OrderStatus
<1>2. QED
  BY <1>1, TransitionAccepts DEF Accepted

LEMMA OrderActionsWork ==
  /\ Accepted(OrderActions, {})
  /\ Covered("SUPER_ADMIN", OrderActions)
<1>1. \A to : UpdateOrderStatus(to).moves = Transition(to)
  BY RouteFields DEF UpdateOrderStatus
<1>2. ASSUME NEW b \in OrderActions
      PROVE  /\ b.shown \subseteq OrderStatus
             /\ \E to : b.route.moves = Transition(to) /\ \A s \in b.shown \ {} : canTransition(s, to)
  BY <1>1, RouteFields, ButtonTransitions DEF OrderActions, OrderStatus
<1>3. Covered("SUPER_ADMIN", OrderActions)
  BY DEF Covered, OrderActions, Button, UpdateOrderStatus, BoundTo, Route, hasAnyPermission,
     hasPermission,
     ROLE_PERMISSIONS, Permission
<1>4. QED
  BY <1>2, <1>3, TransitionsAreAccepted

LEMMA DispatchPanelWorks ==
  /\ Accepted(DispatchPanel, {})
  /\ Covered("SUPER_ADMIN", DispatchPanel)
<1>1. \A b \in DispatchPanel :
        b.shown = {"READY_FOR_PICKUP"}
            /\ b.route.moves \in {Transition("ASSIGNED"), Keeping({"READY_FOR_PICKUP"})}
  BY RouteFields DEF DispatchPanel, AssignDriver, OfferOrder
<1>2. "READY_FOR_PICKUP" \in DOMAIN Transition("ASSIGNED")
  BY ButtonTransitions, TransitionAccepts DEF OrderStatus
<1>3. Accepted(DispatchPanel, {})
  BY <1>1, <1>2, NoPageIsNoStatus, RouteFields DEF Accepted
<1>4. Covered("SUPER_ADMIN", DispatchPanel)
  BY DEF Covered, DispatchPanel, Button, AssignDriver, OfferOrder, Route, hasAnyPermission,
     hasPermission,
     ROLE_PERMISSIONS, Permission
<1>5. QED
  BY <1>3, <1>4

LEMMA CancelOrderButtonWorks ==
  /\ Accepted(CancelOrderButton, {})
  /\ Covered("SUPPLIER", CancelOrderButton)
<1>1. ASSUME NEW b \in CancelOrderButton
      PROVE  /\ b.shown \subseteq OrderStatus
             /\ \E to : b.route.moves = Transition(to) /\ \A s \in b.shown \ {} : canTransition(s, to)
  BY RouteFields, ButtonTransitions DEF CancelOrderButton, UpdateOrderStatus, OrderStatus
<1>2. Covered("SUPPLIER", CancelOrderButton)
  BY DEF Covered, CancelOrderButton, Button, UpdateOrderStatus, BoundTo, Route, hasAnyPermission,
     hasPermission,
     ROLE_PERMISSIONS, Permission
<1>3. QED
  BY <1>1, <1>2, TransitionsAreAccepted

LEMMA MissionActionsWork ==
  /\ Accepted(MissionActions, {"CUSTOMER_REFUSED"})
  /\ Covered("DRIVER", MissionActions)
<1>1. /\ ScreenOf("PICKED_UP") = {"ASSIGNED"} /\ ScreenOf("IN_TRANSIT") = {"PICKED_UP"}
      /\ ScreenOf("OUT_FOR_DELIVERY") = {"IN_TRANSIT", "RESCHEDULED"}
      /\ ScreenOf("RESCHEDULED") = FAILURE_STATUSES /\ ScreenOf("RETURNED") = FAILURE_STATUSES
  BY DEF ScreenOf, StatusButtons, OrderStatus, FAILURE_STATUSES
<1>2. ASSUME NEW result \in Results
      PROVE  {s \in OrderStatus : result \in ResultButtons(s)} = {"OUT_FOR_DELIVERY"}
  BY DEF ResultButtons, OrderStatus
<1>3. \A b \in MissionActions :
        \/ \E to \in {"PICKED_UP", "IN_TRANSIT", "OUT_FOR_DELIVERY", "RESCHEDULED", "RETURNED"} :
             b.shown = ScreenOf(to) /\ b.route = OnDelivery(Transition(to))
        \/ \E result \in Results :
             /\ b.shown = {"OUT_FOR_DELIVERY"}
             /\ b.route = OnDelivery(Transition(ATTEMPT_RESULT_TO_ORDER_STATUS[result]))
  <2>1. ASSUME NEW b \in
                 {Button(ScreenOf(to), AdvanceDelivery(to)) :
                    to \in {"PICKED_UP", "IN_TRANSIT", "OUT_FOR_DELIVERY"}}
                 \cup {Button(ScreenOf(to), ResolveFailedDelivery(to)) :
                         to \in {"RESCHEDULED", "RETURNED"}}
        PROVE  \E to \in {"PICKED_UP", "IN_TRANSIT", "OUT_FOR_DELIVERY", "RESCHEDULED", "RETURNED"} :
                 b.shown = ScreenOf(to) /\ b.route = OnDelivery(Transition(to))
    BY RouteFields DEF AdvanceDelivery, ResolveFailedDelivery
  <2>2. ASSUME NEW result \in Results,
               NEW b,
               b = Button({s \in OrderStatus : result \in ResultButtons(s)}, RecordAttempt(result))
        PROVE  /\ b.shown = {"OUT_FOR_DELIVERY"}
               /\ b.route = OnDelivery(Transition(ATTEMPT_RESULT_TO_ORDER_STATUS[result]))
    BY <1>2, <2>2, RouteFields DEF RecordAttempt
  <2>3. QED
    BY <2>1, <2>2, Zenon DEF MissionActions
<1>4. \A moves : OnDelivery(moves).moves = moves
        /\ OnDelivery(moves).needs = {"DELIVERIES_UPDATE_STATUS"}
  BY DEF OnDelivery, BoundTo, Route
<1>5. Accepted(MissionActions, {"CUSTOMER_REFUSED"})
  <2>1. ASSUME NEW b \in MissionActions
        PROVE  b.shown \subseteq OrderStatus /\ \E to :
                 b.route.moves = Transition(to) /\ \A s \in b.shown \ {"CUSTOMER_REFUSED"} :
                     canTransition(s, to)
    <3>1. CASE \E result \in Results :
                 /\ b.shown = {"OUT_FOR_DELIVERY"}
                 /\ b.route = OnDelivery(Transition(ATTEMPT_RESULT_TO_ORDER_STATUS[result]))
      BY <1>4, <3>1, ButtonTransitions DEF OrderStatus
    <3>2. ASSUME NEW to \in {"PICKED_UP", "IN_TRANSIT", "OUT_FOR_DELIVERY", "RESCHEDULED", "RETURNED"},
                 b.shown = ScreenOf(to), b.route = OnDelivery(Transition(to))
          PROVE  /\ b.shown \subseteq OrderStatus
                 /\ \A s \in b.shown \ {"CUSTOMER_REFUSED"} : canTransition(s, to)
      BY <1>1, <3>2, ButtonTransitions DEF FAILURE_STATUSES, OrderStatus
    <3>3. QED
      BY <1>3, <1>4, <3>1, <3>2
  <2>2. QED
    BY <2>1, TransitionsAreAccepted
<1>6. hasAnyPermission("DRIVER", {"DELIVERIES_UPDATE_STATUS"})
  BY DEF hasAnyPermission, hasPermission, ROLE_PERMISSIONS
<1>7. Covered("DRIVER", MissionActions)
  BY <1>3, <1>4, <1>6 DEF Covered
<1>8. QED
  BY <1>5, <1>7

LEMMA ChatAndSosWork ==
  /\ Accepted(SosButton \cup OrderChatPanel(SendDriverMessage), {})
  /\ Covered("DRIVER", SosButton \cup OrderChatPanel(SendDriverMessage))
  /\ Accepted(OrderChatPanel(SendCustomerMessage), {})
  /\ Covered("CUSTOMER", OrderChatPanel(SendCustomerMessage))
<1>1. OpenMissions \subseteq OrderStatus /\ OpenMissions \subseteq WithDriver
        /\ NoPage \notin OpenMissions
  BY NoPageIsNoStatus DEF OpenMissions, WithDriver, OrderStatus
<1>2. Accepted(SosButton \cup OrderChatPanel(SendDriverMessage), {})
  <2>1. \A b \in SosButton \cup OrderChatPanel(SendDriverMessage) :
          b.shown = OpenMissions /\ b.route.moves = Keeping(OrderStatus)
    BY RouteFields DEF SosButton, OrderChatPanel, TriggerSos, SendDriverMessage, OnDelivery
  <2>2. QED
    BY <1>1, <2>1 DEF Accepted, Keeping
<1>3. Covered("DRIVER", SosButton \cup OrderChatPanel(SendDriverMessage))
  BY DEF Covered, SosButton, OrderChatPanel, Button, TriggerSos, SendDriverMessage, OnDelivery,
     BoundTo, Route,
    hasAnyPermission, hasPermission, ROLE_PERMISSIONS
<1>4. Accepted(OrderChatPanel(SendCustomerMessage), {})
  BY <1>1 DEF Accepted, OrderChatPanel, Button, SendCustomerMessage, Route, Keeping
<1>5. Covered("CUSTOMER", OrderChatPanel(SendCustomerMessage))
  BY DEF Covered, OrderChatPanel, Button, SendCustomerMessage, Route, hasAnyPermission,
     hasPermission, ROLE_PERMISSIONS,
    Anyone, Permission
<1>6. QED
  BY <1>2, <1>3, <1>4, <1>5

LEMMA OfferButtonsWork ==
  /\ Accepted(PendingOffers, {"MOOT"})
  /\ Covered("DRIVER", PendingOffers)
<1>1. \A b \in PendingOffers :
        /\ b.shown = {"PENDING", "MOOT"} /\ NoPage \notin b.shown
            /\ "PENDING" \in DOMAIN b.route.moves
        /\ b.route.needs = {"DELIVERIES_UPDATE_STATUS", "DISPATCH_MANAGE"}
  BY NoPageIsNoStatus, RouteFields DEF PendingOffers, AcceptOffer, RejectOffer
<1>2. hasAnyPermission("DRIVER", {"DELIVERIES_UPDATE_STATUS", "DISPATCH_MANAGE"})
  BY DEF hasAnyPermission, hasPermission, ROLE_PERMISSIONS
<1>3. QED
  BY <1>1, <1>2 DEF Accepted, Covered

LEMMA SettlementButtonsWork ==
  LET buttons == GenerateSettlementForm \cup SettlementActions IN Accepted(buttons, {})
      /\ Covered("SUPER_ADMIN", buttons)
<1>1. \A b \in GenerateSettlementForm \cup SettlementActions :
        NoPage \notin b.shown /\ b.shown \subseteq DOMAIN b.route.moves
            /\ b.route.needs = {"SETTLEMENTS_MANAGE"} /\ b.route.bound = {}
  BY NoPageIsNoStatus, RouteFields DEF GenerateSettlementForm, SettlementActions, PostSettlement,
     SubmitSettlement, ConfirmPaid,
     DisputeSettlement, OnSettlements
<1>2. hasAnyPermission("SUPER_ADMIN", {"SETTLEMENTS_MANAGE"})
  BY DEF hasAnyPermission, hasPermission, ROLE_PERMISSIONS, Permission
<1>3. QED
  BY <1>1, <1>2 DEF Accepted, Covered

LEMMA PromoButtonsWork ==
  LET buttons == PromoCodeForm \cup PromoCodeToggle IN Accepted(buttons, {})
      /\ Covered("SUPER_ADMIN", buttons)
<1>1. \A b \in PromoCodeForm \cup PromoCodeToggle :
        NoPage \notin b.shown /\ b.shown \subseteq DOMAIN b.route.moves
            /\ b.route.needs = {"PROMOTIONS_MANAGE"} /\ b.route.bound = {}
  BY NoPageIsNoStatus, RouteFields DEF PromoCodeForm, PromoCodeToggle, PostPromoCode,
     PatchPromoCode
<1>2. hasAnyPermission("SUPER_ADMIN", {"PROMOTIONS_MANAGE"})
  BY DEF hasAnyPermission, hasPermission, ROLE_PERMISSIONS, Permission
<1>3. QED
  BY <1>1, <1>2 DEF Accepted, Covered

LEMMA ProductButtonsWork ==
  LET buttons == ProductForm \cup ToggleProductActive IN Accepted(buttons, {})
      /\ Covered("SUPPLIER", buttons)
<1>1. \A b \in ProductForm \cup ToggleProductActive :
        NoPage \notin b.shown /\ b.shown \subseteq DOMAIN b.route.moves
            /\ b.route.needs = {"PRODUCTS_MANAGE_OWN"}
  BY NoPageIsNoStatus, RouteFields DEF ProductForm, ToggleProductActive, PostProduct, PatchProduct
<1>2. hasAnyPermission("SUPPLIER", {"PRODUCTS_MANAGE_OWN"})
  BY DEF hasAnyPermission, hasPermission, ROLE_PERMISSIONS
<1>3. QED
  BY <1>1, <1>2 DEF Accepted, Covered

LEMMA ExceptionButtonsWork ==
  Accepted(ExceptionActions, {}) /\ Covered("SUPER_ADMIN", ExceptionActions)
<1>1. \A b \in ExceptionActions :
        NoPage \notin b.shown /\ b.shown \subseteq DOMAIN b.route.moves
            /\ b.route.needs = {"EXCEPTIONS_MANAGE"} /\ b.route.bound = {}
  BY NoPageIsNoStatus, RouteFields DEF ExceptionActions, AcknowledgeRoute, ResolveRoute
<1>2. hasAnyPermission("SUPER_ADMIN", {"EXCEPTIONS_MANAGE"})
  BY DEF hasAnyPermission, hasPermission, ROLE_PERMISSIONS, Permission
<1>3. QED
  BY <1>1, <1>2 DEF Accepted, Covered

LEMMA OnboardingButtonsWork ==
  \A buttons \in {OnboardingActions(ApproveSupplierRoute, RejectSupplierRoute),
               OnboardingActions(ApproveDriverRoute, RejectDriverRoute)} :
    Accepted(buttons, {}) /\ Covered("SUPER_ADMIN", buttons)
<1>1. ASSUME NEW buttons \in {OnboardingActions(ApproveSupplierRoute, RejectSupplierRoute),
                          OnboardingActions(ApproveDriverRoute, RejectDriverRoute)},
             NEW b \in buttons
      PROVE  /\ NoPage \notin b.shown /\ b.shown \subseteq DOMAIN b.route.moves
               /\ b.route.bound = {}
             /\ b.route.needs \in {{"SUPPLIERS_MANAGE"}, {"DRIVERS_MANAGE"}}
  BY NoPageIsNoStatus, RouteFields DEF OnboardingActions, ApproveSupplierRoute,
     RejectSupplierRoute, ApproveDriverRoute, RejectDriverRoute
<1>2. /\ hasAnyPermission("SUPER_ADMIN", {"SUPPLIERS_MANAGE"})
      /\ hasAnyPermission("SUPER_ADMIN", {"DRIVERS_MANAGE"})
  BY DEF hasAnyPermission, hasPermission, ROLE_PERMISSIONS, Permission
<1>3. QED
  BY <1>1, <1>2 DEF Accepted, Covered

LEMMA AvailabilityButtonsWork ==
  Accepted(AvailabilityToggle, {}) /\ Covered("DRIVER", AvailabilityToggle)
<1>1. \A b \in AvailabilityToggle :
        NoPage \notin b.shown /\ b.shown \subseteq DOMAIN b.route.moves
            /\ b.route.own = {"DRIVER"}
  BY NoPageIsNoStatus, RouteFields DEF AvailabilityToggle, PatchAvailability
<1>2. QED
  BY <1>1 DEF Accepted, Covered

LEMMA DocumentButtonsWork ==
  ASSUME NEW owner \in {"DRIVER", "SUPPLIER"}
  PROVE  /\ Accepted(DocumentUploadForm(owner), {}) /\ Covered(owner, DocumentUploadForm(owner))
         /\ Accepted(DocumentReviewActions(owner), {})
             /\ Covered("SUPER_ADMIN", DocumentReviewActions(owner))
<1>1. \A b \in DocumentUploadForm(owner) : NoPage \notin b.shown
        /\ b.shown \subseteq DOMAIN b.route.moves /\ b.route.own = {owner}
  BY NoPageIsNoStatus, RouteFields DEF DocumentUploadForm, PostDocument
<1>2. \A b \in DocumentReviewActions(owner) :
        NoPage \notin b.shown /\ b.shown \subseteq DOMAIN b.route.moves
            /\ b.route.needs = ManageOf(owner) /\ b.route.bound = {}
  BY NoPageIsNoStatus, RouteFields DEF DocumentReviewActions, VerifyRoute, RejectRoute
<1>3. hasAnyPermission("SUPER_ADMIN", ManageOf(owner))
  BY DEF hasAnyPermission, hasPermission, ROLE_PERMISSIONS, Permission, ManageOf
<1>4. QED
  BY <1>1, <1>2, <1>3 DEF Accepted, Covered

LEMMA TicketButtonsWork ==
  /\ Accepted(NewTicketForm, {}) /\ \A role \in Roles : Covered(role, NewTicketForm)
  /\ Accepted(TicketThread, {}) /\ \A role \in Roles : Covered(role, TicketThread)
  /\ Accepted(TicketAdminControls, {}) /\ Covered("SUPER_ADMIN", TicketAdminControls)
<1>1. \A b \in NewTicketForm :
        NoPage \notin b.shown /\ b.shown \subseteq DOMAIN b.route.moves
            /\ b.route.needs = Permission /\ b.route.bound = {}
  BY NoPageIsNoStatus, RouteFields DEF NewTicketForm, PostTicket, Anyone
<1>2. /\ \A b \in TicketThread : b.shown = TicketStates /\ DOMAIN b.route.moves = TicketStates
      /\ \A b \in TicketThread : b.route.own = Roles /\ b.route.needs = {"SUPPORT_MANAGE"}
          /\ b.route.bound = {}
  BY NoPageIsNoStatus, RouteFields DEF TicketThread, PostTicketMessage
<1>3. \A b \in TicketAdminControls :
        /\ b.shown = TicketStates /\ DOMAIN b.route.moves = TicketStates
        /\ b.route.needs = {"SUPPORT_MANAGE"} /\ b.route.bound = {}
  <2>1. ASSUME NEW route \in {PatchTicketAgent} \cup {PatchTicketStatus(to) : to \in TicketStates}
        PROVE  DOMAIN route.moves = TicketStates /\ route.needs = {"SUPPORT_MANAGE"}
                 /\ route.bound = {}
    BY NoPageIsNoStatus, RouteFields DEF PatchTicketAgent, PatchTicketStatus
  <2>2. QED
    BY <2>1, RouteFields DEF TicketAdminControls
<1>4. \A role \in Roles : hasAnyPermission(role, Permission)
  BY DEF hasAnyPermission, hasPermission, ROLE_PERMISSIONS, Permission, Roles
<1>5. hasAnyPermission("SUPER_ADMIN", {"SUPPORT_MANAGE"})
  BY DEF hasAnyPermission, hasPermission, ROLE_PERMISSIONS, Permission
<1>6. QED
  BY <1>1, <1>2, <1>3, <1>4, <1>5, NoPageIsNoStatus DEF Accepted, Covered, TicketStates

LEMMA WebhookButtonsWork ==
  Accepted(WebhookSettingsForm, {"OFF"}) /\ Covered("SUPPLIER", WebhookSettingsForm)
<1>1. \A b \in WebhookSettingsForm :
        NoPage \notin b.shown /\ b.shown \ {"OFF"} \subseteq DOMAIN b.route.moves
            /\ b.route.own = {"SUPPLIER"}
  BY NoPageIsNoStatus, RouteFields DEF WebhookSettingsForm, PutWebhook, RetryWebhook
<1>2. QED
  BY <1>1 DEF Accepted, Covered

LEMMA ZoneButtonsWork ==
  Accepted(DriverZoneAssignment, {}) /\ Covered("SUPER_ADMIN", DriverZoneAssignment)
<1>1. \A b \in DriverZoneAssignment :
        NoPage \notin b.shown /\ b.shown \subseteq DOMAIN b.route.moves
            /\ b.route.needs = {"DRIVERS_MANAGE"} /\ b.route.bound = {}
  BY NoPageIsNoStatus, RouteFields DEF DriverZoneAssignment, PostZone, DeleteZone
<1>2. hasAnyPermission("SUPER_ADMIN", {"DRIVERS_MANAGE"})
  BY DEF hasAnyPermission, hasPermission, ROLE_PERMISSIONS, Permission
<1>3. QED
  BY <1>1, <1>2 DEF Accepted, Covered

LEMMA ReviewButtonsWork ==
  Accepted(DeliveryReviewForm, {}) /\ Covered("CUSTOMER", DeliveryReviewForm)
<1>1. \A b \in DeliveryReviewForm : NoPage \notin b.shown
        /\ b.shown \subseteq DOMAIN b.route.moves /\ b.route.needs = Permission
  BY NoPageIsNoStatus, RouteFields DEF DeliveryReviewForm, PostReview, Anyone
<1>2. hasAnyPermission("CUSTOMER", Permission)
  BY DEF hasAnyPermission, hasPermission, ROLE_PERMISSIONS, Permission
<1>3. QED
  BY <1>1, <1>2 DEF Accepted, Covered

\* Every button of a page of these roles does what is shown, to who is shown it.
Fits(sort, buttons) ==
  \A b \in buttons :
    /\ NoPage \notin b.shown
    /\ \A s \in b.shown : s \in DOMAIN b.route.moves \/ <<sort, s>> \in RefusedAnyway
    /\ \A role \in b.page \ (Staff \ {"SUPER_ADMIN"}) :
         \/ /\ hasAnyPermission(role, b.route.needs)
            /\ role = "SUPER_ADMIN" => role \notin b.route.bound
         \/ role # "SUPER_ADMIN" /\ role \in b.route.own

LEMMA PageFits ==
  ASSUME NEW for, NEW buttons, NEW but, NEW sort,
         Accepted(buttons, but), \A s \in but : <<sort, s>> \in RefusedAnyway,
         \A role \in for \ (Staff \ {"SUPER_ADMIN"}) : Covered(role, buttons)
  PROVE  Fits(sort, Page(for, buttons))
<1>1. ASSUME NEW b \in Page(for, buttons)
      PROVE  \E c \in buttons : b.page = for /\ b.shown = c.shown /\ b.route = c.route
  BY DEF Page
<1>2. QED
  BY <1>1 DEF Fits, Accepted, Covered

LEMMA ButtonsWork == \A sort \in Sorts : Fits(sort, Buttons[sort])
<1>1. \A role \in Staff \ (Staff \ {"SUPER_ADMIN"}) : role = "SUPER_ADMIN"
  OBVIOUS
<1>2. \A sort, A, B : Fits(sort, A) /\ Fits(sort, B) => Fits(sort, A \cup B)
  BY DEF Fits
<1>3. \A A, B, but, role :
        /\ Accepted(A, but) /\ Accepted(B, {}) => Accepted(A \cup B, but)
        /\ Covered(role, A) /\ Covered(role, B) => Covered(role, A \cup B)
  BY DEF Accepted, Covered
<1>4. Fits("order", Buttons["order"])
  <2>1. Fits("order", OrderDetailPage)
    <3>1. Fits("order", Page(Staff, OrderActions))
      BY <1>1, PageFits, OrderActionsWork
    <3>2. Fits("order",
               Page({role \in Staff : hasPermission(role, "DISPATCH_MANAGE")}, DispatchPanel))
      BY <1>1, PageFits, DispatchPanelWorks
    <3>3. QED
      BY <1>2, <3>1, <3>2 DEF OrderDetailPage
  <2>2. Fits("order", SupplierOrderDetailPage)
    BY PageFits, CancelOrderButtonWorks DEF SupplierOrderDetailPage
  <2>3. Fits("order", MissionDetailPage)
    <3>1. /\ Accepted(MissionActions \cup (SosButton \cup OrderChatPanel(SendDriverMessage)),
                      {"CUSTOMER_REFUSED"})
          /\ Covered("DRIVER",
                     MissionActions \cup (SosButton \cup OrderChatPanel(SendDriverMessage)))
      BY <1>3, MissionActionsWork, ChatAndSosWork
    <3>2. MissionActions \cup SosButton \cup OrderChatPanel(SendDriverMessage)
            = MissionActions \cup (SosButton \cup OrderChatPanel(SendDriverMessage))
      OBVIOUS
    <3>3. <<"order", "CUSTOMER_REFUSED">> \in RefusedAnyway
      BY DEF RefusedAnyway
    <3>4. QED
      BY <3>1, <3>2, <3>3, PageFits DEF MissionDetailPage
  <2>4. Fits("order", TrackingPage)
    BY PageFits, ChatAndSosWork DEF TrackingPage
  <2>5. QED
    BY <1>2, <2>1, <2>2, <2>3, <2>4 DEF Buttons
<1>5. Fits("offer", Buttons["offer"])
  <2>1. <<"offer", "MOOT">> \in RefusedAnyway
    BY DEF RefusedAnyway
  <2>2. QED
    BY <2>1, PageFits, OfferButtonsWork DEF Buttons, MissionsPage
<1>6. Fits("settlement", Buttons["settlement"])
  BY <1>1, PageFits, SettlementButtonsWork DEF Buttons, SettlementsPage
<1>7. Fits("promo", Buttons["promo"])
  BY <1>1, PageFits, PromoButtonsWork DEF Buttons, PromotionsPage
<1>8. Fits("product", Buttons["product"])
  BY PageFits, ProductButtonsWork DEF Buttons, SupplierProductsPage
<1>9. Fits("exception", Buttons["exception"])
  BY <1>1, PageFits, ExceptionButtonsWork DEF Buttons, ControlTowerPage
<1>10. Fits("supplier", Buttons["supplier"])
  BY <1>1, PageFits, OnboardingButtonsWork DEF Buttons, OnboardingPage
<1>11. Fits("driver", Buttons["driver"])
  <2>1. Fits("driver", OnboardingPage(ApproveDriverRoute, RejectDriverRoute))
    BY <1>1, PageFits, OnboardingButtonsWork DEF OnboardingPage
  <2>2. Fits("driver", DriverSpace)
    BY PageFits, AvailabilityButtonsWork DEF DriverSpace
  <2>3. QED
    BY <1>2, <2>1, <2>2 DEF Buttons
<1>12. ASSUME NEW sort, NEW owner \in {"DRIVER", "SUPPLIER"}
       PROVE  Fits(sort, OwnDocumentsPage(owner) \cup DocumentsPage(owner))
  <2>1. Fits(sort, OwnDocumentsPage(owner))
    BY PageFits, DocumentButtonsWork DEF OwnDocumentsPage
  <2>2. Fits(sort, DocumentsPage(owner))
    BY <1>1, PageFits, DocumentButtonsWork DEF DocumentsPage
  <2>3. QED
    BY <1>2, <2>1, <2>2
<1>13. Fits("driverDocument", Buttons["driverDocument"])
        /\ Fits("supplierDocument", Buttons["supplierDocument"])
  BY <1>12 DEF Buttons
<1>14. Fits("ticket", Buttons["ticket"])
  <2>1. {"SUPPLIER", "DRIVER", "SUPER_ADMIN"} \subseteq Roles
    BY DEF Roles
  <2>2. Fits("ticket", OwnSupportPage) /\ Fits("ticket", OwnTicketPage)
    BY <2>1, PageFits, TicketButtonsWork DEF OwnSupportPage, OwnTicketPage
  <2>3. Fits("ticket", AdminTicketPage)
    <3>1. /\ Accepted(TicketAdminControls \cup TicketThread, {})
          /\ Covered("SUPER_ADMIN", TicketAdminControls \cup TicketThread)
      BY <1>3, <2>1, TicketButtonsWork
    <3>2. QED
      BY <1>1, <3>1, PageFits DEF AdminTicketPage
  <2>4. QED
    BY <1>2, <2>2, <2>3 DEF Buttons
<1>15. Fits("webhook", Buttons["webhook"])
  <2>1. <<"webhook", "OFF">> \in RefusedAnyway
    BY DEF RefusedAnyway
  <2>2. QED
    BY <2>1, PageFits, WebhookButtonsWork DEF Buttons, SupplierWebhooksPage
<1>16. Fits("zone", Buttons["zone"])
  BY <1>1, PageFits, ZoneButtonsWork DEF Buttons, DriverDetailPage
<1>17. Fits("review", Buttons["review"])
  BY PageFits, ReviewButtonsWork DEF Buttons, ReviewedPage
<1>18. Sorts = {"order", "offer", "settlement", "promo", "product", "exception", "supplier", "driver",
                "driverDocument", "supplierDocument", "ticket", "webhook", "zone", "review"}
  BY DEF Sorts, Buttons
<1>19. QED
  BY <1>4, <1>5, <1>6, <1>7, <1>8, <1>9, <1>10, <1>11, <1>13, <1>14, <1>15, <1>16, <1>17, <1>18

-----------------------------------------------------------------------------
(* Who sits in front of a screen may see it *)

ConsoleInv ==
  /\ thing \in Things
  /\ DOMAIN seat = People /\ seat = [p \in People |-> seat[p]]
  /\ \A p \in Screens : MayOpen(p)

LEMMA ConsoleInvariant == ConsoleSpec => []ConsoleInv
<1>1. ConsoleInit => ConsoleInv
  BY DEF ConsoleInit, ConsoleInv, Screens
<1>2. ASSUME ConsoleInv, [ConsoleNext]_consoleVars
      PROVE  ConsoleInv'
  <2>1. /\ thing \in Things /\ DOMAIN seat = People /\ seat = [p \in People |-> seat[p]]
        /\ \A p \in People : seat[p] # NoPage => MayOpen(p)
    BY <1>2 DEF ConsoleInv, Screens
  <2>2. ASSUME thing' = thing, NEW p \in People, MayOpen(p) \/ seat'[p] = NoPage,
               \/ seat' = seat
               \/ \E new : seat' = [seat EXCEPT ![p] = new]
        PROVE  ConsoleInv'
    <3>1. DOMAIN seat' = People /\ seat' = [q \in People |-> seat'[q]]
      BY <2>1, <2>2
    <3>2. \A q \in People : MayOpen(q) => MayOpen(q)'
      BY <2>2 DEF MayOpen
    <3>3. \A q \in People : seat'[q] # NoPage => MayOpen(q)
      BY <2>1, <2>2
    <3>4. QED
      BY <2>1, <2>2, <3>1, <3>2, <3>3 DEF ConsoleInv, Screens
  <2>3. ASSUME NEW p \in People, ShownTo(p) # {}
        PROVE  MayOpen(p)
    <3>1. sortOf[thing] \in Sorts
      BY <2>1, ConsoleAssumption
    <3>2. seat[p] # NoPage
      BY <2>3, <3>1, ButtonsWork DEF ShownTo, Fits
    <3>3. QED
      BY <2>1, <3>2
  <2>4. CASE MovesElsewhere \/ UNCHANGED consoleVars
    <3>1. thing' = thing /\ seat' = seat
      BY <2>4 DEF MovesElsewhere, consoleVars
    <3>2. QED
      BY <2>1, <3>1 DEF ConsoleInv, Screens, MayOpen
  <2>5. ASSUME NEW p \in People, OpenPage(p)
        PROVE  ConsoleInv'
    <3>1. PICK new : thing' = thing /\ MayOpen(p) /\ seat' = [seat EXCEPT ![p] = new]
      BY <2>5 DEF OpenPage
    <3>2. QED
      BY <2>2, <2>5, <3>1
  <2>6. ASSUME NEW p \in People, LeavePage(p)
        PROVE  ConsoleInv'
    BY <2>1, <2>2, <2>6 DEF LeavePage, Screens
  <2>7. ASSUME NEW p \in People, NEW why, ShownTo(p) # {}, Refused(p, why)
        PROVE  ConsoleInv'
    BY <2>2, <2>3, <2>7 DEF Refused
  <2>8. ASSUME NEW p \in People, PressAccepted(p)
        PROVE  ConsoleInv'
    BY <2>2, <2>3, <2>8 DEF PressAccepted
  <2>9. QED
    BY <1>2, <2>4, <2>5, <2>6, <2>7, <2>8 DEF ConsoleNext, PressForbidden, PressRefused
<1>3. QED
  BY <1>1, <1>2, PTL DEF ConsoleSpec

\* A step that refuses somebody is his pressing a button.
LEMMA WhoIsRefused ==
  ASSUME [ConsoleNext]_consoleVars, consoleVars' # consoleVars, NEW p, NEW why,
         refusal' = [why |-> why, to |-> p], why \in {"forbidden", "refused"}
  PROVE  p \in People /\ IF why = "refused" THEN PressRefused(p) ELSE PressForbidden(p)
<1>1. refusal'.why # "none" /\ NoRefusal.why = "none" /\ refusal'.to = p /\ refusal'.why = why
  BY DEF NoRefusal
<1>2. refusal' # NoRefusal
  BY <1>1
<1>3. PICK q \in People : PressForbidden(q) \/ PressRefused(q)
  BY <1>2 DEF ConsoleNext, MovesElsewhere, OpenPage, LeavePage, PressAccepted
<1>4. CASE PressForbidden(q)
  <2>1. refusal' = [why |-> "forbidden", to |-> q]
    BY <1>4 DEF PressForbidden, Refused
  <2>2. why = "forbidden" /\ p = q
    BY <1>1, <2>1
  <2>3. QED
    BY <1>4, <2>2
<1>5. CASE PressRefused(q)
  <2>1. refusal' = [why |-> "refused", to |-> q]
    BY <1>5 DEF PressRefused, Refused
  <2>2. why = "refused" /\ p = q
    BY <1>1, <2>1
  <2>3. QED
    BY <1>5, <2>2
<1>6. QED
  BY <1>3, <1>4, <1>5

(***************************************************************************)
(* The components of src/components against the routes of src/app/api/v1   *)
(* and their services, for any people and any things: who is refused was   *)
(* overtaken (RefusedAnyway apart), and only the staff is shown what it    *)
(* may not do.                                                             *)
(***************************************************************************)
THEOREM ButtonsDoWhatTheyShow == ConsoleSpec => RefusedOnlyIfOvertaken
<1>1. ASSUME ConsoleInv, [ConsoleNext]_consoleVars, consoleVars' # consoleVars, NEW p \in People
      PROVE  /\ refusal' = [why |-> "refused", to |-> p] =>
                  seat[p] # thingStatus \/ <<sortOf[thing], thingStatus>> \in RefusedAnyway
             /\ refusal' = [why |-> "forbidden", to |-> p] =>
                 roleOf[p] \in Staff \ {"SUPER_ADMIN"}
  <2>1. sortOf[thing] \in Sorts /\ Fits(sortOf[thing], Buttons[sortOf[thing]])
    BY <1>1, ConsoleAssumption, ButtonsWork DEF ConsoleInv
  <2>2. ASSUME refusal' = [why |-> "refused", to |-> p]
        PROVE  seat[p] # thingStatus \/ <<sortOf[thing], thingStatus>> \in RefusedAnyway
    <3>1. PressRefused(p)
      BY <1>1, <2>2, WhoIsRefused
    <3>2. QED
      BY <2>1, <3>1 DEF PressRefused, ShownTo, Fits
  <2>3. ASSUME refusal' = [why |-> "forbidden", to |-> p]
        PROVE  roleOf[p] \in Staff \ {"SUPER_ADMIN"}
    <3>1. PressForbidden(p)
      BY <1>1, <2>3, WhoIsRefused
    <3>2. PICK b \in ShownTo(p) : ~Granted(p, b.route)
      BY <3>1 DEF PressForbidden
    <3>3. b \in Buttons[sortOf[thing]] /\ roleOf[p] \in b.page /\ seat[p] # NoPage
      BY <2>1, <3>2 DEF ShownTo, Fits
    <3>4. roleOf[p] \in Staff \/ p \in ownersOf[thing]
      BY <1>1, <3>3 DEF ConsoleInv, Screens, MayOpen
    <3>5. QED
      BY <2>1, <3>2, <3>3, <3>4 DEF Granted, Fits
  <2>4. QED
    BY <2>2, <2>3
<1>2. ConsoleInv /\ [ConsoleNext]_consoleVars =>
        [\A p \in People :
           /\ refusal' = [why |-> "refused", to |-> p] =>
                seat[p] # thingStatus \/ <<sortOf[thing], thingStatus>> \in RefusedAnyway
           /\ refusal' = [why |-> "forbidden", to |-> p] => roleOf[p] \in Staff \ {"SUPER_ADMIN"}
        ]_consoleVars
  BY <1>1
<1>3. QED
  BY <1>2, ConsoleInvariant, PTL DEF ConsoleSpec, RefusedOnlyIfOvertaken

-----------------------------------------------------------------------------
(* Who leads on *)

\* There is an administrator, and every order and offer has its driver.
Staffed ==
  /\ \E p \in People : roleOf[p] = "SUPER_ADMIN"
  /\ \A x \in Things :
       sortOf[x] \in {"order", "offer"} => \E p \in ownersOf[x] : roleOf[p] = "DRIVER"

\* A page drawn for the role has a button that moves the status on.
MovesOn(b, role, s) ==
  /\ role \in b.page /\ s \in b.shown
  /\ s \in DOMAIN b.route.moves /\ b.route.moves[s] # s
  /\ hasAnyPermission(role, b.route.needs)

AdminMovesOn(sort, s) ==
  \E b \in Buttons[sort] : MovesOn(b, "SUPER_ADMIN", s) /\ "SUPER_ADMIN" \notin b.route.bound
DriverMovesOn(sort, s) == \E b \in Buttons[sort] : MovesOn(b, "DRIVER", s)

LEMMA ButtonOfPage ==
  ASSUME NEW for, NEW buttons, NEW b \in buttons, NEW role \in for, NEW s \in b.shown,
         s \in DOMAIN b.route.moves, b.route.moves[s] # s, hasAnyPermission(role, b.route.needs)
  PROVE  \E c \in Page(for, buttons) : MovesOn(c, role, s) /\ c.route = b.route
<1>1. [page |-> for, shown |-> b.shown, route |-> b.route] \in Page(for, buttons)
  BY DEF Page
<1>2. QED
  BY <1>1 DEF MovesOn

LEMMA TransitionMoves ==
  ASSUME NEW s \in OrderStatus, NEW to, canTransition(s, to)
  PROVE  s \in DOMAIN Transition(to) /\ Transition(to)[s] = to
BY DEF Transition, Turning

LEMMA PermissionsOfAll ==
  /\ \A needs \in SUBSET Permission : needs # {} => hasAnyPermission("SUPER_ADMIN", needs)
  /\ \A needs : "DELIVERIES_UPDATE_STATUS" \in needs => hasAnyPermission("DRIVER", needs)
BY DEF hasAnyPermission, hasPermission, ROLE_PERMISSIONS

LEMMA AdminMovesOrders ==
  \A s \in {"PENDING", "CONFIRMED", "READY_FOR_PICKUP"} : AdminMovesOn("order", s)
<1>1. ASSUME NEW s \in {"PENDING", "CONFIRMED"}
      PROVE  AdminMovesOn("order", s)
  <2>1. PICK to \in {"CONFIRMED", "READY_FOR_PICKUP"} :
          Button({s}, UpdateOrderStatus(to)) \in OrderActions /\ canTransition(s, to) /\ to # s
    BY ButtonTransitions DEF OrderActions
  <2>2. /\ UpdateOrderStatus(to).moves = Transition(to)
          /\ UpdateOrderStatus(to).bound = {"SUPPLIER"}
        /\ UpdateOrderStatus(to).needs = {"ORDERS_UPDATE_STATUS"}
    BY RouteFields DEF UpdateOrderStatus
  <2>3. s \in DOMAIN Transition(to) /\ Transition(to)[s] # s
    BY <2>1, TransitionMoves DEF OrderStatus
  <2>4. hasAnyPermission("SUPER_ADMIN", {"ORDERS_UPDATE_STATUS"})
    BY DEF hasAnyPermission, hasPermission, ROLE_PERMISSIONS, Permission
  <2>5. \E c \in Page(Staff, OrderActions) : MovesOn(c, "SUPER_ADMIN", s)
          /\ c.route.bound = {"SUPPLIER"}
    <3>1. PICK b \in OrderActions :
            s \in b.shown /\ b.route = UpdateOrderStatus(to)
      BY <2>1, RouteFields
    <3>2. b.route.moves = Transition(to) /\ b.route.needs = {"ORDERS_UPDATE_STATUS"}
            /\ b.route.bound = {"SUPPLIER"}
      BY <2>2, <3>1
    <3>3. "SUPER_ADMIN" \in Staff
      BY DEF Staff
    <3>4. s \in DOMAIN b.route.moves /\ b.route.moves[s] # s
            /\ hasAnyPermission("SUPER_ADMIN", b.route.needs)
      BY <2>3, <2>4, <3>2
    <3>5. \E c \in Page(Staff, OrderActions) : MovesOn(c, "SUPER_ADMIN", s) /\ c.route = b.route
      BY <3>1, <3>3, <3>4, ButtonOfPage
    <3>6. QED
      BY <3>2, <3>5
  <2>6. QED
    BY <2>5 DEF AdminMovesOn, Buttons, OrderDetailPage
<1>2. AdminMovesOn("order", "READY_FOR_PICKUP")
  <2>1. Button({"READY_FOR_PICKUP"}, AssignDriver) \in DispatchPanel
    BY DEF DispatchPanel
  <2>2. /\ AssignDriver.moves = Transition("ASSIGNED") /\ AssignDriver.bound = {}
        /\ AssignDriver.needs = {"DISPATCH_MANAGE"}
    BY RouteFields DEF AssignDriver
  <2>3. "READY_FOR_PICKUP" \in DOMAIN Transition("ASSIGNED")
        /\ Transition("ASSIGNED")["READY_FOR_PICKUP"] # "READY_FOR_PICKUP"
    BY ButtonTransitions, TransitionMoves DEF OrderStatus
  <2>4. hasAnyPermission("SUPER_ADMIN", {"DISPATCH_MANAGE"})
          /\ hasPermission("SUPER_ADMIN", "DISPATCH_MANAGE")
    BY DEF hasAnyPermission, hasPermission, ROLE_PERMISSIONS, Permission
  <2>5. \E c \in Page({role \in Staff : hasPermission(role, "DISPATCH_MANAGE")}, DispatchPanel) :
          MovesOn(c, "SUPER_ADMIN", "READY_FOR_PICKUP") /\ c.route.bound = {}
    <3>1. PICK b \in DispatchPanel : "READY_FOR_PICKUP" \in b.shown /\ b.route = AssignDriver
      BY <2>1, RouteFields
    <3>2. b.route.moves = Transition("ASSIGNED") /\ b.route.needs = {"DISPATCH_MANAGE"}
            /\ b.route.bound = {}
      BY <2>2, <3>1
    <3>3. "SUPER_ADMIN" \in {role \in Staff : hasPermission(role, "DISPATCH_MANAGE")}
      BY <2>4 DEF Staff
    <3>4. /\ "READY_FOR_PICKUP" \in DOMAIN b.route.moves
            /\ b.route.moves["READY_FOR_PICKUP"] # "READY_FOR_PICKUP"
          /\ hasAnyPermission("SUPER_ADMIN", b.route.needs)
      BY <2>3, <2>4, <3>2
    <3>5. \E c \in Page({role \in Staff : hasPermission(role, "DISPATCH_MANAGE")},
                        DispatchPanel) :
            MovesOn(c, "SUPER_ADMIN", "READY_FOR_PICKUP") /\ c.route = b.route
      BY <3>1, <3>3, <3>4, ButtonOfPage
    <3>6. QED
      BY <3>2, <3>5
  <2>6. QED
    BY <2>5 DEF AdminMovesOn, Buttons, OrderDetailPage
<1>3. QED
  BY <1>1, <1>2

LEMMA DriverMovesOrders ==
  \A s \in OrderStatus \ (TERMINAL_STATUSES \cup {"PENDING", "CONFIRMED", "READY_FOR_PICKUP"}) :
    DriverMovesOn("order", s)
<1> SUFFICES ASSUME NEW s \in OrderStatus
                      \ (TERMINAL_STATUSES \cup {"PENDING", "CONFIRMED", "READY_FOR_PICKUP"})
             PROVE  DriverMovesOn("order", s)
  OBVIOUS
<1>1. ASSUME NEW b \in MissionActions, NEW to,
             s \in b.shown, b.route = OnDelivery(Transition(to)), canTransition(s, to), to # s
      PROVE  DriverMovesOn("order", s)
  <2>1. b.route.moves = Transition(to) /\ b.route.needs = {"DELIVERIES_UPDATE_STATUS"}
    BY <1>1, RouteFields DEF OnDelivery
  <2>2. s \in DOMAIN Transition(to) /\ Transition(to)[s] # s
    BY <1>1, TransitionMoves
  <2>3. b \in MissionActions \cup SosButton \cup OrderChatPanel(SendDriverMessage)
    OBVIOUS
  <2>4. \E c \in MissionDetailPage : MovesOn(c, "DRIVER", s)
    BY <1>1, <2>1, <2>2, <2>3, PermissionsOfAll, ButtonOfPage DEF MissionDetailPage
  <2>5. QED
    BY <2>4 DEF DriverMovesOn, Buttons
<1>2. CASE s = "OUT_FOR_DELIVERY"
  <2>1. "SUCCESS" \in Results /\ ATTEMPT_RESULT_TO_ORDER_STATUS["SUCCESS"] = "DELIVERED"
    BY DEF Results, ATTEMPT_RESULT_TO_ORDER_STATUS
  <2>2. Button({q \in OrderStatus : "SUCCESS" \in ResultButtons(q)}, RecordAttempt("SUCCESS"))
          \in MissionActions
    BY <2>1 DEF MissionActions
  <2>3. s \in {q \in OrderStatus : "SUCCESS" \in ResultButtons(q)}
    BY <1>2, <2>1 DEF ResultButtons
  <2>4. canTransition("OUT_FOR_DELIVERY", "DELIVERED")
    BY <2>1, ButtonTransitions
  <2>5. QED
    BY <1>1, <1>2, <2>1, <2>2, <2>3, <2>4, RouteFields DEF RecordAttempt
<1>3. CASE s # "OUT_FOR_DELIVERY"
  <2>1. PICK to \in {"PICKED_UP", "IN_TRANSIT", "OUT_FOR_DELIVERY", "RETURNED"} :
          to \in StatusButtons(s) /\ canTransition(s, to) /\ to # s
    BY <1>3, ButtonTransitions DEF StatusButtons, OrderStatus, TERMINAL_STATUSES, FAILURE_STATUSES
  <2>2. PICK b \in MissionActions : b.shown = ScreenOf(to) /\ b.route = OnDelivery(Transition(to))
    <3>1. CASE to = "RETURNED"
      <4>1. Button(ScreenOf(to), ResolveFailedDelivery(to)) \in MissionActions
        BY <3>1 DEF MissionActions
      <4>2. QED
        BY <4>1, RouteFields DEF ResolveFailedDelivery
    <3>2. CASE to # "RETURNED"
      <4>1. Button(ScreenOf(to), AdvanceDelivery(to)) \in MissionActions
        BY <3>2 DEF MissionActions
      <4>2. QED
        BY <4>1, RouteFields DEF AdvanceDelivery
    <3>3. QED
      BY <3>1, <3>2
  <2>3. s \in b.shown
    BY <2>1, <2>2 DEF ScreenOf
  <2>4. QED
    BY <1>1, <2>1, <2>2, <2>3
<1>4. QED
  BY <1>2, <1>3

LEMMA AdminsPage ==
  ASSUME NEW sort, NEW buttons, Page(Staff, buttons) \subseteq Buttons[sort],
         NEW b \in buttons, NEW s \in b.shown,
         s \in DOMAIN b.route.moves, b.route.moves[s] # s,
         b.route.needs \subseteq Permission, b.route.needs # {}, b.route.bound = {}
  PROVE  AdminMovesOn(sort, s)
<1>1. hasAnyPermission("SUPER_ADMIN", b.route.needs) /\ "SUPER_ADMIN" \in Staff
  BY PermissionsOfAll DEF Staff
<1>2. \E c \in Page(Staff, buttons) : MovesOn(c, "SUPER_ADMIN", s) /\ c.route = b.route
  BY <1>1, ButtonOfPage
<1>3. QED
  BY <1>2 DEF AdminMovesOn

LEMMA AdminMovesTheRest ==
  \A sort \in Sorts \ {"order", "offer"} : \A s \in Waiting[sort] : AdminMovesOn(sort, s)
<1>1. /\ Waiting["settlement"] = {"DRAFT", "PENDING_PAYMENT"}
        /\ Waiting["exception"] = {"OPEN", "ACKNOWLEDGED"}
      /\ Waiting["supplier"] = {"PENDING_APPROVAL"} /\ Waiting["driver"] = {"PENDING_APPROVAL"}
      /\ Waiting["driverDocument"] = {"UPLOADED"} /\ Waiting["supplierDocument"] = {"UPLOADED"}
      /\ Waiting["ticket"] = {"OPEN", "IN_PROGRESS"}
      /\ \A sort \in {"promo", "product", "webhook", "zone", "review"} : Waiting[sort] = {}
  BY DEF Waiting, Sorts, Buttons
<1>2. ASSUME NEW s \in {"DRAFT", "PENDING_PAYMENT"}
      PROVE  AdminMovesOn("settlement", s)
  <2>1. PICK b \in GenerateSettlementForm \cup SettlementActions :
          /\ s \in b.shown /\ s \in DOMAIN b.route.moves /\ b.route.moves[s] # s
          /\ b.route.needs = {"SETTLEMENTS_MANAGE"} /\ b.route.bound = {}
    BY RouteFields DEF SettlementActions, SubmitSettlement, ConfirmPaid, OnSettlements
  <2>2. Page(Staff, GenerateSettlementForm \cup SettlementActions) \subseteq Buttons["settlement"]
    BY DEF Buttons, SettlementsPage
  <2>3. QED
    BY <2>1, <2>2, AdminsPage DEF Permission
<1>3. ASSUME NEW s \in {"OPEN", "ACKNOWLEDGED"}
      PROVE  AdminMovesOn("exception", s)
  <2>1. PICK b \in ExceptionActions :
          /\ s \in b.shown /\ s \in DOMAIN b.route.moves /\ b.route.moves[s] # s
          /\ b.route.needs = {"EXCEPTIONS_MANAGE"} /\ b.route.bound = {}
    BY RouteFields DEF ExceptionActions, ResolveRoute
  <2>2. Page(Staff, ExceptionActions) \subseteq Buttons["exception"]
    BY DEF Buttons, ControlTowerPage
  <2>3. QED
    BY <2>1, <2>2, AdminsPage DEF Permission
<1>4. AdminMovesOn("supplier", "PENDING_APPROVAL")
  <2>1. PICK b \in OnboardingActions(ApproveSupplierRoute, RejectSupplierRoute) :
          /\ "PENDING_APPROVAL" \in b.shown /\ "PENDING_APPROVAL" \in DOMAIN b.route.moves
          /\ b.route.moves["PENDING_APPROVAL"] # "PENDING_APPROVAL"
          /\ b.route.needs = {"SUPPLIERS_MANAGE"} /\ b.route.bound = {}
    BY RouteFields DEF OnboardingActions, ApproveSupplierRoute
  <2>2. Page(Staff, OnboardingActions(ApproveSupplierRoute, RejectSupplierRoute)) \subseteq Buttons["supplier"]
    BY DEF Buttons, OnboardingPage
  <2>3. QED
    BY <2>1, <2>2, AdminsPage DEF Permission
<1>5. AdminMovesOn("driver", "PENDING_APPROVAL")
  <2>1. PICK b \in OnboardingActions(ApproveDriverRoute, RejectDriverRoute) :
          /\ "PENDING_APPROVAL" \in b.shown /\ "PENDING_APPROVAL" \in DOMAIN b.route.moves
          /\ b.route.moves["PENDING_APPROVAL"] # "PENDING_APPROVAL"
          /\ b.route.needs = {"DRIVERS_MANAGE"} /\ b.route.bound = {}
    BY RouteFields DEF OnboardingActions, ApproveDriverRoute
  <2>2. Page(Staff, OnboardingActions(ApproveDriverRoute, RejectDriverRoute)) \subseteq Buttons["driver"]
    BY DEF Buttons, OnboardingPage
  <2>3. QED
    BY <2>1, <2>2, AdminsPage DEF Permission
<1>6. ASSUME NEW owner \in {"DRIVER", "SUPPLIER"}, NEW sort, DocumentsPage(owner) \subseteq Buttons[sort]
      PROVE  AdminMovesOn(sort, "UPLOADED")
  <2>1. PICK b \in DocumentReviewActions(owner) :
          /\ "UPLOADED" \in b.shown /\ "UPLOADED" \in DOMAIN b.route.moves
          /\ b.route.moves["UPLOADED"] # "UPLOADED"
          /\ b.route.needs = ManageOf(owner) /\ b.route.bound = {}
    BY RouteFields DEF DocumentReviewActions, VerifyRoute
  <2>2. Page(Staff, DocumentReviewActions(owner)) \subseteq Buttons[sort]
    BY <1>6 DEF DocumentsPage
  <2>3. ManageOf(owner) \subseteq Permission /\ ManageOf(owner) # {}
    BY DEF ManageOf, Permission
  <2>4. QED
    BY <2>1, <2>2, <2>3, AdminsPage
<1>7. AdminMovesOn("driverDocument", "UPLOADED") /\ AdminMovesOn("supplierDocument", "UPLOADED")
  BY <1>6 DEF Buttons
<1>8. ASSUME NEW s \in {"OPEN", "IN_PROGRESS"}
      PROVE  AdminMovesOn("ticket", s)
  <2>1. Button(TicketStates, PatchTicketStatus("RESOLVED"))
          \in TicketAdminControls \cup TicketThread
    BY DEF TicketAdminControls, TicketStates
  <2>2. PICK b \in TicketAdminControls \cup TicketThread :
          /\ s \in b.shown /\ s \in DOMAIN b.route.moves /\ b.route.moves[s] # s
          /\ b.route.needs = {"SUPPORT_MANAGE"} /\ b.route.bound = {}
    BY <2>1, RouteFields DEF PatchTicketStatus, TicketStates
  <2>3. Page(Staff, TicketAdminControls \cup TicketThread) \subseteq Buttons["ticket"]
    BY DEF Buttons, AdminTicketPage
  <2>4. QED
    BY <2>2, <2>3, AdminsPage DEF Permission
<1>9. QED
  BY <1>1, <1>2, <1>3, <1>4, <1>5, <1>7, <1>8 DEF Sorts, Buttons

LEMMA DriverMovesOffers == DriverMovesOn("offer", "PENDING")
<1>1. PICK b \in PendingOffers :
        /\ "PENDING" \in b.shown /\ "PENDING" \in DOMAIN b.route.moves
            /\ b.route.moves["PENDING"] # "PENDING"
        /\ "DELIVERIES_UPDATE_STATUS" \in b.route.needs
  BY RouteFields DEF PendingOffers, AcceptOffer
<1>2. hasAnyPermission("DRIVER", b.route.needs)
  BY <1>1, PermissionsOfAll
<1>3. \E c \in MissionsPage : MovesOn(c, "DRIVER", "PENDING")
  BY <1>1, <1>2, ButtonOfPage DEF MissionsPage
<1>4. QED
  BY <1>3 DEF DriverMovesOn, Buttons

(***************************************************************************)
(* The pages and routes leave nobody waiting, for any staff with an        *)
(* administrator in it and any orders and offers that have their driver: a *)
(* thing at a status that waits always has a button somebody may press and *)
(* that moves it on.                                                       *)
(***************************************************************************)
THEOREM SomebodyCanLeadOn ==
  ASSUME Staffed
  PROVE  ConsoleSpec => []SomebodyLeadsOn
<1>1. ASSUME ConsoleInv
      PROVE  SomebodyLeadsOn
  <2>1. thing \in Things /\ sortOf[thing] \in Sorts /\ ownersOf[thing] \subseteq People
    BY <1>1, ConsoleAssumption DEF ConsoleInv
  <2>2. ASSUME AdminMovesOn(sortOf[thing], thingStatus)
        PROVE  \E p \in People : MayOpen(p) /\ \E b \in Buttons[sortOf[thing]] : LeadsOn(b, p)
    <3>1. PICK p \in People : roleOf[p] = "SUPER_ADMIN"
      BY DEF Staffed
    <3>2. PICK b \in Buttons[sortOf[thing]] :
            MovesOn(b, "SUPER_ADMIN", thingStatus) /\ "SUPER_ADMIN" \notin b.route.bound
      BY <2>2 DEF AdminMovesOn
    <3>3. MayOpen(p)
      BY <3>1, <3>2 DEF MayOpen, MovesOn, Staff
    <3>4. LeadsOn(b, p)
      BY <3>1, <3>2 DEF LeadsOn, MovesOn, Granted
    <3>5. QED
      BY <3>3, <3>4
  <2>3. ASSUME DriverMovesOn(sortOf[thing], thingStatus), sortOf[thing] \in {"order", "offer"}
        PROVE  \E p \in People : MayOpen(p) /\ \E b \in Buttons[sortOf[thing]] : LeadsOn(b, p)
    <3>1. PICK p \in ownersOf[thing] : roleOf[p] = "DRIVER"
      BY <2>1, <2>3 DEF Staffed
    <3>2. PICK b \in Buttons[sortOf[thing]] : MovesOn(b, "DRIVER", thingStatus)
      BY <2>3 DEF DriverMovesOn
    <3>3. MayOpen(p)
      BY <3>1, <3>2 DEF MayOpen, MovesOn
    <3>4. LeadsOn(b, p)
      BY <3>1, <3>2 DEF LeadsOn, MovesOn, Granted
    <3>5. QED
      BY <2>1, <3>3, <3>4
  <2>4. Waiting["order"] = OrderStatus \ TERMINAL_STATUSES /\ Waiting["offer"] = {"PENDING"}
    BY DEF Waiting, Sorts, Buttons
  <2>5. ASSUME thingStatus \in Waiting[sortOf[thing]]
        PROVE  \/ AdminMovesOn(sortOf[thing], thingStatus)
               \/ DriverMovesOn(sortOf[thing], thingStatus)
                   /\ sortOf[thing] \in {"order", "offer"}
    BY <2>1, <2>4, <2>5, AdminMovesOrders, DriverMovesOrders, DriverMovesOffers, AdminMovesTheRest
  <2>6. QED
    BY <2>2, <2>3, <2>5 DEF SomebodyLeadsOn
<1>2. QED
  BY <1>1, ConsoleInvariant, PTL

-----------------------------------------------------------------------------
(* Pages: no redirect leads back to one he came through *)

Spaces == {"/dashboard", "/supplier", "/missions"}

\* The addresses of the roles' spaces that are not for him.
NotForHim ==
  \/ page = "/dashboard" /\ visitor \notin Staff
  \/ page = "/supplier" /\ visitor # "SUPPLIER"
  \/ page = "/missions" /\ visitor # "DRIVER"
  \/ page = "/onboarding/pending" /\ visitor \notin DOMAIN Approved

\* How far down the redirects he can be at each address: one that is not for him is only
\* where he starts, "/" the second, his space the third, the onboarding page the fourth,
\* and the space of one who has just been approved the fifth.
OnHisWay ==
  /\ hops <= 5
  /\ NotForHim \/ page = "/account" => hops = 0
  /\ page = "/" => hops <= 1
  /\ page = "/onboarding/pending" => hops <= 3
  /\ page \in Spaces => hops <= 4
  /\ page \in Spaces /\ profile \in {"PENDING_APPROVAL", "REJECTED"} => hops <= 2

NoProfile(role) == visitor = role /\ profile = "none"

\* Who has logged in and asked for nothing is among the pages of his role.
OnceInside ==
  entering => /\ loggedIn
              /\ visitor \in Homeless \/ NoProfile("DRIVER") \/ (page # "/login" /\ ~NotForHim)

PagesInv == PagesTypeOK /\ (NoProfile("SUPPLIER") \/ OnHisWay) /\ OnceInside

\* Where a redirect leads.
LEMMA RedirectsGoDown ==
  ASSUME PagesTypeOK, ~Rendered
  PROVE  /\ AnsweredWith \in Addresses \ {"/account"}
         /\ AnsweredWith = "/" => loggedIn /\ NotForHim
         /\ AnsweredWith \in Spaces =>
              /\ loggedIn
              /\ \/ page = "/"
                 \/ /\ page = "/onboarding/pending" /\ visitor \in DOMAIN Approved
                    /\ profile \in {"none"} \cup Approved[visitor]
         /\ AnsweredWith = "/onboarding/pending" =>
              /\ loggedIn /\ page \in Spaces
              /\ profile \in {"PENDING_APPROVAL", "REJECTED"} \/ NoProfile("SUPPLIER")
         /\ loggedIn /\ AnsweredWith = "/login" => visitor \in Homeless \/ NoProfile("DRIVER")
         /\ AnsweredWith = "/dashboard" => visitor \in Staff
         /\ AnsweredWith = "/supplier" => visitor = "SUPPLIER"
         /\ AnsweredWith = "/missions" => visitor = "DRIVER"
         /\ AnsweredWith = "/onboarding/pending" => visitor \in DOMAIN Approved
<1>1. DOMAIN Approved = {"SUPPLIER", "DRIVER"}
  BY DEF Approved
<1>2. Approved["SUPPLIER"] = {"ACTIVE"} /\ Approved["DRIVER"] = {"OFFLINE", "AVAILABLE", "BUSY"}
  BY DEF Approved
<1>3. visitor \in Roles /\ page \in Addresses /\ loggedIn \in BOOLEAN
  BY DEF PagesTypeOK
<1>4. CASE ~loggedIn
  BY <1>3, <1>4 DEF AnsweredWith, RootPage, DashboardLayout, SupplierLayout, DriverLayout,
     OnboardingPendingPage,
     AccountPage, requirePageUser, Rendered, Addresses, Spaces
<1>5. CASE loggedIn /\ page \in {"/login", "/account", "/"}
  BY <1>1, <1>3, <1>5 DEF AnsweredWith, RootPage, AccountPage, requirePageUser, Rendered,
     Addresses, Spaces, getHomePathForRole, Roles,
     Homeless, Staff
<1>6. CASE loggedIn /\ page = "/dashboard"
  BY <1>1, <1>3, <1>6 DEF AnsweredWith, DashboardLayout, requirePageUser, Rendered, Addresses,
     Spaces, NotForHim
<1>7. CASE loggedIn /\ page = "/supplier"
  <2>1. visitor = "SUPPLIER" => profile \in {"none", "PENDING_APPROVAL", "REJECTED", "ACTIVE"}
    BY <1>1, <1>2 DEF PagesTypeOK, ProfilesOf
  <2>2. QED
    BY <1>1, <1>3, <1>7, <2>1 DEF AnsweredWith, SupplierLayout, requirePageUser, Rendered,
       Addresses, Spaces, NotForHim, NoProfile
<1>8. CASE loggedIn /\ page = "/missions"
  BY <1>1, <1>3, <1>8 DEF AnsweredWith, DriverLayout, requirePageUser, Rendered, Addresses,
     Spaces, NotForHim, NoProfile
<1>9. CASE loggedIn /\ page = "/onboarding/pending"
  BY <1>1, <1>2, <1>3, <1>9 DEF AnsweredWith, OnboardingPendingPage, requirePageUser, Rendered,
     Addresses, Spaces, NotForHim, 
    getHomePathForRole
<1>10. QED
  BY <1>3, <1>4, <1>5, <1>6, <1>7, <1>8, <1>9 DEF Addresses

LEMMA RedirectKeeps ==
  ASSUME PagesInv, Redirect
  PROVE  PagesInv'
<1>1. /\ PagesTypeOK /\ ~Rendered /\ page' = AnsweredWith /\ hops' = hops + 1 /\ hops < MaxHops
      /\ visitor' = visitor /\ profile' = profile /\ loggedIn' = loggedIn /\ entering' = entering
  BY DEF PagesInv, Redirect
<1>2. hops \in Nat /\ MaxHops \in Nat /\ hops' \in 0 .. MaxHops
  BY <1>1, PagesAssumption DEF PagesTypeOK
<1>3. page' \in Addresses \ {"/account"}
  BY <1>1, RedirectsGoDown
<1>4. PagesTypeOK'
  BY <1>1, <1>2, <1>3 DEF PagesTypeOK
<1>5. ~NotForHim'
  BY <1>1, RedirectsGoDown DEF NotForHim
<1>6. ASSUME OnHisWay, ~NoProfile("SUPPLIER")
      PROVE  OnHisWay'
  <2>1. page \in Addresses /\ page # "/login"
    BY <1>1 DEF PagesTypeOK, Rendered, AnsweredWith
  <2>2. hops <= 4
    BY <1>2, <1>6, <2>1 DEF OnHisWay, Addresses, Spaces
  <2>3. page' = "/" => hops = 0
    BY <1>1, <1>6, RedirectsGoDown DEF OnHisWay
  <2>4. page' = "/onboarding/pending" => hops <= 2
    BY <1>1, <1>6, RedirectsGoDown DEF OnHisWay
  <2>5. page' \in Spaces => hops <= 1 \/ (hops <= 3 /\ profile \in {"none"}
          \cup Approved[visitor] /\ visitor \in DOMAIN Approved)
    BY <1>1, <1>6, RedirectsGoDown DEF OnHisWay
  <2>6. profile \in {"none"} \cup Approved[visitor] /\ visitor \in DOMAIN Approved =>
          profile \notin {"PENDING_APPROVAL", "REJECTED"}
    BY DEF Approved
  <2>7. QED
    BY <1>1, <1>2, <1>3, <1>5, <2>2, <2>3, <2>4, <2>5, <2>6 DEF OnHisWay
<1>7. OnceInside'
  <2>1. loggedIn /\ page' = "/login" => visitor \in Homeless \/ NoProfile("DRIVER")
    BY <1>1, RedirectsGoDown
  <2>2. NoProfile("DRIVER")' <=> NoProfile("DRIVER")
    BY <1>1 DEF NoProfile
  <2>3. QED
    BY <1>1, <1>5, <2>1, <2>2, Zenon DEF PagesInv, OnceInside
<1>8. NoProfile("SUPPLIER") => NoProfile("SUPPLIER")'
  BY <1>1 DEF NoProfile
<1>9. QED
  BY <1>4, <1>6, <1>7, <1>8 DEF PagesInv

LEMMA ProfileChangeKeeps ==
  ASSUME PagesInv, ProfileChanges
  PROVE  PagesInv'
<1>1. /\ PagesTypeOK 
      /\ visitor' = visitor /\ page' = page /\ hops' = hops /\ loggedIn' = loggedIn
          /\ entering' = entering
  BY DEF PagesInv, ProfileChanges
<1>2. /\ DOMAIN Approved = {"SUPPLIER", "DRIVER"}
      /\ Approved["SUPPLIER"] = {"ACTIVE"}
          /\ Approved["DRIVER"] = {"OFFLINE", "AVAILABLE", "BUSY"}
  BY DEF Approved
<1>3. /\ profile # "none" /\ profile' \in ProfilesOf(visitor) /\ profile' # "none"
      /\ profile' \in {"PENDING_APPROVAL", "REJECTED"} => profile = "PENDING_APPROVAL"
  BY <1>1, <1>2 DEF ProfileChanges, PagesTypeOK, ProfilesOf
<1>4. PagesTypeOK'
  BY <1>1, <1>3 DEF PagesTypeOK
<1>5. \A role : ~NoProfile(role) /\ ~NoProfile(role)'
  BY <1>3 DEF NoProfile
<1>6. NotForHim' <=> NotForHim
  BY <1>1 DEF NotForHim
<1>7. OnHisWay'
  BY <1>1, <1>3, <1>5, <1>6 DEF PagesInv, OnHisWay
<1>8. OnceInside'
  BY <1>1, <1>5, <1>6, Zenon DEF PagesInv, OnceInside
<1>9. QED
  BY <1>4, <1>7, <1>8 DEF PagesInv

(***************************************************************************)
(* page-auth.ts, role-routing.ts and the layouts: whatever ends or is      *)
(* decided on the way, nobody is redirected more than five times (a        *)
(* supplier left without a profile apart), and who logs in does not come   *)
(* back to the login page (but for a role without pages of its own and a   *)
(* driver left without a profile).                                         *)
(***************************************************************************)
THEOREM RedirectsEnd == PagesSpec => []RedirectsLeadHome
<1>1. PagesInit => PagesInv
  <2>1. SUFFICES ASSUME PagesInit PROVE PagesInv
    OBVIOUS
  <2>2. PagesTypeOK
    <3>1. hops \in 0 .. MaxHops
      BY <2>1, PagesAssumption DEF PagesInit
    <3>2. QED
      BY <2>1, <3>1, Zenon DEF PagesInit, PagesTypeOK, Addresses
  <2>3. OnHisWay
    BY <2>1 DEF PagesInit, OnHisWay, NotForHim, Spaces
  <2>4. QED
    BY <2>1, <2>2, <2>3 DEF PagesInv, OnceInside, PagesInit
<1>2. ASSUME PagesInv, [PagesNext]_pageVars
      PROVE  PagesInv'
  <2>1. PagesTypeOK /\ OnceInside
    BY <1>2 DEF PagesInv
  <2>2. CASE Redirect
    BY <1>2, <2>2, RedirectKeeps
  <2>3. CASE ProfileChanges
    BY <1>2, <2>3, ProfileChangeKeeps
  <2>4. ASSUME page' \in Addresses, hops' = 0, loggedIn' \in BOOLEAN, entering' = FALSE,
               UNCHANGED <<visitor, profile>>
        PROVE  PagesInv'
    <3>1. PagesTypeOK'
      <4>1. hops' \in 0 .. MaxHops
        BY <2>4, PagesAssumption
      <4>2. QED
        BY <2>1, <2>4, <4>1, Zenon DEF PagesTypeOK
    <3>2. OnHisWay'
      BY <2>4 DEF OnHisWay
    <3>3. QED
      BY <2>4, <3>1, <3>2 DEF PagesInv, OnceInside
  <2>5. CASE Visit
    BY <2>1, <2>4, <2>5 DEF Visit, PagesTypeOK
  <2>6. CASE LogOut
    BY <2>4, <2>6 DEF LogOut, Addresses
  <2>7. CASE LogIn
    <3>1. PagesTypeOK'
      BY <2>1, <2>7, PagesAssumption DEF PagesTypeOK, LogIn, Addresses
    <3>2. OnHisWay'
      BY <2>7 DEF OnHisWay, LogIn, NotForHim, Spaces
    <3>3. page' # "/login" /\ ~NotForHim' /\ loggedIn'
      BY <2>7 DEF LogIn, NotForHim
    <3>4. QED
      BY <3>1, <3>2, <3>3 DEF PagesInv, OnceInside
  <2>8. CASE SessionEnds
    <3>1. PagesTypeOK'
      BY <2>1, <2>8 DEF PagesTypeOK, SessionEnds
    <3>2. NoProfile("SUPPLIER") \/ OnHisWay => NoProfile("SUPPLIER")' \/ OnHisWay'
      BY <2>8 DEF SessionEnds, NoProfile, OnHisWay, NotForHim
    <3>3. QED
      BY <1>2, <2>8, <3>1, <3>2 DEF PagesInv, OnceInside, SessionEnds
  <2>9. CASE UNCHANGED pageVars
    BY <1>2, <2>9 DEF PagesInv, PagesTypeOK, OnceInside, OnHisWay, NotForHim, NoProfile, pageVars
  <2>10. QED
    BY <1>2, <2>2, <2>3, <2>5, <2>6, <2>7, <2>8, <2>9 DEF PagesNext
<1>3. PagesInv => RedirectsLeadHome
  <2>1. PagesInv => hops <= 5 \/ NoProfile("SUPPLIER")
    BY DEF PagesInv, OnHisWay
  <2>2. QED
    BY <2>1, Zenon DEF PagesInv, OnceInside, NoProfile, RedirectsLeadHome
<1>4. QED
  BY <1>1, <1>2, <1>3, PTL DEF PagesSpec
=============================================================================
