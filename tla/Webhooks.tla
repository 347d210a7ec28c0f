------------------------------ MODULE Webhooks ------------------------------
(***************************************************************************)
(* One supplier's webhook (src/modules/webhooks/webhooks.service.ts):      *)
(* what configures it, the deliveries domain events start, their           *)
(* immediate retries, and the retry an operator asks for.  An endpoint may *)
(* get a delivery and answer too late, or not at all, and get it again.    *)
(***************************************************************************)
EXTENDS Sequences, Requests

CONSTANTS Events,                   \* domain events of the supplier's orders, each raised once
          MAX_ATTEMPTS,             \* tries of a delivery before it is recorded as FAILED
          MaxDeliveries, MaxGenerated \* bounds: rows recorded, secrets generated

ASSUME WebhookAssumption ==
  MAX_ATTEMPTS \in Nat \ {0} /\ MaxDeliveries \in Nat /\ MaxGenerated \in Nat

VARIABLES supplier,   \* the Supplier row: whether webhookUrl is set, and webhookSecret
          told,       \* the secrets the settings page was answered
          generated,  \* secrets generated so far
          raised,     \* the events raised
          inbox,      \* the events the endpoint got, once or more often
          rows,       \* the WebhookDelivery rows
          courier     \* task -> where the request or the handler stands

webhookVars == <<supplier, told, generated, raised, inbox, rows, courier>>

Supplier == [url : BOOLEAN, secret : 0 .. MaxGenerated]

CourierCalls ==
  [pc : {"store"}, read : Supplier]
  \cup [pc : {"send", "record"}, event : Events, attempts : 0 .. MAX_ATTEMPTS, ok : BOOLEAN]

Row == [event : Events, success : BOOLEAN, attempts : 1 .. MAX_ATTEMPTS]

WebhookTypeOK ==
  /\ supplier \in Supplier
  /\ told \subseteq 1 .. MaxGenerated
  /\ generated \in 0 .. MaxGenerated
  /\ raised \subseteq Events
  /\ inbox \subseteq Events
  /\ rows \in UNION {[1 .. n -> Row] : n \in 0 .. MaxDeliveries}
  /\ courier \in [Tasks -> {Idle} \cup CourierCalls]

WebhookInit ==
  /\ supplier = [url |-> FALSE, secret |-> 0]
  /\ told = {}
  /\ generated = 0
  /\ raised = {}
  /\ inbox = {}
  /\ rows = <<>>
  /\ courier = [t \in Tasks |-> Idle]

-----------------------------------------------------------------------------
(* setSupplierWebhook *)

\* With no url the row is updated at once and keeps its secret.
DisableWebhook ==
  /\ supplier.url
  /\ supplier' = [url |-> FALSE, secret |-> supplier.secret]
  /\ UNCHANGED <<told, generated, raised, inbox, rows, courier>>

BeginSetWebhook(t) ==
  /\ courier[t] = Idle
  /\ courier' = [courier EXCEPT ![t] = [pc |-> "store", read |-> supplier]]
  /\ UNCHANGED <<supplier, told, generated, raised, inbox, rows>>

\* A new secret only for a row that had none when it was read.
NeedsSecret(read) == read.secret = 0

StoreWebhook(t) ==
  LET read   == courier[t].read
      secret == IF NeedsSecret(read) THEN generated + 1 ELSE read.secret
  IN
  /\ courier[t].pc = "store"
  /\ secret <= MaxGenerated
  /\ supplier' = [url |-> TRUE, secret |-> secret]
  /\ told' = told \cup {secret}
  /\ generated' = IF secret > generated THEN secret ELSE generated
  /\ courier' = Ends(courier, t)
  /\ UNCHANGED <<raised, inbox, rows>>

\* Another request gave the row a secret since this one found none.
SecretOvertaken(t) == courier[t].pc = "store" /\ courier[t].read.secret # supplier.secret

-----------------------------------------------------------------------------
(* sendWebhook, retryWebhookDelivery, deliverAndRecord *)

Configured == supplier.url /\ supplier.secret # 0

Sends(t, e) ==
  courier' = [courier EXCEPT ![t] = [pc |-> "send", event |-> e, attempts |-> 0, ok |-> FALSE]]

\* The handler of the event; a supplier without a webhook is left alone.
RaiseEvent(t, e) ==
  /\ courier[t] = Idle /\ e \notin raised
  /\ raised' = raised \cup {e}
  /\ IF Configured THEN Sends(t, e) ELSE UNCHANGED courier
  /\ UNCHANGED <<supplier, told, generated, inbox, rows>>

\* Any row may be sent again, a successful one too; without a webhook it is a 409.
RetryDelivery(t, i) ==
  /\ courier[t] = Idle
  /\ Configured
  /\ Sends(t, rows[i].event)
  /\ UNCHANGED <<supplier, told, generated, raised, inbox, rows>>

\* Faulty variant: the last delay is followed by one attempt too few.
LastAttemptEarly(n) == n + 1 >= MAX_ATTEMPTS

LastAttempt(n) == n = MAX_ATTEMPTS

\* One fetch: the endpoint may get it, and may then answer 2xx within the timeout.  What
\* is not a 2xx answer is tried again after a delay.
AttemptDelivery(t) ==
  LET n == courier[t].attempts + 1 IN
  /\ courier[t].pc = "send"
  /\ \E got, ok \in BOOLEAN :
       /\ ok => got
       /\ inbox' = IF got THEN inbox \cup {courier[t].event} ELSE inbox
       /\ courier' = [courier EXCEPT ![t] =
            [pc |-> IF ok \/ LastAttempt(n) THEN "record" ELSE "send",
             event |-> courier[t].event, attempts |-> n, ok |-> ok]]
  /\ UNCHANGED <<supplier, told, generated, raised, rows>>

RecordDelivery(t) ==
  /\ courier[t].pc = "record" /\ Len(rows) < MaxDeliveries
  /\ rows' = Append(rows, [event |-> courier[t].event, success |-> courier[t].ok,
                           attempts |-> courier[t].attempts])
  /\ courier' = Ends(courier, t)
  /\ UNCHANGED <<supplier, told, generated, raised, inbox>>

\* The process dies during the attempts or the delays: nothing is recorded.
CourierFails(t) ==
  /\ courier[t] # Idle
  /\ courier' = Ends(courier, t)
  /\ UNCHANGED <<supplier, told, generated, raised, inbox, rows>>

-----------------------------------------------------------------------------
(* The whole *)

WebhookNext ==
  \/ DisableWebhook
  \/ \E t \in Tasks :
       \/ BeginSetWebhook(t) \/ StoreWebhook(t)
       \/ \E e \in Events : RaiseEvent(t, e)
       \/ \E i \in DOMAIN rows : RetryDelivery(t, i)
       \/ AttemptDelivery(t) \/ RecordDelivery(t) \/ CourierFails(t)

WebhookSpec == WebhookInit /\ [][WebhookNext]_webhookVars

(***************************************************************************)
(* "Le secret de signature n'est généré qu'une fois"                       *)
(* (webhooks.service.ts:46): every secret the supplier was ever given is   *)
(* the one his deliveries are signed with.                                 *)
(***************************************************************************)
SecretIsKept == \A secret \in told : secret = supplier.secret

(***************************************************************************)
(* A row on record is true of the endpoint: a success reached it, a failure *)
(* was tried as often as promised, and an endpoint never got an event that *)
(* was not raised.                                                         *)
(***************************************************************************)
RowsTellDelivery ==
  /\ \A i \in DOMAIN rows :
       IF rows[i].success THEN rows[i].event \in inbox ELSE rows[i].attempts = MAX_ATTEMPTS
  /\ inbox \subseteq raised
=============================================================================
