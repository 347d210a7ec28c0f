------------------------------ MODULE Creation ------------------------------
(***************************************************************************)
(* How an order comes to be: the supplier's form                           *)
(* (src/components/supplier/CreateOrderForm.tsx) and the CSV import        *)
(* (src/modules/orders/orders-import.service.ts) both end in               *)
(* createOrderForSupplier, the form through withIdempotency                *)
(* (src/shared/http/idempotency.ts).  A request is a task whose pc names   *)
(* the await it stands at; other requests move between two of its steps.   *)
(*                                                                         *)
(* What is read only to refuse (the supplier and his documents, the        *)
(* catalogue, the smallest amount of a code) is a refusal that may always  *)
(* come.  Addresses and amounts are left out: no check depends on them.    *)
(***************************************************************************)
EXTENDS Integers, FiniteSets

CONSTANTS Forms,        \* mounted forms, each with the key it drew
          Tasks,        \* requests the server runs at once
          Phones,       \* customers are told apart by phone
          LimitedCodes, \* promo codes with a usageLimit
          OpenCodes,    \* promo codes without one
          usageLimit,   \* the limit of the limited ones
          MaxRequests,  \* bound: submissions and imports in all
          MaxRows,      \* bound: rows of an imported file
          Nobody, NoCode, NoForm

ASSUME CreationAssumption ==
  /\ usageLimit \in Nat
  /\ NoForm \notin Forms
  /\ Nobody \notin Tasks
  /\ NoCode \notin LimitedCodes \cup OpenCodes
  /\ LimitedCodes \cap OpenCodes = {}
  /\ IsFiniteSet(Tasks)
  /\ MaxRequests \in Nat /\ MaxRows \in Nat

VARIABLES waits,      \* form -> the request whose answer it awaits
          filled,     \* form -> the content last submitted
          opened,     \* form -> the number of the order it went to, 0 before
          keys,       \* form -> the IdempotencyKey row of its key
          promo,      \* code -> PromoCode.isActive and usageCount
          customers,  \* phone -> how many Customer rows have it
          orders,     \* the Order rows
          task,       \* task -> where it stands
          requests    \* how many requests there have been

vars == <<waits, filled, opened, keys, promo, customers, orders, task, requests>>

-----------------------------------------------------------------------------
(* Types *)

Codes == LimitedCodes \cup OpenCodes

Contents == [phone : Phones, code : Codes \cup {NoCode}]

NoRow == [hash |-> "none"]

\* answer = 0: statusCode is still null
KeyRows == [hash : Contents, answer : Nat]

Origins == Forms \cup {NoForm}

Idle == [pc |-> "idle"]

\* rows: what is left of an imported file; number: the order number drawn
Calling ==
  [pc : {"reserve", "replay", "admit", "customer", "newCustomer", "number", "promo",
         "spend", "insert", "store", "release"},
   form : Origins, content : Contents, rows : Nat, number : Nat]

TypeOK ==
  /\ waits \in [Forms -> Tasks \cup {Nobody}]
  /\ filled \in [Forms -> Contents]
  /\ opened \in [Forms -> Nat]
  /\ keys \in [Forms -> {NoRow} \cup KeyRows]
  /\ promo \in [Codes -> [isActive : BOOLEAN, usageCount : Nat]]
  /\ customers \in [Phones -> Nat]
  /\ orders \subseteq [number : Nat, form : Origins, content : Contents]
  /\ IsFiniteSet(orders)
  /\ task \in [Tasks -> {Idle} \cup Calling]
  /\ requests \in 0 .. MaxRequests

Init ==
  /\ waits = [f \in Forms |-> Nobody]
  /\ filled \in [Forms -> Contents]
  /\ opened = [f \in Forms |-> 0]
  /\ keys = [f \in Forms |-> NoRow]
  /\ promo = [c \in Codes |-> [isActive |-> TRUE, usageCount |-> 0]]
  /\ customers = [p \in Phones |-> 0]
  /\ orders = {}
  /\ task = [t \in Tasks |-> Idle]
  /\ requests = 0

-----------------------------------------------------------------------------
(* The browser *)

Request(form, content, rows, pc) ==
  [pc |-> pc, form |-> form, content |-> content, rows |-> rows, number |-> 0]

\* Every try of a form sends the same key, and what its fields hold by then.
Submit(f, t) ==
  /\ waits[f] = Nobody /\ opened[f] = 0
  /\ task[t] = Idle /\ requests < MaxRequests
  /\ requests' = requests + 1
  /\ \E c \in Contents :
       /\ filled' = [filled EXCEPT ![f] = c]
       /\ task' = [task EXCEPT ![t] = Request(f, c, 0, "reserve")]
  /\ waits' = [waits EXCEPT ![f] = t]
  /\ UNCHANGED <<opened, keys, promo, customers, orders>>

\* The fetch fails while the server goes on: the form may be sent again.
GiveUp(f) ==
  /\ waits[f] # Nobody
  /\ waits' = [waits EXCEPT ![f] = Nobody]
  /\ UNCHANGED <<filled, opened, keys, promo, customers, orders, task, requests>>

\* A file has no key; its rows are read one after the other.
Import(t) ==
  /\ task[t] = Idle /\ requests < MaxRequests
  /\ requests' = requests + 1
  /\ \E c \in Contents, rows \in 1 .. MaxRows :
       task' = [task EXCEPT ![t] = Request(NoForm, c, rows, "admit")]
  /\ UNCHANGED <<waits, filled, opened, keys, promo, customers, orders>>

\* The operator switches a code off and on.
SetPromoCodeActive(c) ==
  /\ promo' = [promo EXCEPT ![c].isActive = ~promo[c].isActive]
  /\ UNCHANGED <<waits, filled, opened, keys, customers, orders, task, requests>>

-----------------------------------------------------------------------------
(* How a request goes on and ends *)

Goto(t, pc) == task' = [task EXCEPT ![t].pc = pc]

\* The answer reaches the form unless it has given up: n is the number of the order,
\* or 0 for an error.
Answers(t, n) ==
  /\ task' = [task EXCEPT ![t] = Idle]
  /\ opened' = [f \in Forms |-> IF waits[f] = t THEN n ELSE opened[f]]
  /\ waits' = [f \in Forms |-> IF waits[f] = t THEN Nobody ELSE waits[f]]

\* A row that fails or succeeds does not stop the rows after it.
RowEnds(t) ==
  IF task[t].rows > 1
  THEN \E c \in Contents :
         task' = [task EXCEPT ![t] = Request(NoForm, c, task[t].rows - 1, "admit")]
  ELSE task' = [task EXCEPT ![t] = Idle]

\* createOrderForSupplier throws: withIdempotency frees the key, the import goes on.
Refuse(t) ==
  /\ IF task[t].form = NoForm THEN RowEnds(t) ELSE Goto(t, "release")
  /\ UNCHANGED <<waits, opened>>

Stays == UNCHANGED <<waits, opened>>

-----------------------------------------------------------------------------
(* withIdempotency *)

\* Faulty variant: a key in use is taken for a free one.
ReserveAgain(t) ==
  /\ task[t].pc = "reserve"
  /\ keys' = [keys EXCEPT ![task[t].form] = [hash |-> task[t].content, answer |-> 0]]
  /\ Goto(t, "admit")
  /\ Stays
  /\ UNCHANGED <<filled, promo, customers, orders, requests>>

\* The unique index on (scope, key) lets one request through.
Reserve(t) ==
  /\ task[t].pc = "reserve"
  /\ LET f == task[t].form IN
       IF keys[f] = NoRow
       THEN /\ keys' = [keys EXCEPT ![f] = [hash |-> task[t].content, answer |-> 0]]
            /\ Goto(t, "admit")
       ELSE /\ Goto(t, "replay")
            /\ UNCHANGED keys
  /\ Stays
  /\ UNCHANGED <<filled, promo, customers, orders, requests>>

\* Faulty variant: a stored answer is given whatever was asked for.
StoredUnchecked(t) ==
  LET row == keys[task[t].form] IN IF row = NoRow THEN 0 ELSE row.answer

\* The row may be gone again, hold another content, or have no answer yet.
Stored(t) ==
  LET row == keys[task[t].form] IN
    IF row = NoRow THEN 0
    ELSE IF row.hash # task[t].content THEN 0
    ELSE row.answer

Replay(t) ==
  /\ task[t].pc = "replay"
  /\ Answers(t, Stored(t))
  /\ UNCHANGED <<filled, keys, promo, customers, orders, requests>>

Store(t) ==
  /\ task[t].pc = "store"
  /\ keys[task[t].form] # NoRow
  /\ keys' = [keys EXCEPT ![task[t].form].answer = task[t].number]
  /\ Answers(t, task[t].number)
  /\ UNCHANGED <<filled, promo, customers, orders, requests>>

\* Faulty variant: the key outlives the error.
ReleaseNothing(t) ==
  /\ task[t].pc = "release"
  /\ Answers(t, 0)
  /\ UNCHANGED <<filled, keys, promo, customers, orders, requests>>

Release(t) ==
  /\ task[t].pc = "release"
  /\ keys' = [keys EXCEPT ![task[t].form] = NoRow]
  /\ Answers(t, 0)
  /\ UNCHANGED <<filled, promo, customers, orders, requests>>

-----------------------------------------------------------------------------
(* createOrderForSupplier *)

Admit(t) ==
  /\ task[t].pc = "admit"
  /\ \/ Goto(t, "customer") /\ Stays
     \/ Refuse(t)
  /\ UNCHANGED <<filled, keys, promo, customers, orders, requests>>

\* Faulty variant: the customer is created without being looked for.
FindNoCustomer(t) ==
  /\ task[t].pc = "customer"
  /\ Goto(t, "newCustomer")
  /\ Stays
  /\ UNCHANGED <<filled, keys, promo, customers, orders, requests>>

FindCustomer(t) ==
  /\ task[t].pc = "customer"
  /\ Goto(t, IF customers[task[t].content.phone] = 0 THEN "newCustomer" ELSE "number")
  /\ Stays
  /\ UNCHANGED <<filled, keys, promo, customers, orders, requests>>

CreateCustomer(t) ==
  /\ task[t].pc = "newCustomer"
  /\ customers' = [customers EXCEPT ![task[t].content.phone] = @ + 1]
  /\ Goto(t, "number")
  /\ Stays
  /\ UNCHANGED <<filled, keys, promo, orders, requests>>

GenerateOrderNumber(t) ==
  /\ task[t].pc = "number"
  /\ task' = [task EXCEPT ![t].number = Cardinality(orders) + 1,
                          ![t].pc = IF task[t].content.code = NoCode THEN "insert" ELSE "promo"]
  /\ Stays
  /\ UNCHANGED <<filled, keys, promo, customers, orders, requests>>

\* isActive, expiresAt and minOrderAmount are read; the use is counted later.
CheckPromo(t) ==
  /\ task[t].pc = "promo"
  /\ \/ promo[task[t].content.code].isActive /\ Goto(t, "spend") /\ Stays
     \/ Refuse(t)
  /\ UNCHANGED <<filled, keys, promo, customers, orders, requests>>

\* Faulty variant: the limit was only checked when the code was read.
MaySpendAlways(c) == TRUE

\* The limit is part of the WHERE of the update.
MaySpend(c) == c \in LimitedCodes => promo[c].usageCount < usageLimit

SpendPromo(t) ==
  /\ task[t].pc = "spend"
  /\ LET c == task[t].content.code IN
       IF MaySpend(c)
       THEN /\ promo' = [promo EXCEPT ![c].usageCount = @ + 1]
            /\ Goto(t, "insert")
            /\ Stays
       ELSE Refuse(t) /\ UNCHANGED promo
  /\ UNCHANGED <<filled, keys, customers, orders, requests>>

\* Faulty variant: the numbers of orders are not unique.
NumberIsAlwaysFree(n) == TRUE

NumberIsFree(n) == \A o \in orders : o.number # n

\* orderNumber is unique: the insert of a number another request drew fails.
InsertOrder(t) ==
  /\ task[t].pc = "insert"
  /\ IF NumberIsFree(task[t].number)
     THEN /\ orders' = orders \cup {[number |-> task[t].number, form |-> task[t].form,
                                     content |-> task[t].content]}
          /\ IF task[t].form = NoForm THEN RowEnds(t) ELSE Goto(t, "store")
          /\ Stays
     ELSE Refuse(t) /\ UNCHANGED orders
  /\ UNCHANGED <<filled, keys, promo, customers, requests>>

-----------------------------------------------------------------------------
(* Faults *)

Running(t) == task[t] # Idle

\* A query throws.  The catch of withIdempotency covers the handler and the update that
\* stores the answer; the failure of the delete is swallowed.
Throw(t) ==
  /\ Running(t)
  /\ \/ /\ task[t].pc \in {"reserve", "replay", "release"}
        /\ Answers(t, 0)
     \/ /\ task[t].pc \notin {"reserve", "replay", "release"}
        /\ Refuse(t)
  /\ UNCHANGED <<filled, keys, promo, customers, orders, requests>>

\* The process dies: nothing is cleaned up.
Die(t) ==
  /\ Running(t)
  /\ Answers(t, 0)
  /\ UNCHANGED <<filled, keys, promo, customers, orders, requests>>

-----------------------------------------------------------------------------
(* The whole *)

Step(t) ==
  \/ Reserve(t) \/ Replay(t) \/ Store(t) \/ Release(t)
  \/ Admit(t) \/ FindCustomer(t) \/ CreateCustomer(t) \/ GenerateOrderNumber(t)
  \/ CheckPromo(t) \/ SpendPromo(t) \/ InsertOrder(t)

Next ==
  \/ \E f \in Forms : GiveUp(f) \/ \E t \in Tasks : Submit(f, t)
  \/ \E t \in Tasks : Import(t) \/ Step(t) \/ Throw(t) \/ Die(t)
  \/ \E c \in Codes : SetPromoCodeActive(c)

Spec == Init /\ [][Next]_vars

-----------------------------------------------------------------------------
(* Properties *)

(***************************************************************************)
(* The orders of a year are numbered 1, 2, 3 ... without a gap or a        *)
(* repetition, although a number is a count read long before the insert.   *)
(***************************************************************************)
NumbersAreDense == {o.number : o \in orders} = 1 .. Cardinality(orders)

Discounted(c) == {o \in orders : o.content.code = c}

\* Requests that have paid for a use and not yet inserted their order.
Holding(c) == {t \in Tasks : task[t].pc = "insert" /\ task[t].content.code = c}

(***************************************************************************)
(* A limited code never discounts more orders than its limit, and every    *)
(* discounted order has been counted as a use: the count may exceed the    *)
(* orders (a use is lost when the insert fails), never the reverse.        *)
(***************************************************************************)
DiscountsWithinLimit ==
  \A c \in Codes :
    /\ Cardinality(Discounted(c)) + Cardinality(Holding(c)) <= promo[c].usageCount
    /\ c \in LimitedCodes => promo[c].usageCount <= usageLimit

Registering(p) == {t \in Tasks : task[t].pc = "newCustomer" /\ task[t].content.phone = p}

(***************************************************************************)
(* A phone gets at most one customer per request that ran at once with     *)
(* the first: the lookup and the insert race, but later requests find it.  *)
(***************************************************************************)
CustomersPerRequest ==
  \A p \in Phones : customers[p] + Cardinality(Registering(p)) <= Cardinality(Tasks)

(***************************************************************************)
(* The order a form goes to was made by that form and holds what the form  *)
(* last submitted, also when the answer is a replay of an earlier one.     *)
(***************************************************************************)
FormOpensItsOrder ==
  \A f \in Forms : opened[f] > 0 =>
    [number |-> opened[f], form |-> f, content |-> filled[f]] \in orders
=============================================================================
