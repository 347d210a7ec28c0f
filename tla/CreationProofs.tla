--------------------------- MODULE CreationProofs ---------------------------
(***************************************************************************)
(* Theorems about Creation, for any number of forms, requests, codes and   *)
(* customers: the types, and of the properties that are checked the dense  *)
(* numbers, the limited codes, the customers per request, that a form goes *)
(* to an order of its own (FormsOpenTheirOrders) and makes no other unless *)
(* its answer could not be stored (OneOrder), and that a key without an    *)
(* answer has somebody who will give it or has died (KeysAreNotLost).      *)
(***************************************************************************)
EXTENDS CreationWatched, FiniteSetTheorems, TLAPS

Others(t) == \A u \in Tasks \ {t} : task'[u] = task[u]

\* What createOrderForSupplier does to the request when it throws.
Refused(t) ==
  \/ task[t].form = NoForm /\ task'[t] = Idle
  \/ task[t].form = NoForm /\ task'[t].form = NoForm /\ task'[t].pc = "admit"
  \/ /\ task[t].form # NoForm /\ task'[t].pc = "release"
     /\ task'[t].form = task[t].form /\ task'[t].content = task[t].content

-----------------------------------------------------------------------------
(* How a request goes on and ends *)

LEMMA BusyIsCalling ==
  ASSUME TypeOK, NEW t \in Tasks, task[t].pc # "idle"
  PROVE  /\ task[t] \in Calling
         /\ task[t].form \in Origins /\ task[t].content \in Contents
         /\ task[t].rows \in Nat /\ task[t].number \in Nat
<1>1. task[t] \in Calling
  BY DEF TypeOK, Idle
<1>2. QED
  BY <1>1 DEF Calling

Places == {"reserve", "replay", "admit", "customer", "newCustomer", "number", "promo",
           "spend", "insert", "store", "release"}

LEMMA GotoMoves ==
  ASSUME TypeOK, NEW t \in Tasks, task[t].pc # "idle", NEW pc \in Places, Goto(t, pc)
  PROVE  /\ Others(t)
         /\ task' \in [Tasks -> {Idle} \cup Calling]
         /\ task'[t].pc = pc /\ task'[t].form = task[t].form
         /\ task'[t].content = task[t].content /\ task'[t].number = task[t].number
<1>1. task \in [Tasks -> {Idle} \cup Calling] /\ task[t] \in Calling
  BY BusyIsCalling DEF TypeOK
<1>2. task' = [task EXCEPT ![t] = task'[t]] /\ task'[t] = [task[t] EXCEPT !.pc = pc]
  BY <1>1 DEF Goto
<1>3. task'[t] \in Calling /\ task'[t].pc = pc /\ task'[t].form = task[t].form
      /\ task'[t].content = task[t].content /\ task'[t].number = task[t].number
  BY <1>1, <1>2 DEF Calling, Places
<1>4. Others(t)
  BY <1>1, <1>2 DEF Others
<1>5. task' \in [Tasks -> {Idle} \cup Calling]
  BY <1>1, <1>2, <1>3
<1>6. QED
  BY <1>3, <1>4, <1>5

LEMMA EndMoves ==
  ASSUME TypeOK, NEW t \in Tasks, NEW n \in Nat, Answers(t, n)
  PROVE  /\ Others(t)
         /\ task' \in [Tasks -> {Idle} \cup Calling]
         /\ task'[t] = Idle
         /\ opened' \in [Forms -> Nat]
         /\ waits' \in [Forms -> Tasks \cup {Nobody}]
<1>1. task' = [task EXCEPT ![t] = Idle] /\ task \in [Tasks -> {Idle} \cup Calling]
  BY DEF Answers, TypeOK
<1>2. opened' \in [Forms -> Nat] /\ waits' \in [Forms -> Tasks \cup {Nobody}]
  BY DEF Answers, TypeOK
<1>3. QED
  BY <1>1, <1>2 DEF Others

LEMMA RequestIsCalling ==
  ASSUME NEW pc \in Places, NEW form \in Origins, NEW c \in Contents, NEW rows \in Nat
  PROVE  /\ Request(form, c, rows, pc) \in Calling
         /\ Request(form, c, rows, pc).pc = pc /\ Request(form, c, rows, pc).form = form
         /\ Request(form, c, rows, pc).content = c
BY DEF Request, Calling, Places

LEMMA BeginMoves ==
  ASSUME TypeOK, NEW t \in Tasks,
         NEW pc \in Places, NEW form \in Origins, NEW c \in Contents, NEW rows \in Nat,
         task' = [task EXCEPT ![t] = Request(form, c, rows, pc)]
  PROVE  /\ Others(t)
         /\ task' \in [Tasks -> {Idle} \cup Calling]
         /\ task'[t].pc = pc /\ task'[t].form = form /\ task'[t].content = c
<1>1. task \in [Tasks -> {Idle} \cup Calling]
  BY DEF TypeOK
<1>2. task'[t] = Request(form, c, rows, pc)
  BY <1>1
<1>3. QED
  BY <1>1, <1>2, RequestIsCalling DEF Others

LEMMA RowEndsMoves ==
  ASSUME TypeOK, NEW t \in Tasks, task[t].pc # "idle", RowEnds(t)
  PROVE  /\ Others(t)
         /\ task' \in [Tasks -> {Idle} \cup Calling]
         /\ task'[t] = Idle \/ (task'[t].form = NoForm /\ task'[t].pc = "admit")
<1>1. CASE task[t].rows > 1
  <2>1. PICK c \in Contents : task' = [task EXCEPT ![t] = Request(NoForm, c, task[t].rows - 1, "admit")]
    BY <1>1 DEF RowEnds
  <2>2. task[t].rows - 1 \in Nat
    BY <1>1, BusyIsCalling
  <2>3. PICK rows \in Nat : rows = task[t].rows - 1
    BY <2>2
  <2>4. task' = [task EXCEPT ![t] = Request(NoForm, c, rows, "admit")]
    BY <2>1, <2>3
  <2>5. "admit" \in Places /\ NoForm \in Origins
    BY DEF Places, Origins
  <2>6. QED
    BY <2>4, <2>5, BeginMoves
<1>2. CASE ~(task[t].rows > 1)
  <2>1. task' = [task EXCEPT ![t] = Idle] /\ task \in [Tasks -> {Idle} \cup Calling]
    BY <1>2 DEF RowEnds, TypeOK
  <2>2. QED
    BY <2>1 DEF Others
<1>3. QED
  BY <1>1, <1>2

LEMMA RefuseMoves ==
  ASSUME TypeOK, NEW t \in Tasks, task[t].pc # "idle", Refuse(t)
  PROVE  /\ Others(t)
         /\ task' \in [Tasks -> {Idle} \cup Calling]
         /\ Refused(t)
         /\ waits' = waits /\ opened' = opened
<1>1. CASE task[t].form = NoForm
  <2>1. RowEnds(t) /\ waits' = waits /\ opened' = opened
    BY <1>1 DEF Refuse
  <2>2. QED
    BY <1>1, <2>1, RowEndsMoves DEF Refused
<1>2. CASE task[t].form # NoForm
  <2>1. Goto(t, "release") /\ waits' = waits /\ opened' = opened /\ "release" \in Places
    BY <1>2 DEF Refuse, Places
  <2>2. QED
    BY <1>2, <2>1, GotoMoves DEF Refused
<1>3. QED
  BY <1>1, <1>2

-----------------------------------------------------------------------------
(* What each step does to its request *)

\* The number drawn is a count plus one.
LEMMA NumberMoves ==
  ASSUME TypeOK, NEW t \in Tasks, GenerateOrderNumber(t)
  PROVE  /\ Others(t)
         /\ task' \in [Tasks -> {Idle} \cup Calling]
         /\ task'[t].pc \in {"promo", "insert"}
         /\ task'[t].pc = "insert" => task[t].content.code = NoCode
         /\ task'[t].form = task[t].form /\ task'[t].content = task[t].content
         /\ task'[t].number = Cardinality(orders) + 1
         /\ waits' = waits /\ opened' = opened
<1>1. task \in [Tasks -> {Idle} \cup Calling] /\ task[t] \in Calling
  BY BusyIsCalling DEF TypeOK, GenerateOrderNumber
<1>2. Cardinality(orders) + 1 \in Nat
  <2>1. Cardinality(orders) \in Nat
    BY FS_CardinalityType DEF TypeOK
  <2>2. QED
    BY <2>1
<1>3. PICK pc \in {"promo", "insert"} :
        /\ task' = [task EXCEPT ![t].number = Cardinality(orders) + 1, ![t].pc = pc]
        /\ pc = "insert" => task[t].content.code = NoCode
  BY DEF GenerateOrderNumber
<1>4. /\ task' = [task EXCEPT ![t] = task'[t]]
      /\ task'[t] = [task[t] EXCEPT !.number = Cardinality(orders) + 1, !.pc = pc]
  BY <1>1, <1>3
<1>5. /\ task'[t] \in Calling /\ task'[t].pc = pc
      /\ task'[t].form = task[t].form /\ task'[t].content = task[t].content
      /\ task'[t].number = Cardinality(orders) + 1
  BY <1>1, <1>2, <1>4 DEF Calling
<1>6. Others(t) /\ task' \in [Tasks -> {Idle} \cup Calling]
  BY <1>1, <1>4, <1>5 DEF Others
<1>7. QED
  BY <1>3, <1>5, <1>6 DEF GenerateOrderNumber, Stays

LEMMA AdmitMoves ==
  ASSUME TypeOK, NEW t \in Tasks, Admit(t)
  PROVE  /\ Others(t) /\ task' \in [Tasks -> {Idle} \cup Calling]
         /\ Refused(t) \/ ( /\ task'[t].pc = "customer" /\ task'[t].form = task[t].form
                            /\ task'[t].content = task[t].content )
         /\ waits' = waits /\ opened' = opened
<1>1. task[t].pc # "idle" /\ "customer" \in Places
  BY DEF Admit, Places
<1>2. CASE Goto(t, "customer") /\ Stays
  BY <1>1, <1>2, GotoMoves DEF Stays
<1>3. CASE Refuse(t)
  BY <1>1, <1>3, RefuseMoves
<1>4. QED
  BY <1>2, <1>3 DEF Admit

LEMMA FindMoves ==
  ASSUME TypeOK, NEW t \in Tasks, FindCustomer(t)
  PROVE  /\ Others(t) /\ task' \in [Tasks -> {Idle} \cup Calling]
         /\ task'[t].pc \in {"newCustomer", "number"} /\ task'[t].form = task[t].form
         /\ task'[t].content = task[t].content
         /\ task'[t].pc = "newCustomer" => customers[task[t].content.phone] = 0
         /\ waits' = waits /\ opened' = opened
<1>1. task[t].pc # "idle" /\ "newCustomer" \in Places /\ "number" \in Places
  BY DEF FindCustomer, Places
<1>2. CASE customers[task[t].content.phone] = 0
  <2>1. Goto(t, "newCustomer")
    BY <1>2 DEF FindCustomer
  <2>2. QED
    BY <1>1, <1>2, <2>1, GotoMoves DEF FindCustomer, Stays
<1>3. CASE customers[task[t].content.phone] # 0
  <2>1. Goto(t, "number")
    BY <1>3 DEF FindCustomer
  <2>2. QED
    BY <1>1, <2>1, GotoMoves DEF FindCustomer, Stays
<1>4. QED
  BY <1>2, <1>3

LEMMA CreateMoves ==
  ASSUME TypeOK, NEW t \in Tasks, CreateCustomer(t)
  PROVE  /\ Others(t) /\ task' \in [Tasks -> {Idle} \cup Calling]
         /\ task'[t].pc = "number" /\ task'[t].form = task[t].form
         /\ task'[t].content = task[t].content
         /\ waits' = waits /\ opened' = opened
<1>1. task[t].pc # "idle" /\ "number" \in Places /\ Goto(t, "number")
  BY DEF CreateCustomer, Places
<1>2. QED
  BY <1>1, GotoMoves DEF CreateCustomer, Stays

LEMMA CheckPromoMoves ==
  ASSUME TypeOK, NEW t \in Tasks, CheckPromo(t)
  PROVE  /\ Others(t) /\ task' \in [Tasks -> {Idle} \cup Calling]
         /\ Refused(t) \/ ( /\ task'[t].pc = "spend" /\ task'[t].form = task[t].form
                            /\ task'[t].content = task[t].content
                            /\ task'[t].number = task[t].number )
         /\ waits' = waits /\ opened' = opened
<1>1. task[t].pc # "idle" /\ "spend" \in Places
  BY DEF CheckPromo, Places
<1>2. CASE Goto(t, "spend") /\ Stays
  BY <1>1, <1>2, GotoMoves DEF Stays
<1>3. CASE Refuse(t)
  BY <1>1, <1>3, RefuseMoves
<1>4. QED
  BY <1>2, <1>3 DEF CheckPromo

LEMMA SpendMoves ==
  ASSUME TypeOK, NEW t \in Tasks, SpendPromo(t)
  PROVE  /\ Others(t) /\ task' \in [Tasks -> {Idle} \cup Calling]
         /\ \/ Refused(t) /\ promo' = promo
            \/ /\ task'[t].pc = "insert" /\ task'[t].form = task[t].form
               /\ task'[t].content = task[t].content /\ task'[t].number = task[t].number
               /\ MaySpend(task[t].content.code)
               /\ promo' = [promo EXCEPT ![task[t].content.code].usageCount = @ + 1]
         /\ waits' = waits /\ opened' = opened
<1>1. task[t].pc # "idle" /\ "insert" \in Places
  BY DEF SpendPromo, Places
<1>2. CASE MaySpend(task[t].content.code)
  <2>1. /\ Goto(t, "insert") /\ Stays
        /\ promo' = [promo EXCEPT ![task[t].content.code].usageCount = @ + 1]
    BY <1>2 DEF SpendPromo
  <2>2. QED
    BY <1>1, <1>2, <2>1, GotoMoves DEF Stays
<1>3. CASE ~MaySpend(task[t].content.code)
  <2>1. Refuse(t) /\ promo' = promo
    BY <1>3 DEF SpendPromo
  <2>2. QED
    BY <1>1, <2>1, RefuseMoves
<1>4. QED
  BY <1>2, <1>3

Placed(t) == [number |-> task[t].number, form |-> task[t].form, content |-> task[t].content]

LEMMA InsertMoves ==
  ASSUME TypeOK, NEW t \in Tasks, InsertOrder(t)
  PROVE  /\ Others(t) /\ task' \in [Tasks -> {Idle} \cup Calling]
         /\ \/ Refused(t) /\ orders' = orders
            \/ /\ NumberIsFree(task[t].number)
               /\ orders' = orders \cup {Placed(t)}
               /\ \/ task[t].form = NoForm /\ Refused(t)
                  \/ /\ task[t].form # NoForm
                     /\ task'[t].pc = "store" /\ task'[t].form = task[t].form
                     /\ task'[t].content = task[t].content /\ task'[t].number = task[t].number
         /\ waits' = waits /\ opened' = opened
<1>1. task[t].pc # "idle" /\ "store" \in Places
  BY DEF InsertOrder, Places
<1>2. CASE NumberIsFree(task[t].number)
  <2>1. orders' = orders \cup {Placed(t)} /\ waits' = waits /\ opened' = opened
    BY <1>2 DEF InsertOrder, Placed, Stays
  <2>2. CASE task[t].form = NoForm
    <3>1. RowEnds(t)
      BY <1>2, <2>2 DEF InsertOrder
    <3>2. QED
      BY <1>1, <1>2, <2>1, <2>2, <3>1, RowEndsMoves DEF Refused
  <2>3. CASE task[t].form # NoForm
    <3>1. Goto(t, "store")
      BY <1>2, <2>3 DEF InsertOrder
    <3>2. QED
      BY <1>1, <1>2, <2>1, <2>3, <3>1, GotoMoves
  <2>4. QED
    BY <2>2, <2>3
<1>3. CASE ~NumberIsFree(task[t].number)
  <2>1. Refuse(t) /\ orders' = orders
    BY <1>3 DEF InsertOrder
  <2>2. QED
    BY <1>1, <2>1, RefuseMoves
<1>4. QED
  BY <1>2, <1>3

LEMMA ReserveMoves ==
  ASSUME TypeOK, NEW t \in Tasks, Reserve(t)
  PROVE  /\ Others(t) /\ task' \in [Tasks -> {Idle} \cup Calling]
         /\ task'[t].form = task[t].form /\ task'[t].content = task[t].content
         /\ \/ /\ task'[t].pc = "admit" /\ keys[task[t].form] = NoRow
               /\ keys' = [keys EXCEPT ![task[t].form] = [hash |-> task[t].content, answer |-> 0]]
            \/ task'[t].pc = "replay" /\ keys' = keys
         /\ waits' = waits /\ opened' = opened
<1>1. task[t].pc # "idle" /\ "admit" \in Places /\ "replay" \in Places
  BY DEF Reserve, Places
<1>2. CASE keys[task[t].form] = NoRow
  <2>1. /\ Goto(t, "admit")
        /\ keys' = [keys EXCEPT ![task[t].form] = [hash |-> task[t].content, answer |-> 0]]
    BY <1>2 DEF Reserve
  <2>2. QED
    BY <1>1, <1>2, <2>1, GotoMoves DEF Reserve, Stays
<1>3. CASE keys[task[t].form] # NoRow
  <2>1. Goto(t, "replay") /\ keys' = keys
    BY <1>3 DEF Reserve
  <2>2. QED
    BY <1>1, <2>1, GotoMoves DEF Reserve, Stays
<1>4. QED
  BY <1>2, <1>3

-----------------------------------------------------------------------------
(* Types *)

\* Only requests of a form are at its key.
OfForms == \A t \in Tasks : task[t].pc \in {"reserve", "replay", "store", "release"} =>
                              task[t].form \in Forms

TypeInv == TypeOK /\ OfForms

LEMMA StoredIsNatural ==
  ASSUME TypeInv, NEW t \in Tasks, task[t].pc = "replay"
  PROVE  Stored(t) \in Nat
<1>1. task[t].form \in Forms
  BY DEF TypeInv, OfForms
<1>2. keys[task[t].form] \in {NoRow} \cup KeyRows
  BY <1>1 DEF TypeInv, TypeOK
<1>3. QED
  BY <1>2 DEF Stored, KeyRows

LEMMA InitIsTyped == ASSUME Init PROVE TypeInv
<1>1. IsFiniteSet(orders)
  BY FS_EmptySet DEF Init
<1>2. QED
  BY <1>1, CreationAssumption DEF Init, TypeInv, TypeOK, OfForms, Idle

LEMMA SpendKeepsPromo ==
  ASSUME TypeOK, NEW c,
         promo' = [promo EXCEPT ![c].usageCount = @ + 1]
  PROVE  promo' \in [Codes -> [isActive : BOOLEAN, usageCount : Nat]]
<1>1. promo \in [Codes -> [isActive : BOOLEAN, usageCount : Nat]]
  BY DEF TypeOK
<1>2. \A d \in Codes : promo[d] \in [isActive : BOOLEAN, usageCount : Nat]
                       /\ promo[d].usageCount + 1 \in Nat
  BY <1>1
<1>3. \A d \in Codes : promo'[d] = IF d = c THEN [promo[d] EXCEPT !.usageCount = promo[d].usageCount + 1]
                                   ELSE promo[d]
  BY <1>1
<1>4. \A d \in Codes : promo'[d] \in [isActive : BOOLEAN, usageCount : Nat]
  BY <1>2, <1>3
<1>5. DOMAIN promo' = Codes /\ promo' = [d \in Codes |-> promo'[d]]
  BY <1>1
<1>6. QED
  BY <1>4, <1>5

LEMMA StepKeepsTypes ==
  ASSUME TypeInv, NEW t \in Tasks, Step(t)
  PROVE  TypeInv'
<1> USE DEF TypeInv
<1>1. CASE Reserve(t)
  <2>1. task[t].form \in Forms /\ task[t].content \in Contents
    BY <1>1, BusyIsCalling DEF Reserve, OfForms
  <2>2. [hash |-> task[t].content, answer |-> 0] \in KeyRows
    BY <2>1 DEF KeyRows
  <2>3. keys' \in [Forms -> {NoRow} \cup KeyRows]
    BY <1>1, <2>1, <2>2, ReserveMoves DEF TypeOK
  <2>4. QED
    BY <1>1, <2>1, <2>3, ReserveMoves DEF Reserve, TypeOK, OfForms, Others
<1>2. CASE Replay(t)
  <2>1. Answers(t, Stored(t)) /\ Stored(t) \in Nat
    BY <1>2, StoredIsNatural DEF Replay
  <2>2. PICK n \in Nat : n = Stored(t)
    BY <2>1
  <2>3. Answers(t, n)
    BY <2>1, <2>2
  <2>4. QED
    BY <1>2, <2>3, EndMoves DEF Replay, TypeOK, OfForms, Others, Idle
<1>3. CASE Store(t)
  <2>1. task[t].form \in Forms /\ task[t].number \in Nat
    BY <1>3, BusyIsCalling DEF Store, OfForms
  <2>2. keys[task[t].form] \in KeyRows
    BY <1>3, <2>1 DEF Store, TypeOK
  <2>3. [keys[task[t].form] EXCEPT !.answer = task[t].number] \in KeyRows
    BY <2>1, <2>2 DEF KeyRows
  <2>4. keys' \in [Forms -> {NoRow} \cup KeyRows]
    BY <1>3, <2>1, <2>3 DEF Store, TypeOK
  <2>5. PICK n \in Nat : n = task[t].number
    BY <2>1
  <2>6. Answers(t, n)
    BY <1>3, <2>5 DEF Store
  <2>7. QED
    BY <1>3, <2>4, <2>6, EndMoves DEF Store, TypeOK, OfForms, Others, Idle
<1>4. CASE Release(t)
  <2>1. keys' \in [Forms -> {NoRow} \cup KeyRows]
    BY <1>4 DEF Release, TypeOK
  <2>2. Answers(t, 0) /\ 0 \in Nat
    BY <1>4 DEF Release
  <2>3. QED
    BY <1>4, <2>1, <2>2, EndMoves DEF Release, TypeOK, OfForms, Others, Idle
<1>5. CASE Admit(t)
  <2>1. task[t].form \in Origins
    BY <1>5, BusyIsCalling DEF Admit
  <2>2. QED
    BY <1>5, <2>1, AdmitMoves DEF Admit, TypeOK, OfForms, Others, Idle, Refused, Origins
<1>6. CASE FindCustomer(t)
  BY <1>6, FindMoves DEF FindCustomer, TypeOK, OfForms, Others
<1>7. CASE CreateCustomer(t)
  <2>1. task[t].content.phone \in Phones
    BY <1>7, BusyIsCalling DEF CreateCustomer, Contents
  <2>2. customers' \in [Phones -> Nat]
    BY <1>7, <2>1 DEF CreateCustomer, TypeOK
  <2>3. QED
    BY <1>7, <2>2, CreateMoves DEF CreateCustomer, TypeOK, OfForms, Others
<1>8. CASE GenerateOrderNumber(t)
  BY <1>8, NumberMoves DEF GenerateOrderNumber, TypeOK, OfForms, Others
<1>9. CASE CheckPromo(t)
  <2>1. task[t].form \in Origins
    BY <1>9, BusyIsCalling DEF CheckPromo
  <2>2. QED
    BY <1>9, <2>1, CheckPromoMoves DEF CheckPromo, TypeOK, OfForms, Others, Idle, Refused, Origins
<1>10. CASE SpendPromo(t)
  <2>1. task[t].form \in Origins
    BY <1>10, BusyIsCalling DEF SpendPromo
  <2>2. promo' \in [Codes -> [isActive : BOOLEAN, usageCount : Nat]]
    <3>1. PICK c : c = task[t].content.code
      OBVIOUS
    <3>2. promo' = promo \/ promo' = [promo EXCEPT ![c].usageCount = @ + 1]
      BY <1>10, <3>1, SpendMoves
    <3>3. QED
      BY <3>2, SpendKeepsPromo DEF TypeOK
  <2>3. Others(t) /\ (Refused(t) \/ task'[t].pc = "insert")
    BY <1>10, SpendMoves, Zenon
  <2>4. OfForms'
    BY <2>1, <2>3 DEF OfForms, Others, Idle, Refused, Origins
  <2>5. QED
    BY <1>10, <2>2, <2>4, SpendMoves DEF SpendPromo, TypeOK
<1>11. CASE InsertOrder(t)
  <2>1. task[t].form \in Origins /\ Placed(t) \in [number : Nat, form : Origins, content : Contents]
    BY <1>11, BusyIsCalling DEF InsertOrder, Placed
  <2>2. IsFiniteSet(orders)
    BY DEF TypeOK
  <2>3. IsFiniteSet(orders \cup {Placed(t)})
    BY <2>2, FS_AddElement, Zenon
  <2>4. orders' = orders \/ orders' = orders \cup {Placed(t)}
    BY <1>11, InsertMoves, Zenon
  <2>5. IsFiniteSet(orders')
    BY <2>2, <2>3, <2>4, Zenon
  <2>6. orders' \subseteq [number : Nat, form : Origins, content : Contents]
    BY <2>1, <2>4 DEF TypeOK
  <2>7. OfForms'
    BY <1>11, <2>1, InsertMoves DEF OfForms, Others, Idle, Refused, Origins
  <2>8. QED
    BY <1>11, <2>5, <2>6, <2>7, InsertMoves DEF InsertOrder, TypeOK
<1>12. QED
  BY <1>1, <1>2, <1>3, <1>4, <1>5, <1>6, <1>7, <1>8, <1>9, <1>10, <1>11 DEF Step

LEMMA ThrowOrDie ==
  ASSUME TypeOK, NEW t \in Tasks, Throw(t) \/ Die(t)
  PROVE  /\ task[t].pc # "idle"
         /\ Answers(t, 0) \/ ( /\ task[t].pc \notin {"reserve", "replay", "release"}
                               /\ Refuse(t) )
         /\ UNCHANGED <<filled, keys, promo, customers, orders, requests>>
<1>1. task[t].pc # "idle"
  BY DEF Throw, Die, Running, TypeOK, Idle, Calling
<1>2. QED
  BY <1>1 DEF Throw, Die

LEMMA FaultKeepsTypes ==
  ASSUME TypeInv, NEW t \in Tasks, Throw(t) \/ Die(t)
  PROVE  TypeInv'
<1> USE DEF TypeInv
<1>1. /\ task[t].pc # "idle" /\ task[t].form \in Origins
      /\ UNCHANGED <<filled, keys, promo, customers, orders, requests>>
  BY ThrowOrDie, BusyIsCalling
<1>2. CASE Answers(t, 0)
  BY <1>1, <1>2, EndMoves DEF TypeOK, OfForms, Others, Idle
<1>3. CASE Refuse(t)
  BY <1>1, <1>3, RefuseMoves DEF TypeOK, OfForms, Others, Idle, Refused, Origins
<1>4. QED
  BY <1>2, <1>3, ThrowOrDie

LEMMA SubmitMoves ==
  ASSUME TypeInv, NEW t \in Tasks, NEW f \in Forms, Submit(f, t)
  PROVE  /\ TypeInv'
         /\ Others(t)
         /\ task'[t].pc = "reserve" /\ task'[t].form = f /\ task'[t].content = filled'[f]
         /\ \A g \in Forms \ {f} : filled'[g] = filled[g]
<1>1. PICK c \in Contents :
        /\ filled' = [filled EXCEPT ![f] = c]
        /\ task' = [task EXCEPT ![t] = Request(f, c, 0, "reserve")]
  BY DEF Submit
<1>2. "reserve" \in Places /\ f \in Origins /\ 0 \in Nat
  BY DEF Places, Origins
<1>3. /\ Others(t) /\ task' \in [Tasks -> {Idle} \cup Calling]
      /\ task'[t].pc = "reserve" /\ task'[t].form = f /\ task'[t].content = c
  BY <1>1, <1>2, BeginMoves DEF TypeInv
<1>4. filled' \in [Forms -> Contents] /\ filled'[f] = c /\ \A g \in Forms \ {f} : filled'[g] = filled[g]
  BY <1>1 DEF TypeInv, TypeOK
<1>5. requests' \in 0 .. MaxRequests
  BY CreationAssumption DEF Submit, TypeInv, TypeOK
<1>6. QED
  BY <1>3, <1>4, <1>5 DEF Submit, TypeInv, TypeOK, OfForms, Others

LEMMA ImportMoves ==
  ASSUME TypeInv, NEW t \in Tasks, Import(t)
  PROVE  /\ TypeInv'
         /\ Others(t)
         /\ task'[t].pc = "admit" /\ task'[t].form = NoForm
<1>1. PICK c \in Contents, rows \in 1 .. MaxRows :
        task' = [task EXCEPT ![t] = Request(NoForm, c, rows, "admit")]
  BY DEF Import
<1>2. "admit" \in Places /\ NoForm \in Origins /\ rows \in Nat
  BY CreationAssumption DEF Places, Origins
<1>3. /\ Others(t) /\ task' \in [Tasks -> {Idle} \cup Calling]
      /\ task'[t].pc = "admit" /\ task'[t].form = NoForm
  BY <1>1, <1>2, BeginMoves DEF TypeInv
<1>4. requests' \in 0 .. MaxRequests
  BY CreationAssumption DEF Import, TypeInv, TypeOK
<1>5. QED
  BY <1>3, <1>4 DEF Import, TypeInv, TypeOK, OfForms, Others

LEMMA SwitchMoves ==
  ASSUME TypeInv, NEW c \in Codes, SetPromoCodeActive(c)
  PROVE  /\ TypeInv'
         /\ \A d \in Codes : promo'[d].usageCount = promo[d].usageCount
<1>1. promo \in [Codes -> [isActive : BOOLEAN, usageCount : Nat]]
  BY DEF TypeInv, TypeOK
<1>2. promo' = [promo EXCEPT ![c] = [promo[c] EXCEPT !.isActive = ~promo[c].isActive]]
  BY <1>1 DEF SetPromoCodeActive
<1>3. /\ [promo[c] EXCEPT !.isActive = ~promo[c].isActive] \in [isActive : BOOLEAN, usageCount : Nat]
      /\ [promo[c] EXCEPT !.isActive = ~promo[c].isActive].usageCount = promo[c].usageCount
  BY <1>1
<1>4. /\ promo' \in [Codes -> [isActive : BOOLEAN, usageCount : Nat]]
      /\ \A d \in Codes : promo'[d].usageCount = promo[d].usageCount
  BY <1>1, <1>2, <1>3
<1>5. QED
  BY <1>4 DEF SetPromoCodeActive, TypeInv, TypeOK, OfForms

LEMMA NextKeepsTypes == ASSUME TypeInv, [Next]_vars PROVE TypeInv'
<1>1. ASSUME NEW f \in Forms, GiveUp(f) PROVE TypeInv'
  BY <1>1 DEF GiveUp, TypeInv, TypeOK, OfForms
<1>2. ASSUME NEW t \in Tasks, NEW f \in Forms, Submit(f, t) PROVE TypeInv'
  BY <1>2, SubmitMoves
<1>3. ASSUME NEW t \in Tasks, Import(t) PROVE TypeInv'
  BY <1>3, ImportMoves
<1>4. ASSUME NEW t \in Tasks, Step(t) PROVE TypeInv'
  BY <1>4, StepKeepsTypes
<1>5. ASSUME NEW t \in Tasks, Throw(t) \/ Die(t) PROVE TypeInv'
  BY <1>5, FaultKeepsTypes
<1>6. ASSUME NEW c \in Codes, SetPromoCodeActive(c) PROVE TypeInv'
  BY <1>6, SwitchMoves
<1>7. CASE UNCHANGED vars
  BY <1>7 DEF vars, TypeInv, TypeOK, OfForms
<1>8. QED
  BY <1>1, <1>2, <1>3, <1>4, <1>5, <1>6, <1>7 DEF Next

(***************************************************************************)
(* The variables of Creation keep their types, and only a request of a     *)
(* form is at an idempotency key (withIdempotency, idempotency.ts).        *)
(***************************************************************************)
THEOREM TypeCorrect == Spec => []TypeInv
<1>1. Init => TypeInv
  BY InitIsTyped
<1>2. TypeInv /\ [Next]_vars => TypeInv'
  BY NextKeepsTypes
<1>3. QED
  BY <1>1, <1>2, PTL DEF Spec

-----------------------------------------------------------------------------
(* The steps that matter to numbers, codes and customers *)

Quiet(t) ==
  /\ Others(t)
  /\ task'[t].pc \in {"idle", "reserve", "replay", "admit", "customer", "release"}
  /\ orders' = orders /\ customers' = customers /\ promo' = promo

Aside ==
  /\ task' = task /\ orders' = orders /\ customers' = customers
  /\ \A c \in Codes : promo'[c].usageCount = promo[c].usageCount

LEMMA StepsAreQuiet ==
  ASSUME TypeInv, NEW t \in Tasks,
         \/ Reserve(t) \/ Replay(t) \/ Store(t) \/ Release(t) \/ Admit(t)
         \/ Throw(t) \/ Die(t) \/ Import(t) \/ \E f \in Forms : Submit(f, t)
  PROVE  Quiet(t)
<1> USE DEF TypeInv
<1>1. CASE Reserve(t)
  BY <1>1, ReserveMoves DEF Reserve, Quiet
<1>2. CASE Replay(t)
  <2>1. PICK n \in Nat : Answers(t, n)
    BY <1>2, StoredIsNatural DEF Replay
  <2>2. QED
    BY <1>2, <2>1, EndMoves DEF Replay, Quiet, Idle
<1>3. CASE Store(t)
  <2>1. task[t].number \in Nat
    BY <1>3, BusyIsCalling DEF Store
  <2>2. PICK n \in Nat : Answers(t, n)
    BY <1>3, <2>1 DEF Store
  <2>3. QED
    BY <1>3, <2>2, EndMoves DEF Store, Quiet, Idle
<1>4. CASE Release(t)
  <2>1. Answers(t, 0) /\ 0 \in Nat
    BY <1>4 DEF Release
  <2>2. QED
    BY <1>4, <2>1, EndMoves DEF Release, Quiet, Idle
<1>5. CASE Admit(t)
  BY <1>5, AdmitMoves DEF Admit, Quiet, Refused, Idle
<1>6. CASE Throw(t) \/ Die(t)
  <2>1. CASE Answers(t, 0)
    BY <1>6, <2>1, ThrowOrDie, EndMoves DEF Quiet, Idle
  <2>2. CASE Refuse(t)
    BY <1>6, <2>2, ThrowOrDie, RefuseMoves DEF Quiet, Refused, Idle
  <2>3. QED
    BY <1>6, <2>1, <2>2, ThrowOrDie
<1>7. CASE Import(t)
  BY <1>7, ImportMoves DEF Import, Quiet
<1>8. CASE \E f \in Forms : Submit(f, t)
  BY <1>8, SubmitMoves DEF Submit, Quiet
<1>9. QED
  BY <1>1, <1>2, <1>3, <1>4, <1>5, <1>6, <1>7, <1>8

Busy(t) == FindCustomer(t) \/ CreateCustomer(t) \/ GenerateOrderNumber(t)
           \/ CheckPromo(t) \/ SpendPromo(t) \/ InsertOrder(t)

LEMMA NextMoves ==
  ASSUME TypeInv, [Next]_vars
  PROVE  Aside \/ \E t \in Tasks : Quiet(t) \/ Busy(t)
<1>1. ASSUME NEW f \in Forms, GiveUp(f) PROVE Aside
  BY <1>1 DEF GiveUp, Aside
<1>2. ASSUME NEW c \in Codes, SetPromoCodeActive(c) PROVE Aside
  BY <1>2, SwitchMoves DEF SetPromoCodeActive, Aside
<1>3. CASE UNCHANGED vars
  BY <1>3 DEF vars, Aside
<1>4. ASSUME NEW t \in Tasks, Step(t) PROVE Quiet(t) \/ Busy(t)
  BY <1>4, StepsAreQuiet DEF Step, Busy
<1>5. ASSUME NEW t \in Tasks,
             Throw(t) \/ Die(t) \/ Import(t) \/ \E f \in Forms : Submit(f, t)
      PROVE  Quiet(t)
  BY <1>5, StepsAreQuiet
<1>6. QED
  BY <1>1, <1>2, <1>3, <1>4, <1>5 DEF Next

-----------------------------------------------------------------------------
(* Numbers *)

Drawn == {"promo", "spend", "insert"}

\* A number drawn is at most one more than the orders there are by now.
NumberInv ==
  /\ TypeInv
  /\ NumbersAreDense
  /\ \A t \in Tasks : task[t].pc \in Drawn => task[t].number \in 1 .. Cardinality(orders) + 1

\* While no order is added, it is enough that requests keep their numbers or draw the next.
LEMMA NumbersKept ==
  ASSUME NumberInv, TypeInv', orders' = orders, NEW t \in Tasks, Others(t),
         task'[t].pc \in Drawn =>
           \/ task[t].pc \in Drawn /\ task'[t].number = task[t].number
           \/ task'[t].number = Cardinality(orders) + 1
  PROVE  NumberInv'
<1>1. Cardinality(orders) \in Nat
  BY FS_CardinalityType DEF NumberInv, TypeInv, TypeOK
<1>2. \A u \in Tasks : task'[u].pc \in Drawn => task'[u].number \in 1 .. Cardinality(orders) + 1
  BY <1>1 DEF NumberInv, Others
<1>3. QED
  BY <1>2 DEF NumberInv, NumbersAreDense

\* A free number among those drawn is the next one.
LEMMA InsertKeepsNumbers ==
  ASSUME NumberInv, TypeInv', NEW t \in Tasks, Others(t), task[t].pc = "insert",
         NumberIsFree(task[t].number), orders' = orders \cup {Placed(t)},
         task'[t].pc \notin Drawn
  PROVE  NumberInv'
<1>1. IsFiniteSet(orders)
  BY DEF NumberInv, TypeInv, TypeOK
<1>2. Cardinality(orders) \in Nat
  BY <1>1, FS_CardinalityType
<1>3. Placed(t) \notin orders /\ Placed(t).number = task[t].number
  BY DEF NumberIsFree, Placed
<1>4. Cardinality(orders \cup {Placed(t)}) = Cardinality(orders) + 1
  BY <1>1, <1>3, FS_AddElement, Zenon
<1>5. Cardinality(orders') = Cardinality(orders) + 1
  BY <1>4
<1>6. task[t].number \in 1 .. Cardinality(orders) + 1 /\ task[t].number \notin {o.number : o \in orders}
  BY DEF NumberInv, NumberIsFree, Drawn
<1>7. task[t].number = Cardinality(orders) + 1
  BY <1>2, <1>6 DEF NumberInv, NumbersAreDense
<1>8. {o.number : o \in orders'} = {o.number : o \in orders} \cup {Cardinality(orders) + 1}
  BY <1>3, <1>7
<1>9. {o.number : o \in orders'} = 1 .. Cardinality(orders')
  BY <1>2, <1>5, <1>8 DEF NumberInv, NumbersAreDense
<1>10. \A u \in Tasks : task'[u].pc \in Drawn => task'[u].number \in 1 .. Cardinality(orders') + 1
  BY <1>2, <1>5 DEF NumberInv, Others
<1>11. QED
  BY <1>9, <1>10 DEF NumberInv, NumbersAreDense

LEMMA NextKeepsNumbers == ASSUME NumberInv, [Next]_vars PROVE NumberInv'
<1>1. TypeInv /\ TypeOK /\ TypeInv'
  BY NextKeepsTypes DEF NumberInv, TypeInv
<1>2. CASE Aside
  BY <1>1, <1>2 DEF Aside, NumberInv, NumbersAreDense
<1>3. ASSUME NEW t \in Tasks, Quiet(t) PROVE NumberInv'
  BY <1>1, <1>3, NumbersKept DEF Quiet, Drawn
<1>4. ASSUME NEW t \in Tasks, FindCustomer(t) PROVE NumberInv'
  BY <1>1, <1>4, FindMoves, NumbersKept DEF FindCustomer, Drawn
<1>5. ASSUME NEW t \in Tasks, CreateCustomer(t) PROVE NumberInv'
  BY <1>1, <1>5, CreateMoves, NumbersKept DEF CreateCustomer, Drawn
<1>6. ASSUME NEW t \in Tasks, GenerateOrderNumber(t) PROVE NumberInv'
  BY <1>1, <1>6, NumberMoves, NumbersKept DEF GenerateOrderNumber
<1>7. ASSUME NEW t \in Tasks, CheckPromo(t) PROVE NumberInv'
  BY <1>1, <1>7, CheckPromoMoves, NumbersKept DEF CheckPromo, Refused, Idle, Drawn
<1>8. ASSUME NEW t \in Tasks, SpendPromo(t) PROVE NumberInv'
  <2>1. /\ Others(t)
        /\ \/ Refused(t)
           \/ task'[t].pc = "insert" /\ task'[t].number = task[t].number
    BY <1>1, <1>8, SpendMoves, Zenon
  <2>2. orders' = orders /\ task[t].pc = "spend"
    BY <1>8 DEF SpendPromo
  <2>3. QED
    BY <1>1, <2>1, <2>2, NumbersKept DEF Refused, Idle, Drawn
<1>9. ASSUME NEW t \in Tasks, InsertOrder(t) PROVE NumberInv'
  <2>1. task[t].pc = "insert"
    BY <1>9 DEF InsertOrder
  <2>2. CASE Refused(t) /\ orders' = orders
    BY <1>1, <1>9, <2>2, InsertMoves, NumbersKept DEF Refused, Idle, Drawn
  <2>3. CASE NumberIsFree(task[t].number) /\ orders' = orders \cup {Placed(t)}
             /\ (Refused(t) \/ task'[t].pc = "store")
    <3>1. task'[t].pc \notin Drawn
      BY <2>3 DEF Refused, Idle, Drawn
    <3>2. Others(t)
      BY <1>1, <1>9, InsertMoves
    <3>3. QED
      BY <1>1, <2>1, <2>3, <3>1, <3>2, InsertKeepsNumbers
  <2>4. QED
    BY <1>1, <1>9, <2>2, <2>3, InsertMoves
<1>10. QED
  BY <1>1, <1>2, <1>3, <1>4, <1>5, <1>6, <1>7, <1>8, <1>9, NextMoves DEF Busy

(***************************************************************************)
(* However many requests race and die, the orders are numbered without a   *)
(* gap or a repetition, although a number is a count read long before the  *)
(* insert (generateOrderNumber, orders.service.ts:26).                     *)
(***************************************************************************)
THEOREM Numbers == Spec => []NumbersAreDense
<1>1. Init => NumberInv
  <2>1. ASSUME Init PROVE NumberInv
    <3>1. TypeInv /\ orders = {} /\ Cardinality(orders) = 0
      BY <2>1, InitIsTyped, FS_EmptySet DEF Init
    <3>2. \A t \in Tasks : task[t].pc = "idle"
      BY <2>1 DEF Init, Idle
    <3>3. QED
      BY <3>1, <3>2 DEF NumberInv, NumbersAreDense, Drawn
  <2>2. QED
    BY <2>1
<1>2. NumberInv /\ [Next]_vars => NumberInv'
  BY NextKeepsNumbers
<1>3. NumberInv => NumbersAreDense
  BY DEF NumberInv
<1>4. QED
  BY <1>1, <1>2, <1>3, PTL DEF Spec

-----------------------------------------------------------------------------
(* Limited codes *)

DiscountInv == TypeInv /\ DiscountsWithinLimit

LEMMA CodesAreCounted ==
  ASSUME TypeOK, NEW c \in Codes
  PROVE  /\ IsFiniteSet(Discounted(c)) /\ Cardinality(Discounted(c)) \in Nat
         /\ IsFiniteSet(Holding(c)) /\ Cardinality(Holding(c)) \in Nat
         /\ promo[c].usageCount \in Nat
<1>1. IsFiniteSet(orders) /\ Discounted(c) \subseteq orders
  BY DEF TypeOK, Discounted
<1>2. IsFiniteSet(Tasks) /\ Holding(c) \subseteq Tasks
  BY CreationAssumption DEF Holding
<1>3. IsFiniteSet(Discounted(c)) /\ IsFiniteSet(Holding(c))
  BY <1>1, <1>2, FS_Subset, Zenon
<1>4. QED
  BY <1>3, FS_CardinalityType DEF TypeOK

LEMMA DiscountsKept ==
  ASSUME DiscountInv, TypeInv', orders' = orders,
         \A c \in Codes : promo'[c].usageCount = promo[c].usageCount,
         \A c \in Codes : Holding(c)' \subseteq Holding(c)
  PROVE  DiscountInv'
<1>1. ASSUME NEW c \in Codes
      PROVE  /\ Cardinality(Discounted(c)') + Cardinality(Holding(c)') <= promo'[c].usageCount
             /\ c \in LimitedCodes => promo'[c].usageCount <= usageLimit
  <2>1. Discounted(c)' = Discounted(c)
    BY DEF Discounted
  <2>2. /\ IsFiniteSet(Holding(c)) /\ Cardinality(Discounted(c)) \in Nat
        /\ Cardinality(Holding(c)) \in Nat /\ promo[c].usageCount \in Nat
    BY CodesAreCounted DEF DiscountInv, TypeInv
  <2>3. PICK held : held = Holding(c)'
    OBVIOUS
  <2>4. Cardinality(held) \in Nat /\ Cardinality(held) <= Cardinality(Holding(c))
    BY <2>2, <2>3, FS_Subset, FS_CardinalityType
  <2>5. Cardinality(Holding(c)') \in Nat /\ Cardinality(Holding(c)') <= Cardinality(Holding(c))
    BY <2>3, <2>4
  <2>6. Cardinality(Discounted(c)') = Cardinality(Discounted(c))
    BY <2>1
  <2>7. QED
    BY <2>2, <2>5, <2>6 DEF DiscountInv, DiscountsWithinLimit
<1>2. QED
  BY <1>1 DEF DiscountInv, DiscountsWithinLimit

\* A use is counted before the request that paid for it holds it.
LEMMA SpendKeepsDiscounts ==
  ASSUME DiscountInv, TypeInv', NEW t \in Tasks, NEW c, Others(t), orders' = orders,
         c = task[t].content.code, task'[t].content = task[t].content,
         promo' = [promo EXCEPT ![c].usageCount = @ + 1], MaySpend(c)
  PROVE  DiscountInv'
<1>1. promo \in [Codes -> [isActive : BOOLEAN, usageCount : Nat]]
  BY DEF DiscountInv, TypeInv, TypeOK
<1>2. \A d \in Codes : promo'[d].usageCount = IF d = c THEN promo[d].usageCount + 1
                                              ELSE promo[d].usageCount
  BY <1>1
<1>3. ASSUME NEW d \in Codes
      PROVE  /\ Cardinality(Discounted(d)') + Cardinality(Holding(d)') <= promo'[d].usageCount
             /\ d \in LimitedCodes => promo'[d].usageCount <= usageLimit
  <2>1. Cardinality(Discounted(d)') = Cardinality(Discounted(d))
    BY DEF Discounted
  <2>2. /\ IsFiniteSet(Holding(d)) /\ Cardinality(Discounted(d)) \in Nat
        /\ Cardinality(Holding(d)) \in Nat /\ promo[d].usageCount \in Nat
    BY CodesAreCounted DEF DiscountInv, TypeInv
  <2>3. PICK held : held = Holding(d)'
    OBVIOUS
  <2>4. CASE d = c
    <3>1. held \subseteq Holding(d) \cup {t}
      BY <2>3 DEF Holding, Others
    <3>2. /\ IsFiniteSet(Holding(d) \cup {t})
          /\ \/ Cardinality(Holding(d) \cup {t}) = Cardinality(Holding(d))
             \/ Cardinality(Holding(d) \cup {t}) = Cardinality(Holding(d)) + 1
      BY <2>2, FS_AddElement, Zenon
    <3>3. Cardinality(held) \in Nat /\ Cardinality(held) <= Cardinality(Holding(d) \cup {t})
      BY <3>1, <3>2, FS_Subset, FS_CardinalityType
    <3>4. Cardinality(Holding(d)') \in Nat /\ Cardinality(Holding(d)') <= Cardinality(Holding(d)) + 1
      BY <2>2, <2>3, <3>2, <3>3
    <3>5. d \in LimitedCodes => promo[d].usageCount < usageLimit
      BY <2>4 DEF MaySpend
    <3>6. QED
      BY <1>2, <2>1, <2>2, <2>4, <3>4, <3>5, CreationAssumption
         DEF DiscountInv, DiscountsWithinLimit
  <2>5. CASE d # c
    <3>1. held \subseteq Holding(d)
      BY <2>3, <2>5 DEF Holding, Others
    <3>2. Cardinality(held) \in Nat /\ Cardinality(held) <= Cardinality(Holding(d))
      BY <2>2, <3>1, FS_Subset, FS_CardinalityType
    <3>3. Cardinality(Holding(d)') \in Nat /\ Cardinality(Holding(d)') <= Cardinality(Holding(d))
      BY <2>3, <3>2
    <3>4. QED
      BY <1>2, <2>1, <2>2, <2>5, <3>3 DEF DiscountInv, DiscountsWithinLimit
  <2>6. QED
    BY <2>4, <2>5
<1>4. QED
  BY <1>3 DEF DiscountInv, DiscountsWithinLimit

\* The order takes over the use its request held.
LEMMA InsertKeepsDiscounts ==
  ASSUME DiscountInv, TypeInv', NEW t \in Tasks, Others(t), task[t].pc = "insert",
         orders' = orders \cup {Placed(t)}, promo' = promo, task'[t].pc # "insert"
  PROVE  DiscountInv'
<1>1. ASSUME NEW d \in Codes
      PROVE  /\ Cardinality(Discounted(d)') + Cardinality(Holding(d)') <= promo'[d].usageCount
             /\ d \in LimitedCodes => promo'[d].usageCount <= usageLimit
  <2>1. /\ IsFiniteSet(Holding(d)) /\ Cardinality(Discounted(d)) \in Nat
        /\ IsFiniteSet(Discounted(d))
        /\ Cardinality(Holding(d)) \in Nat /\ promo[d].usageCount \in Nat
    BY CodesAreCounted DEF DiscountInv, TypeInv
  <2>2. PICK held, discounted : held = Holding(d)' /\ discounted = Discounted(d)'
    OBVIOUS
  <2>3. held = Holding(d) \ {t}
    BY <2>2 DEF Holding, Others
  <2>4. CASE task[t].content.code = d
    <3>1. t \in Holding(d)
      BY <2>4 DEF Holding
    <3>2. Cardinality(held) = Cardinality(Holding(d)) - 1
      BY <2>1, <2>3, <3>1, FS_RemoveElement, Zenon
    <3>3. discounted = Discounted(d) \cup {Placed(t)}
      BY <2>2, <2>4 DEF Discounted, Placed
    <3>4. \/ Cardinality(discounted) = Cardinality(Discounted(d))
          \/ Cardinality(discounted) = Cardinality(Discounted(d)) + 1
      BY <2>1, <3>3, FS_AddElement, Zenon
    <3>5. QED
      BY <2>1, <2>2, <3>2, <3>4 DEF DiscountInv, DiscountsWithinLimit
  <2>5. CASE task[t].content.code # d
    <3>1. held = Holding(d)
      BY <2>3, <2>5 DEF Holding
    <3>2. discounted = Discounted(d)
      BY <2>2, <2>5 DEF Discounted, Placed
    <3>3. QED
      BY <2>1, <2>2, <3>1, <3>2 DEF DiscountInv, DiscountsWithinLimit
  <2>6. QED
    BY <2>4, <2>5
<1>2. QED
  BY <1>1 DEF DiscountInv, DiscountsWithinLimit

\* A request that does not come to its insert with a code holds no use.
LEMMA NothingHeld ==
  ASSUME NEW t \in Tasks, Others(t),
         task'[t].pc # "insert" \/ task'[t].content.code = NoCode
  PROVE  \A c \in Codes : Holding(c)' \subseteq Holding(c)
BY CreationAssumption DEF Holding, Others, Codes

LEMMA NextKeepsDiscounts == ASSUME DiscountInv, [Next]_vars PROVE DiscountInv'
<1>1. TypeInv /\ TypeOK /\ TypeInv'
  BY NextKeepsTypes DEF DiscountInv, TypeInv
<1>2. CASE Aside
  <2>1. \A c \in Codes : Holding(c)' \subseteq Holding(c)
    BY <1>2 DEF Aside, Holding
  <2>2. QED
    BY <1>1, <1>2, <2>1, DiscountsKept DEF Aside
<1>3. ASSUME NEW t \in Tasks, Quiet(t) PROVE DiscountInv'
  BY <1>1, <1>3, NothingHeld, DiscountsKept DEF Quiet
<1>4. ASSUME NEW t \in Tasks, FindCustomer(t) PROVE DiscountInv'
  BY <1>1, <1>4, FindMoves, NothingHeld, DiscountsKept DEF FindCustomer
<1>5. ASSUME NEW t \in Tasks, CreateCustomer(t) PROVE DiscountInv'
  BY <1>1, <1>5, CreateMoves, NothingHeld, DiscountsKept DEF CreateCustomer
<1>6. ASSUME NEW t \in Tasks, GenerateOrderNumber(t) PROVE DiscountInv'
  BY <1>1, <1>6, NumberMoves, NothingHeld, DiscountsKept DEF GenerateOrderNumber
<1>7. ASSUME NEW t \in Tasks, CheckPromo(t) PROVE DiscountInv'
  BY <1>1, <1>7, CheckPromoMoves, NothingHeld, DiscountsKept DEF CheckPromo, Refused, Idle
<1>8. ASSUME NEW t \in Tasks, SpendPromo(t) PROVE DiscountInv'
  <2>1. Others(t) /\ orders' = orders
    BY <1>1, <1>8, SpendMoves DEF SpendPromo
  <2>2. CASE Refused(t) /\ promo' = promo
    BY <1>1, <2>1, <2>2, NothingHeld, DiscountsKept DEF Refused, Idle
  <2>3. CASE task'[t].content = task[t].content /\ MaySpend(task[t].content.code)
             /\ promo' = [promo EXCEPT ![task[t].content.code].usageCount = @ + 1]
    <3>1. PICK c : c = task[t].content.code
      OBVIOUS
    <3>2. MaySpend(c) /\ promo' = [promo EXCEPT ![c].usageCount = @ + 1]
      BY <2>3, <3>1
    <3>3. QED
      BY <1>1, <2>1, <2>3, <3>1, <3>2, SpendKeepsDiscounts
  <2>4. QED
    BY <1>1, <1>8, <2>2, <2>3, SpendMoves
<1>9. ASSUME NEW t \in Tasks, InsertOrder(t) PROVE DiscountInv'
  <2>1. task[t].pc = "insert" /\ promo' = promo /\ Others(t)
    BY <1>1, <1>9, InsertMoves DEF InsertOrder
  <2>2. CASE Refused(t) /\ orders' = orders
    BY <1>1, <2>1, <2>2, NothingHeld, DiscountsKept DEF Refused, Idle
  <2>3. CASE orders' = orders \cup {Placed(t)} /\ (Refused(t) \/ task'[t].pc = "store")
    <3>1. task'[t].pc # "insert"
      BY <2>3 DEF Refused, Idle
    <3>2. QED
      BY <1>1, <2>1, <2>3, <3>1, InsertKeepsDiscounts
  <2>4. QED
    BY <1>1, <1>9, <2>2, <2>3, InsertMoves
<1>10. QED
  BY <1>1, <1>2, <1>3, <1>4, <1>5, <1>6, <1>7, <1>8, <1>9, NextMoves DEF Busy

(***************************************************************************)
(* For any codes and any limit, and however many requests race and die, a  *)
(* limited code discounts no more orders than its limit, because the limit *)
(* is checked by the update that counts the use (promotions.service.ts:90).*)
(***************************************************************************)
THEOREM Discounts == Spec => []DiscountsWithinLimit
<1>1. Init => DiscountInv
  <2>1. ASSUME Init PROVE DiscountInv
    <3>1. TypeInv /\ \A c \in Codes : promo[c].usageCount = 0
      BY <2>1, InitIsTyped DEF Init
    <3>2. \A c \in Codes : Discounted(c) = {} /\ Holding(c) = {}
      BY <2>1 DEF Init, Discounted, Holding, Idle
    <3>3. Cardinality({}) = 0
      BY FS_EmptySet
    <3>4. QED
      BY <3>1, <3>2, <3>3, CreationAssumption DEF DiscountInv, DiscountsWithinLimit
  <2>2. QED
    BY <2>1
<1>2. DiscountInv /\ [Next]_vars => DiscountInv'
  BY NextKeepsDiscounts
<1>3. DiscountInv => DiscountsWithinLimit
  BY DEF DiscountInv
<1>4. QED
  BY <1>1, <1>2, <1>3, PTL DEF Spec

-----------------------------------------------------------------------------
(* Customers *)

CustomerInv == TypeInv /\ CustomersPerRequest

LEMMA PhonesAreCounted ==
  ASSUME TypeOK, NEW p \in Phones
  PROVE  /\ IsFiniteSet(Registering(p)) /\ Cardinality(Registering(p)) \in Nat
         /\ customers[p] \in Nat /\ Cardinality(Tasks) \in Nat
<1>1. IsFiniteSet(Tasks) /\ Registering(p) \subseteq Tasks
  BY CreationAssumption DEF Registering
<1>2. IsFiniteSet(Registering(p))
  BY <1>1, FS_Subset, Zenon
<1>3. QED
  BY <1>1, <1>2, FS_CardinalityType DEF TypeOK

LEMMA CustomersKept ==
  ASSUME CustomerInv, TypeInv', customers' = customers, NEW t \in Tasks, Others(t),
         task'[t].pc # "newCustomer"
  PROVE  CustomerInv'
<1>1. ASSUME NEW p \in Phones
      PROVE  customers'[p] + Cardinality(Registering(p)') <= Cardinality(Tasks)
  <2>1. PICK new : new = Registering(p)'
    OBVIOUS
  <2>2. new \subseteq Registering(p)
    BY <2>1 DEF Registering, Others
  <2>3. IsFiniteSet(Registering(p)) /\ Cardinality(Registering(p)) \in Nat
        /\ customers[p] \in Nat /\ Cardinality(Tasks) \in Nat
    BY PhonesAreCounted DEF CustomerInv, TypeInv
  <2>4. Cardinality(new) \in Nat /\ Cardinality(new) <= Cardinality(Registering(p))
    BY <2>2, <2>3, FS_Subset, FS_CardinalityType
  <2>5. QED
    BY <2>1, <2>3, <2>4 DEF CustomerInv, CustomersPerRequest
<1>2. QED
  BY <1>1 DEF CustomerInv, CustomersPerRequest

\* Whoever finds no customer is one of the requests that run at once.
LEMMA FindKeepsCustomers ==
  ASSUME CustomerInv, TypeInv', NEW t \in Tasks, FindCustomer(t)
  PROVE  CustomerInv'
<1>1. /\ Others(t) /\ customers' = customers
      /\ task'[t].content = task[t].content
      /\ task'[t].pc = "newCustomer" => customers[task[t].content.phone] = 0
  BY FindMoves DEF FindCustomer, CustomerInv, TypeInv
<1>2. ASSUME NEW p \in Phones
      PROVE  customers'[p] + Cardinality(Registering(p)') <= Cardinality(Tasks)
  <2>1. PICK new : new = Registering(p)'
    OBVIOUS
  <2>2. IsFiniteSet(Registering(p)) /\ Cardinality(Registering(p)) \in Nat
        /\ customers[p] \in Nat /\ Cardinality(Tasks) \in Nat
    BY PhonesAreCounted DEF CustomerInv, TypeInv
  <2>3. CASE customers[p] = 0
    <3>1. new \subseteq Tasks /\ IsFiniteSet(Tasks)
      BY <2>1, CreationAssumption DEF Registering
    <3>2. Cardinality(new) <= Cardinality(Tasks) /\ Cardinality(new) \in Nat
      BY <3>1, FS_Subset, FS_CardinalityType
    <3>3. QED
      BY <1>1, <2>1, <2>2, <2>3, <3>2
  <2>4. CASE customers[p] # 0
    <3>1. new \subseteq Registering(p)
      BY <1>1, <2>1, <2>4 DEF Registering, Others
    <3>2. Cardinality(new) \in Nat /\ Cardinality(new) <= Cardinality(Registering(p))
      BY <2>2, <3>1, FS_Subset, FS_CardinalityType
    <3>3. QED
      BY <1>1, <2>1, <2>2, <3>2 DEF CustomerInv, CustomersPerRequest
  <2>5. QED
    BY <2>3, <2>4
<1>3. QED
  BY <1>2 DEF CustomerInv, CustomersPerRequest

LEMMA CreateKeepsCustomers ==
  ASSUME CustomerInv, TypeInv', NEW t \in Tasks, CreateCustomer(t)
  PROVE  CustomerInv'
<1>1. Others(t) /\ task'[t].pc = "number" /\ task[t].pc = "newCustomer"
  BY CreateMoves DEF CreateCustomer, CustomerInv, TypeInv
<1>2. \A p \in Phones : customers'[p] = IF p = task[t].content.phone THEN customers[p] + 1
                                        ELSE customers[p]
  BY DEF CreateCustomer, CustomerInv, TypeInv, TypeOK
<1>3. ASSUME NEW p \in Phones
      PROVE  customers'[p] + Cardinality(Registering(p)') <= Cardinality(Tasks)
  <2>1. PICK new : new = Registering(p)'
    OBVIOUS
  <2>2. IsFiniteSet(Registering(p)) /\ Cardinality(Registering(p)) \in Nat
        /\ customers[p] \in Nat /\ Cardinality(Tasks) \in Nat
    BY PhonesAreCounted DEF CustomerInv, TypeInv
  <2>3. new = Registering(p) \ {t}
    BY <1>1, <2>1 DEF Registering, Others
  <2>4. CASE p = task[t].content.phone
    <3>1. t \in Registering(p)
      BY <1>1, <2>4 DEF Registering
    <3>2. Cardinality(new) = Cardinality(Registering(p)) - 1
      BY <2>2, <2>3, <3>1, FS_RemoveElement, Zenon
    <3>3. QED
      BY <1>2, <2>1, <2>2, <2>4, <3>2 DEF CustomerInv, CustomersPerRequest
  <2>5. CASE p # task[t].content.phone
    <3>1. new = Registering(p)
      BY <2>3, <2>5 DEF Registering
    <3>2. QED
      BY <1>2, <2>1, <2>2, <2>5, <3>1 DEF CustomerInv, CustomersPerRequest
  <2>6. QED
    BY <2>4, <2>5
<1>4. QED
  BY <1>3 DEF CustomerInv, CustomersPerRequest

LEMMA NextKeepsCustomers == ASSUME CustomerInv, [Next]_vars PROVE CustomerInv'
<1>1. TypeInv /\ TypeOK /\ TypeInv'
  BY NextKeepsTypes DEF CustomerInv, TypeInv
<1>2. CASE Aside
  BY <1>1, <1>2 DEF Aside, CustomerInv, CustomersPerRequest, Registering
<1>3. ASSUME NEW t \in Tasks, Quiet(t) PROVE CustomerInv'
  BY <1>1, <1>3, CustomersKept DEF Quiet
<1>4. ASSUME NEW t \in Tasks, FindCustomer(t) PROVE CustomerInv'
  BY <1>1, <1>4, FindKeepsCustomers
<1>5. ASSUME NEW t \in Tasks, CreateCustomer(t) PROVE CustomerInv'
  BY <1>1, <1>5, CreateKeepsCustomers
<1>6. ASSUME NEW t \in Tasks, GenerateOrderNumber(t) PROVE CustomerInv'
  BY <1>1, <1>6, NumberMoves, CustomersKept DEF GenerateOrderNumber
<1>7. ASSUME NEW t \in Tasks, CheckPromo(t) PROVE CustomerInv'
  BY <1>1, <1>7, CheckPromoMoves, CustomersKept DEF CheckPromo, Refused, Idle
<1>8. ASSUME NEW t \in Tasks, SpendPromo(t) PROVE CustomerInv'
  <2>1. Others(t) /\ (Refused(t) \/ task'[t].pc = "insert")
    BY <1>1, <1>8, SpendMoves, Zenon
  <2>2. customers' = customers
    BY <1>8 DEF SpendPromo
  <2>3. QED
    BY <1>1, <2>1, <2>2, CustomersKept DEF Refused, Idle
<1>9. ASSUME NEW t \in Tasks, InsertOrder(t) PROVE CustomerInv'
  <2>1. Others(t) /\ (Refused(t) \/ task'[t].pc = "store")
    BY <1>1, <1>9, InsertMoves, Zenon
  <2>2. customers' = customers
    BY <1>9 DEF InsertOrder
  <2>3. QED
    BY <1>1, <2>1, <2>2, CustomersKept DEF Refused, Idle
<1>10. QED
  BY <1>1, <1>2, <1>3, <1>4, <1>5, <1>6, <1>7, <1>8, <1>9, NextMoves DEF Busy

(***************************************************************************)
(* A phone never gets more customers than requests may run at once,        *)
(* however many requests there are in all: the race of the lookup with the *)
(* insert (orders.service.ts:202) is the only one to make two.             *)
(***************************************************************************)
THEOREM Customers == Spec => []CustomersPerRequest
<1>1. Init => CustomerInv
  <2>1. ASSUME Init PROVE CustomerInv
    <3>1. TypeInv /\ \A p \in Phones : customers[p] = 0
      BY <2>1, InitIsTyped DEF Init
    <3>2. \A p \in Phones : Registering(p) = {}
      BY <2>1 DEF Init, Registering, Idle
    <3>3. Cardinality({}) = 0 /\ Cardinality(Tasks) \in Nat
      BY FS_EmptySet, FS_CardinalityType, CreationAssumption
    <3>4. QED
      BY <3>1, <3>2, <3>3 DEF CustomerInv, CustomersPerRequest
  <2>2. QED
    BY <2>1
<1>2. CustomerInv /\ [Next]_vars => CustomerInv'
  BY NextKeepsCustomers
<1>3. CustomerInv => CustomersPerRequest
  BY DEF CustomerInv
<1>4. QED
  BY <1>1, <1>2, <1>3, PTL DEF Spec

-----------------------------------------------------------------------------
(* Forms and the keys they send *)

Away == {"idle", "reserve", "replay"}

\* A request that has reserved the key of its form and not yet answered.
Holds(t) == task[t].form \in Forms /\ task[t].pc \notin Away

OrderOf(f, n, c) == [number |-> n, form |-> f, content |-> c]

\* A key without an answer belongs to one request and names its content.
KeysAreOwned ==
  /\ \A t \in Tasks : Holds(t) =>
       keys[task[t].form] = [hash |-> task[t].content, answer |-> 0]
  /\ \A t, u \in Tasks : Holds(t) /\ Holds(u) /\ task[t].form = task[u].form => t = u

\* An answer, stored or about to be, is the number of an order of that form and content.
AnswersArePlaced ==
  /\ \A t \in Tasks : task[t].pc = "store" => Placed(t) \in orders
  /\ \A f \in Forms : keys[f] # NoRow /\ keys[f].answer > 0 =>
       OrderOf(f, keys[f].answer, keys[f].hash) \in orders

\* What a form waits for asks for what its fields hold.
FormsWaitForThemselves ==
  /\ \A f \in Forms : waits[f] # Nobody =>
       /\ task[waits[f]].pc # "idle"
       /\ task[waits[f]].form = f /\ task[waits[f]].content = filled[f]
  /\ \A f \in Forms : opened[f] > 0 => waits[f] = Nobody

FormInv ==
  /\ TypeInv
  /\ KeysAreOwned /\ AnswersArePlaced /\ FormsWaitForThemselves
  /\ FormOpensItsOrder

\* createOrderForSupplier between the reservation and the answer.
Works(t) ==
  /\ Others(t)
  /\ UNCHANGED <<keys, filled, waits, opened>>
  /\ orders \subseteq orders'
  /\ task[t].pc \notin Away
  /\ \/ /\ task[t].form = NoForm
        /\ task'[t].pc \notin {"reserve", "replay", "store"}
        /\ task'[t].pc # "idle" => task'[t].form = NoForm
     \/ /\ task[t].form # NoForm
        /\ task'[t].form = task[t].form /\ task'[t].content = task[t].content
        /\ task'[t].pc \notin Away
        /\ task'[t].pc = "store" => Placed(t)' \in orders'

LEMMA WorkKeepsForms ==
  ASSUME FormInv, TypeInv', NEW t \in Tasks, Works(t)
  PROVE  FormInv'
<1>1. task[t].form \in Origins /\ NoForm \notin Forms
  BY BusyIsCalling, CreationAssumption DEF FormInv, TypeInv, Works, Away
<1>2. ASSUME NEW u \in Tasks, Holds(u)'
      PROVE  Holds(u) /\ task'[u].form = task[u].form /\ task'[u].content = task[u].content
  BY <1>1, <1>2 DEF Works, Holds, Away, Others, Origins
<1>3. KeysAreOwned'
  BY <1>2 DEF KeysAreOwned, FormInv, Works
<1>4. AnswersArePlaced'
  <2>1. ASSUME NEW u \in Tasks, task'[u].pc = "store" PROVE Placed(u)' \in orders'
    <3>1. CASE u = t
      BY <2>1, <3>1 DEF Works
    <3>2. CASE u # t
      BY <2>1, <3>2 DEF Works, Others, FormInv, AnswersArePlaced, Placed
    <3>3. QED
      BY <3>1, <3>2
  <2>2. QED
    BY <2>1 DEF AnswersArePlaced, FormInv, Works
<1>5. FormsWaitForThemselves'
  <2>1. ASSUME NEW f \in Forms, waits[f] # Nobody
        PROVE  /\ task'[waits[f]].pc # "idle"
               /\ task'[waits[f]].form = f /\ task'[waits[f]].content = filled[f]
    <3>1. waits[f] \in Tasks
      BY <2>1 DEF FormInv, TypeInv, TypeOK
    <3>2. /\ task[waits[f]].pc # "idle"
          /\ task[waits[f]].form = f /\ task[waits[f]].content = filled[f]
      BY <2>1 DEF FormInv, FormsWaitForThemselves
    <3>3. CASE waits[f] = t
      BY <1>1, <3>2, <3>3 DEF Works, Away
    <3>4. CASE waits[f] # t
      BY <3>1, <3>2, <3>4 DEF Works, Others
    <3>5. QED
      BY <3>3, <3>4
  <2>2. QED
    BY <2>1 DEF FormsWaitForThemselves, FormInv, Works
<1>6. FormOpensItsOrder'
  BY DEF FormInv, FormOpensItsOrder, Works
<1>7. QED
  BY <1>3, <1>4, <1>5, <1>6 DEF FormInv

\* A request ends with the number n, or 0; it may have stored n or freed its key before.
LEMMA AnswerKeepsForms ==
  ASSUME FormInv, TypeInv', NEW t \in Tasks, NEW n \in Nat, Answers(t, n),
         filled' = filled, orders' = orders,
         \A f \in Forms : waits[f] = t /\ n > 0 => OrderOf(f, n, filled[f]) \in orders,
         \A f \in Forms : \/ keys'[f] = keys[f]
                          \/ /\ Holds(t) /\ task[t].form = f
                             /\ keys'[f] # NoRow /\ keys'[f].answer > 0 =>
                                  OrderOf(f, keys'[f].answer, keys'[f].hash) \in orders
  PROVE  FormInv'
<1>1. Others(t) /\ task'[t] = Idle
  BY EndMoves DEF FormInv, TypeInv
<1>2. ASSUME NEW u \in Tasks, Holds(u)'
      PROVE  u # t /\ Holds(u) /\ task'[u] = task[u]
  BY <1>1, <1>2 DEF Holds, Away, Others, Idle
<1>3. KeysAreOwned'
  <2>1. ASSUME NEW u \in Tasks, Holds(u)'
        PROVE  keys'[task'[u].form] = [hash |-> task'[u].content, answer |-> 0]
    <3>1. u # t /\ Holds(u) /\ task'[u] = task[u]
      BY <1>2, <2>1
    <3>2. ~(Holds(t) /\ task[t].form = task[u].form)
      BY <3>1 DEF FormInv, KeysAreOwned
    <3>3. keys'[task[u].form] = keys[task[u].form]
      BY <3>1, <3>2 DEF Holds
    <3>4. QED
      BY <3>1, <3>3 DEF FormInv, KeysAreOwned
  <2>2. ASSUME NEW u \in Tasks, NEW v \in Tasks, Holds(u)', Holds(v)', task'[u].form = task'[v].form
        PROVE  u = v
    BY <1>2, <2>2 DEF FormInv, KeysAreOwned
  <2>3. QED
    BY <2>1, <2>2 DEF KeysAreOwned
<1>4. AnswersArePlaced'
  <2>1. ASSUME NEW u \in Tasks, task'[u].pc = "store" PROVE Placed(u)' \in orders'
    BY <1>1, <2>1 DEF Others, Idle, FormInv, AnswersArePlaced, Placed
  <2>2. ASSUME NEW f \in Forms, keys'[f] # NoRow, keys'[f].answer > 0
        PROVE  OrderOf(f, keys'[f].answer, keys'[f].hash) \in orders
    BY <2>2 DEF FormInv, AnswersArePlaced
  <2>3. QED
    BY <2>1, <2>2 DEF AnswersArePlaced, OrderOf
<1>5. ASSUME NEW f \in Forms
      PROVE  /\ waits[f] = t => waits'[f] = Nobody /\ opened'[f] = n
             /\ waits[f] # t => waits'[f] = waits[f] /\ opened'[f] = opened[f]
  BY DEF Answers
<1>6. FormsWaitForThemselves'
  <2>1. ASSUME NEW f \in Forms, waits'[f] # Nobody
        PROVE  /\ task'[waits'[f]].pc # "idle"
               /\ task'[waits'[f]].form = f /\ task'[waits'[f]].content = filled'[f]
    <3>1. waits'[f] = waits[f] /\ waits[f] # t
      BY <1>5, <2>1
    <3>2. waits[f] \in Tasks
      BY <2>1, <3>1 DEF FormInv, TypeInv, TypeOK
    <3>3. task'[waits[f]] = task[waits[f]]
      BY <1>1, <3>1, <3>2 DEF Others
    <3>4. QED
      BY <2>1, <3>1, <3>3 DEF FormInv, FormsWaitForThemselves
  <2>2. ASSUME NEW f \in Forms, opened'[f] > 0 PROVE waits'[f] = Nobody
    BY <1>5, <2>2 DEF FormInv, FormsWaitForThemselves
  <2>3. QED
    BY <2>1, <2>2 DEF FormsWaitForThemselves
<1>7. FormOpensItsOrder'
  <2>1. ASSUME NEW f \in Forms, opened'[f] > 0
        PROVE  OrderOf(f, opened'[f], filled[f]) \in orders
    BY <1>5, <2>1 DEF FormInv, FormOpensItsOrder, OrderOf
  <2>2. QED
    BY <2>1 DEF FormOpensItsOrder, OrderOf
<1>8. QED
  BY <1>3, <1>4, <1>6, <1>7 DEF FormInv

LEMMA StepsAreWork ==
  ASSUME TypeInv, NEW t \in Tasks,
         \/ Admit(t) \/ FindCustomer(t) \/ CreateCustomer(t) \/ GenerateOrderNumber(t)
         \/ CheckPromo(t) \/ SpendPromo(t) \/ InsertOrder(t)
  PROVE  Works(t)
<1> USE DEF TypeInv
<1>1. CASE Admit(t)
  BY <1>1, AdmitMoves DEF Admit, Works, Away, Refused, Idle
<1>2. CASE FindCustomer(t)
  BY <1>2, FindMoves DEF FindCustomer, Works, Away
<1>3. CASE CreateCustomer(t)
  BY <1>3, CreateMoves DEF CreateCustomer, Works, Away
<1>4. CASE GenerateOrderNumber(t)
  BY <1>4, NumberMoves DEF GenerateOrderNumber, Works, Away
<1>5. CASE CheckPromo(t)
  BY <1>5, CheckPromoMoves DEF CheckPromo, Works, Away, Refused, Idle
<1>6. CASE SpendPromo(t)
  <2>1. /\ Others(t) /\ waits' = waits /\ opened' = opened
        /\ \/ Refused(t)
           \/ /\ task'[t].pc = "insert" /\ task'[t].form = task[t].form
              /\ task'[t].content = task[t].content
    BY <1>6, SpendMoves, Zenon
  <2>2. task[t].pc = "spend" /\ UNCHANGED <<filled, keys, orders>>
    BY <1>6 DEF SpendPromo
  <2>3. QED
    BY <2>1, <2>2 DEF Works, Away, Refused, Idle
<1>7. CASE InsertOrder(t)
  <2>1. task[t].pc = "insert" /\ UNCHANGED <<filled, keys, waits, opened>> /\ Others(t)
    BY <1>7, InsertMoves DEF InsertOrder
  <2>2. CASE Refused(t) /\ (orders' = orders \/ orders' = orders \cup {Placed(t)})
    <3>1. orders \subseteq orders'
      BY <2>2
    <3>2. QED
      BY <2>1, <2>2, <3>1 DEF Works, Away, Refused, Idle
  <2>3. CASE /\ task[t].form # NoForm /\ orders' = orders \cup {Placed(t)}
             /\ task'[t].pc = "store" /\ task'[t].form = task[t].form
             /\ task'[t].content = task[t].content /\ task'[t].number = task[t].number
    <3>1. Placed(t)' = Placed(t)
      BY <2>3 DEF Placed
    <3>2. QED
      BY <2>1, <2>3, <3>1 DEF Works, Away
  <2>4. QED
    BY <1>7, <2>2, <2>3, InsertMoves
<1>8. QED
  BY <1>1, <1>2, <1>3, <1>4, <1>5, <1>6, <1>7

\* A request that keeps its form and content, whose form still waits for it.
LEMMA EveryoneWaits ==
  ASSUME FormInv, NEW t \in Tasks, Others(t), task[t].pc # "idle", task'[t].pc # "idle",
         task'[t].pc # "store",
         task'[t].form = task[t].form, task'[t].content = task[t].content,
         UNCHANGED <<filled, orders, waits, opened>>,
         \A f \in Forms : keys'[f] # keys[f] => ~(keys'[f].answer > 0)
  PROVE  AnswersArePlaced' /\ FormsWaitForThemselves' /\ FormOpensItsOrder'
<1>1. AnswersArePlaced'
  <2>1. ASSUME NEW u \in Tasks, task'[u].pc = "store" PROVE Placed(u)' \in orders'
    BY <2>1 DEF Others, FormInv, AnswersArePlaced, Placed
  <2>2. ASSUME NEW f \in Forms, keys'[f] # NoRow, keys'[f].answer > 0
        PROVE  OrderOf(f, keys'[f].answer, keys'[f].hash) \in orders'
    BY <2>2 DEF FormInv, AnswersArePlaced
  <2>3. QED
    BY <2>1, <2>2 DEF AnswersArePlaced, OrderOf
<1>2. FormsWaitForThemselves'
  <2>1. ASSUME NEW f \in Forms, waits[f] # Nobody
        PROVE  /\ task'[waits[f]].pc # "idle"
               /\ task'[waits[f]].form = f /\ task'[waits[f]].content = filled[f]
    <3>1. waits[f] \in Tasks
      BY <2>1 DEF FormInv, TypeInv, TypeOK
    <3>2. QED
      BY <2>1, <3>1 DEF FormInv, FormsWaitForThemselves, Others
  <2>2. QED
    BY <2>1 DEF FormsWaitForThemselves, FormInv
<1>3. FormOpensItsOrder'
  BY DEF FormInv, FormOpensItsOrder
<1>4. QED
  BY <1>1, <1>2, <1>3

\* The unique key lets one request of a form through: the one that becomes its holder.
LEMMA ReserveKeepsForms ==
  ASSUME FormInv, TypeInv', NEW t \in Tasks, Reserve(t)
  PROVE  FormInv'
<1>1. /\ Others(t) /\ task[t].pc = "reserve" /\ task[t].form \in Forms
      /\ task'[t].form = task[t].form /\ task'[t].content = task[t].content
      /\ task'[t].pc \in {"admit", "replay"}
      /\ UNCHANGED <<filled, orders, waits, opened>>
  BY ReserveMoves DEF Reserve, FormInv, TypeInv, OfForms
<1>2. CASE task'[t].pc = "replay" /\ keys' = keys
  <2>1. \A u \in Tasks : Holds(u)' => Holds(u) /\ task'[u] = task[u]
    BY <1>1, <1>2 DEF Holds, Away, Others
  <2>2. KeysAreOwned'
    BY <1>2, <2>1 DEF KeysAreOwned, FormInv
  <2>3. QED
    BY <1>1, <1>2, <2>2, EveryoneWaits DEF FormInv
<1>3. CASE /\ task'[t].pc = "admit" /\ keys[task[t].form] = NoRow
           /\ keys' = [keys EXCEPT ![task[t].form] = [hash |-> task[t].content, answer |-> 0]]
  <2>1. \A u \in Tasks : Holds(u)' /\ u # t => Holds(u) /\ task'[u] = task[u]
    BY <1>1 DEF Holds, Away, Others
  <2>2. \A u \in Tasks : Holds(u) => task[u].form # task[t].form
    <3>1. ASSUME NEW c PROVE [hash |-> c, answer |-> 0] # NoRow
      <4>1. "answer" \in DOMAIN [hash |-> c, answer |-> 0] /\ "answer" \notin DOMAIN NoRow
        BY DEF NoRow
      <4>2. QED
        BY <4>1
    <3>2. keys[task[t].form] = NoRow
      BY <1>3
    <3>3. QED
      BY <3>1, <3>2 DEF FormInv, KeysAreOwned
  <2>3. \A f \in Forms : keys'[f] = IF f = task[t].form THEN [hash |-> task[t].content, answer |-> 0]
                                    ELSE keys[f]
    BY <1>3 DEF FormInv, TypeInv, TypeOK
  <2>4. KeysAreOwned'
    <3>1. ASSUME NEW u \in Tasks, Holds(u)'
          PROVE  keys'[task'[u].form] = [hash |-> task'[u].content, answer |-> 0]
      <4>1. CASE u = t
        BY <1>1, <2>3, <4>1
      <4>2. CASE u # t
        BY <2>1, <2>2, <2>3, <3>1, <4>2 DEF FormInv, KeysAreOwned, Holds
      <4>3. QED
        BY <4>1, <4>2
    <3>2. ASSUME NEW u \in Tasks, NEW v \in Tasks, Holds(u)', Holds(v)',
                 task'[u].form = task'[v].form
          PROVE  u = v
      BY <1>1, <2>1, <2>2, <3>2 DEF FormInv, KeysAreOwned
    <3>3. QED
      BY <3>1, <3>2 DEF KeysAreOwned
  <2>5. \A f \in Forms : keys'[f] # keys[f] => ~(keys'[f].answer > 0)
    BY <2>3
  <2>6. QED
    BY <1>1, <2>4, <2>5, EveryoneWaits DEF FormInv
<1>4. QED
  BY <1>2, <1>3, ReserveMoves DEF FormInv, TypeInv

LEMMA SubmitKeepsForms ==
  ASSUME FormInv, TypeInv', NEW t \in Tasks, NEW f \in Forms, Submit(f, t)
  PROVE  FormInv'
<1>1. /\ Others(t) /\ task[t] = Idle
      /\ task'[t].pc = "reserve" /\ task'[t].form = f /\ task'[t].content = filled'[f]
      /\ \A g \in Forms \ {f} : filled'[g] = filled[g]
      /\ waits[f] = Nobody /\ opened[f] = 0
      /\ UNCHANGED <<opened, keys, orders>>
  BY SubmitMoves DEF Submit, FormInv
<1>2. waits' = [waits EXCEPT ![f] = t] /\ waits \in [Forms -> Tasks \cup {Nobody}]
  BY DEF Submit, FormInv, TypeInv, TypeOK
<1>3. \A u \in Tasks : Holds(u)' => Holds(u) /\ task'[u] = task[u]
  BY <1>1 DEF Holds, Away, Others
<1>4. KeysAreOwned'
  BY <1>1, <1>3 DEF KeysAreOwned, FormInv
<1>5. AnswersArePlaced'
  <2>1. ASSUME NEW u \in Tasks, task'[u].pc = "store" PROVE Placed(u)' \in orders'
    BY <1>1, <2>1 DEF Others, FormInv, AnswersArePlaced, Placed
  <2>2. QED
    BY <1>1, <2>1 DEF AnswersArePlaced, FormInv
<1>6. FormsWaitForThemselves'
  <2>1. ASSUME NEW g \in Forms, waits'[g] # Nobody
        PROVE  /\ task'[waits'[g]].pc # "idle"
               /\ task'[waits'[g]].form = g /\ task'[waits'[g]].content = filled'[g]
    <3>1. CASE g = f
      BY <1>1, <1>2, <3>1
    <3>2. CASE g # f
      <4>1. waits'[g] = waits[g] /\ waits[g] \in Tasks
        BY <1>2, <2>1, <3>2
      <4>2. task[waits[g]].pc # "idle" /\ waits[g] # t
        BY <1>1, <2>1, <4>1 DEF FormInv, FormsWaitForThemselves, Idle
      <4>3. task'[waits[g]] = task[waits[g]]
        BY <1>1, <4>1, <4>2 DEF Others
      <4>4. QED
        BY <1>1, <2>1, <3>2, <4>1, <4>3 DEF FormInv, FormsWaitForThemselves
    <3>3. QED
      BY <3>1, <3>2
  <2>2. ASSUME NEW g \in Forms, opened'[g] > 0 PROVE waits'[g] = Nobody
    BY <1>1, <1>2, <2>2 DEF FormInv, FormsWaitForThemselves
  <2>3. QED
    BY <2>1, <2>2 DEF FormsWaitForThemselves
<1>7. FormOpensItsOrder'
  BY <1>1 DEF FormInv, FormOpensItsOrder
<1>8. QED
  BY <1>4, <1>5, <1>6, <1>7 DEF FormInv

LEMMA GiveUpKeepsForms ==
  ASSUME FormInv, TypeInv', NEW f \in Forms, GiveUp(f)
  PROVE  FormInv'
<1>1. UNCHANGED <<filled, opened, keys, orders, task>>
  BY DEF GiveUp
<1>2. \A g \in Forms : waits'[g] = waits[g] \/ waits'[g] = Nobody
  BY DEF GiveUp, FormInv, TypeInv, TypeOK
<1>3. KeysAreOwned' /\ AnswersArePlaced' /\ FormOpensItsOrder'
  BY <1>1 DEF FormInv, KeysAreOwned, AnswersArePlaced, FormOpensItsOrder, Holds, Placed
<1>4. FormsWaitForThemselves'
  BY <1>1, <1>2 DEF FormInv, FormsWaitForThemselves
<1>5. QED
  BY <1>3, <1>4 DEF FormInv

LEMMA ImportKeepsForms ==
  ASSUME FormInv, TypeInv', NEW t \in Tasks, Import(t)
  PROVE  FormInv'
<1>1. /\ Others(t) /\ task[t] = Idle /\ task'[t].form = NoForm /\ task'[t].pc = "admit"
      /\ NoForm \notin Forms
      /\ UNCHANGED <<waits, filled, opened, keys, orders>>
  BY ImportMoves, CreationAssumption DEF Import, FormInv
<1>2. \A u \in Tasks : Holds(u)' => Holds(u) /\ task'[u] = task[u]
  BY <1>1 DEF Holds, Others
<1>3. KeysAreOwned'
  BY <1>1, <1>2 DEF KeysAreOwned, FormInv
<1>4. AnswersArePlaced'
  <2>1. ASSUME NEW u \in Tasks, task'[u].pc = "store" PROVE Placed(u)' \in orders'
    BY <1>1, <2>1 DEF Others, FormInv, AnswersArePlaced, Placed
  <2>2. QED
    BY <1>1, <2>1 DEF AnswersArePlaced, FormInv
<1>5. FormsWaitForThemselves'
  <2>1. ASSUME NEW g \in Forms, waits[g] # Nobody
        PROVE  task'[waits[g]] = task[waits[g]]
    <3>1. waits[g] \in Tasks /\ waits[g] # t
      BY <1>1, <2>1 DEF FormInv, FormsWaitForThemselves, TypeInv, TypeOK, Idle
    <3>2. QED
      BY <1>1, <3>1 DEF Others
  <2>2. QED
    BY <1>1, <2>1 DEF FormInv, FormsWaitForThemselves
<1>6. QED
  BY <1>1, <1>3, <1>4, <1>5 DEF FormInv, FormOpensItsOrder

\* The three ways a request of a form is answered: with a stored number, its own, or an error.
LEMMA AnswersKeepForms ==
  ASSUME FormInv, TypeInv', NEW t \in Tasks,
         \/ Replay(t) \/ Store(t) \/ Release(t)
         \/ (Throw(t) \/ Die(t)) /\ Answers(t, 0)
  PROVE  FormInv'
<1>1. ASSUME NEW f \in Forms, waits[f] = t
      PROVE  task[t].form = f /\ task[t].content = filled[f]
  BY <1>1, CreationAssumption DEF FormInv, FormsWaitForThemselves
<1>2. CASE Replay(t)
  <2>1. PICK n \in Nat : n = Stored(t)
    BY <1>2, StoredIsNatural DEF Replay, FormInv
  <2>2. Answers(t, n) /\ UNCHANGED <<filled, keys, orders>>
    BY <1>2, <2>1 DEF Replay
  <2>3. ASSUME NEW f \in Forms, waits[f] = t, n > 0
        PROVE  OrderOf(f, n, filled[f]) \in orders
    <3>1. task[t].form = f /\ task[t].content = filled[f]
      BY <1>1, <2>3
    <3>2. keys[f] # NoRow /\ keys[f].hash = filled[f] /\ keys[f].answer = n
      BY <2>1, <2>3, <3>1 DEF Stored
    <3>3. OrderOf(f, keys[f].answer, keys[f].hash) \in orders
      BY <2>3, <3>2 DEF FormInv, AnswersArePlaced
    <3>4. QED
      BY <3>2, <3>3
  <2>4. QED
    BY <2>2, <2>3, AnswerKeepsForms
<1>3. CASE Store(t)
  <2>1. /\ task[t].pc = "store" /\ task[t].form \in Forms /\ task[t].number \in Nat
        /\ Holds(t) /\ UNCHANGED <<filled, orders>>
        /\ keys' = [keys EXCEPT ![task[t].form].answer = task[t].number]
    BY <1>3, BusyIsCalling DEF Store, FormInv, TypeInv, OfForms, Holds, Away
  <2>2. PICK n \in Nat : n = task[t].number
    BY <2>1
  <2>3. Answers(t, n)
    BY <1>3, <2>2 DEF Store
  <2>4. OrderOf(task[t].form, n, task[t].content) \in orders
    BY <2>1, <2>2 DEF FormInv, AnswersArePlaced, Placed, OrderOf
  <2>5. ASSUME NEW f \in Forms, waits[f] = t, n > 0
        PROVE  OrderOf(f, n, filled[f]) \in orders
    BY <1>1, <2>4, <2>5
  <2>6. keys[task[t].form] = [hash |-> task[t].content, answer |-> 0]
    BY <2>1 DEF FormInv, KeysAreOwned
  <2>7. keys \in [Forms -> {NoRow} \cup KeyRows]
    BY DEF FormInv, TypeInv, TypeOK
  <2>8. [keys[task[t].form] EXCEPT !.answer = n] = [hash |-> task[t].content, answer |-> n]
    BY <2>6
  <2>9. keys' = [keys EXCEPT ![task[t].form] = [hash |-> task[t].content, answer |-> n]]
    BY <2>1, <2>2, <2>8
  <2>10. \A f \in Forms : IF f = task[t].form
                          THEN keys'[f].answer = n /\ keys'[f].hash = task[t].content
                          ELSE keys'[f] = keys[f]
    BY <2>7, <2>9
  <2>11. ASSUME NEW f \in Forms
         PROVE  \/ keys'[f] = keys[f]
                \/ /\ Holds(t) /\ task[t].form = f
                   /\ keys'[f] # NoRow /\ keys'[f].answer > 0 =>
                        OrderOf(f, keys'[f].answer, keys'[f].hash) \in orders
    BY <2>1, <2>4, <2>10
  <2>12. QED
    BY <2>1, <2>3, <2>5, <2>11, AnswerKeepsForms
<1>4. CASE Release(t)
  <2>1. /\ Holds(t) /\ 0 \in Nat /\ ~(0 > 0) /\ Answers(t, 0) /\ UNCHANGED <<filled, orders>>
        /\ keys' = [keys EXCEPT ![task[t].form] = NoRow]
    BY <1>4 DEF Release, FormInv, TypeInv, OfForms, Holds, Away
  <2>2. \A f \in Forms : IF f = task[t].form THEN keys'[f] = NoRow ELSE keys'[f] = keys[f]
    BY <2>1 DEF FormInv, TypeInv, TypeOK
  <2>3. QED
    BY <2>1, <2>2, AnswerKeepsForms
<1>5. CASE (Throw(t) \/ Die(t)) /\ Answers(t, 0)
  <2>1. 0 \in Nat /\ ~(0 > 0) /\ UNCHANGED <<filled, keys, orders>>
    BY <1>5, ThrowOrDie DEF FormInv, TypeInv
  <2>2. QED
    BY <1>5, <2>1, AnswerKeepsForms
<1>6. QED
  BY <1>2, <1>3, <1>4, <1>5

\* createOrderForSupplier throws wherever it stands.
LEMMA ThrowIsWork ==
  ASSUME TypeInv, NEW t \in Tasks, Throw(t) \/ Die(t), Refuse(t),
         task[t].pc \notin {"reserve", "replay", "release"}
  PROVE  Works(t)
<1>1. task[t].pc # "idle" /\ UNCHANGED <<filled, keys, orders>>
  BY ThrowOrDie DEF TypeInv
<1>2. Others(t) /\ Refused(t) /\ UNCHANGED <<waits, opened>>
  BY <1>1, RefuseMoves DEF TypeInv
<1>3. QED
  BY <1>1, <1>2 DEF Works, Away, Refused, Idle

LEMMA NextKeepsForms == ASSUME FormInv, [Next]_vars PROVE FormInv'
<1>1. TypeInv /\ TypeOK /\ TypeInv'
  BY NextKeepsTypes DEF FormInv, TypeInv
<1>2. ASSUME NEW f \in Forms, GiveUp(f) PROVE FormInv'
  BY <1>1, <1>2, GiveUpKeepsForms
<1>3. ASSUME NEW t \in Tasks, NEW f \in Forms, Submit(f, t) PROVE FormInv'
  BY <1>1, <1>3, SubmitKeepsForms
<1>4. ASSUME NEW t \in Tasks, Import(t) PROVE FormInv'
  BY <1>1, <1>4, ImportKeepsForms
<1>5. ASSUME NEW t \in Tasks, Step(t) PROVE FormInv'
  <2>1. CASE Reserve(t)
    BY <1>1, <2>1, ReserveKeepsForms
  <2>2. CASE Replay(t) \/ Store(t) \/ Release(t)
    BY <1>1, <2>2, AnswersKeepForms
  <2>3. CASE \/ Admit(t) \/ FindCustomer(t) \/ CreateCustomer(t) \/ GenerateOrderNumber(t)
             \/ CheckPromo(t) \/ SpendPromo(t) \/ InsertOrder(t)
    BY <1>1, <2>3, StepsAreWork, WorkKeepsForms
  <2>4. QED
    BY <1>5, <2>1, <2>2, <2>3 DEF Step
<1>6. ASSUME NEW t \in Tasks, Throw(t) \/ Die(t) PROVE FormInv'
  <2>1. CASE Answers(t, 0)
    BY <1>1, <1>6, <2>1, AnswersKeepForms
  <2>2. CASE task[t].pc \notin {"reserve", "replay", "release"} /\ Refuse(t)
    BY <1>1, <1>6, <2>2, ThrowIsWork, WorkKeepsForms
  <2>3. QED
    BY <1>1, <1>6, <2>1, <2>2, ThrowOrDie
<1>7. ASSUME NEW c \in Codes, SetPromoCodeActive(c) PROVE FormInv'
  BY <1>1, <1>7 DEF SetPromoCodeActive, FormInv, KeysAreOwned, AnswersArePlaced,
                    FormsWaitForThemselves, FormOpensItsOrder, Holds, Placed
<1>8. CASE UNCHANGED vars
  BY <1>1, <1>8 DEF vars, FormInv, KeysAreOwned, AnswersArePlaced,
                    FormsWaitForThemselves, FormOpensItsOrder, Holds, Placed
<1>9. QED
  BY <1>2, <1>3, <1>4, <1>5, <1>6, <1>7, <1>8 DEF Next

(***************************************************************************)
(* For any number of forms sent again at any time, and of requests that    *)
(* race, throw and die: the order a form is taken to is one it made, with  *)
(* what it last submitted (withIdempotency, idempotency.ts:30-84).         *)
(***************************************************************************)
THEOREM FormsOpenTheirOrders == Spec => []FormOpensItsOrder
<1>1. Init => FormInv
  <2>1. ASSUME Init PROVE FormInv
    <3>1. TypeInv
      BY <2>1, InitIsTyped
    <3>2. /\ \A t \in Tasks : task[t].pc = "idle"
          /\ \A f \in Forms : keys[f] = NoRow /\ waits[f] = Nobody /\ ~(opened[f] > 0)
      BY <2>1 DEF Init, Idle
    <3>3. QED
      BY <3>1, <3>2 DEF FormInv, KeysAreOwned, AnswersArePlaced, FormsWaitForThemselves,
                        FormOpensItsOrder, Holds, Away
  <2>2. QED
    BY <2>1
<1>2. FormInv /\ [Next]_vars => FormInv'
  BY NextKeepsForms
<1>3. FormInv => FormOpensItsOrder
  BY DEF FormInv
<1>4. QED
  BY <1>1, <1>2, <1>3, PTL DEF Spec

-----------------------------------------------------------------------------
(* One order per form, and keys that are not held for ever *)

\* The form of an order keeps its key, and nobody is on the way to a second order for it.
OrdersOfForms ==
  /\ \A f \in Forms \ unstored : \A o, p \in orders : o.form = f /\ p.form = f => o = p
  /\ \A f \in Forms \ unstored : (\E o \in orders : o.form = f) =>
       /\ keys[f] # NoRow
       /\ \A t \in Tasks : Holds(t) /\ task[t].form = f => task[t].pc = "store"

\* HeldKeyHasOwner, in the terms of the other invariants.
KeysHaveHolders ==
  \A f \in Forms \ abandoned : keys[f] # NoRow /\ keys[f].answer = 0 =>
    \E t \in Tasks : Holds(t) /\ task[t].form = f

WatchInv == FormInv /\ NumberInv /\ OrdersOfForms /\ KeysHaveHolders

\* A request still to store its answer, or to go unanswered on record.
StaysOrIsRecorded(u) ==
  Holds(u)' =>
    /\ Holds(u) /\ task'[u].form = task[u].form
    /\ task[u].pc = "store" => task'[u].pc = "store" \/ task[u].form \in unstored'

HoldsOrIsRecorded(u) ==
  Holds(u) => (Holds(u)' /\ task'[u].form = task[u].form) \/ task[u].form \in abandoned'

\* Most steps touch neither the keys nor the orders.
LEMMA KeysUntouched ==
  ASSUME OrdersOfForms, KeysHaveHolders, keys' = keys, orders' = orders,
         unstored \subseteq unstored', abandoned \subseteq abandoned',
         \A u \in Tasks : StaysOrIsRecorded(u) /\ HoldsOrIsRecorded(u)
  PROVE  OrdersOfForms' /\ KeysHaveHolders'
<1>1. ASSUME NEW f \in Forms \ unstored', NEW o \in orders, o.form = f,
             NEW t \in Tasks, Holds(t)', task'[t].form = f
      PROVE  task'[t].pc = "store"
  BY <1>1 DEF StaysOrIsRecorded, OrdersOfForms
<1>2. OrdersOfForms'
  BY <1>1 DEF OrdersOfForms
<1>3. ASSUME NEW f \in Forms \ abandoned', keys[f] # NoRow, keys[f].answer = 0
      PROVE  \E t \in Tasks : Holds(t)' /\ task'[t].form = f
  <2>1. PICK t \in Tasks : Holds(t) /\ task[t].form = f
    BY <1>3 DEF KeysHaveHolders
  <2>2. QED
    BY <2>1 DEF HoldsOrIsRecorded
<1>4. QED
  BY <1>2, <1>3 DEF KeysHaveHolders

LEMMA HeldRow ==
  ASSUME WatchInv, NEW t \in Tasks, Holds(t)
  PROVE  keys[task[t].form] # NoRow
<1>1. keys[task[t].form] = [hash |-> task[t].content, answer |-> 0]
  BY DEF WatchInv, FormInv, KeysAreOwned
<1>2. "answer" \in DOMAIN keys[task[t].form] /\ "answer" \notin DOMAIN NoRow
  BY <1>1 DEF NoRow
<1>3. QED
  BY <1>2

\* The key was free, so the form has no order yet.
LEMMA ReserveKeepsKeys ==
  ASSUME WatchInv, NEW t \in Tasks, Reserve(t), UNCHANGED <<unstored, abandoned>>
  PROVE  OrdersOfForms' /\ KeysHaveHolders'
<1>1. /\ Others(t) /\ task[t].pc = "reserve" /\ task[t].form \in Forms
      /\ task'[t].form = task[t].form /\ orders' = orders
  BY ReserveMoves DEF Reserve, WatchInv, FormInv, TypeInv, OfForms
<1>2. CASE task'[t].pc = "replay" /\ keys' = keys
  <2>1. \A u \in Tasks : StaysOrIsRecorded(u) /\ HoldsOrIsRecorded(u)
    BY <1>1, <1>2 DEF StaysOrIsRecorded, HoldsOrIsRecorded, Holds, Away, Others
  <2>2. QED
    BY <1>1, <1>2, <2>1, KeysUntouched DEF WatchInv
<1>3. CASE /\ task'[t].pc = "admit" /\ keys[task[t].form] = NoRow
           /\ keys' = [keys EXCEPT ![task[t].form] = [hash |-> task[t].content, answer |-> 0]]
  <2>1. \A f \in Forms : f # task[t].form => keys'[f] = keys[f]
    BY <1>3 DEF WatchInv, FormInv, TypeInv, TypeOK
  <2>2. Holds(t)' /\ ~ Holds(t)
    BY <1>1, <1>3 DEF Holds, Away
  <2>3. \A u \in Tasks : u # t => (Holds(u)' <=> Holds(u)) /\ task'[u] = task[u]
    BY <1>1 DEF Holds, Others
  <2>4. OrdersOfForms'
    BY <1>1, <1>3, <2>1, <2>2, <2>3 DEF OrdersOfForms, WatchInv
  <2>5. KeysHaveHolders'
    BY <1>1, <2>1, <2>2, <2>3 DEF KeysHaveHolders, WatchInv
  <2>6. QED
    BY <2>4, <2>5
<1>4. QED
  BY <1>2, <1>3, ReserveMoves DEF WatchInv, FormInv, TypeInv

\* Whoever inserts holds the key alone, and while his form waited for it no order was made.
LEMMA InsertKeepsKeys ==
  ASSUME WatchInv, NEW t \in Tasks, InsertOrder(t), UNCHANGED <<unstored, abandoned>>
  PROVE  OrdersOfForms' /\ KeysHaveHolders'
<1>1. /\ Others(t) /\ task[t].pc = "insert" /\ keys' = keys /\ task[t].form \in Origins
      /\ NoForm \notin Forms
  BY InsertMoves, BusyIsCalling, CreationAssumption
     DEF InsertOrder, WatchInv, FormInv, TypeInv
<1>2. CASE Refused(t) /\ (orders' = orders \/ (task[t].form = NoForm /\ orders' = orders \cup {Placed(t)}))
  <2>1. \A u \in Tasks : StaysOrIsRecorded(u) /\ HoldsOrIsRecorded(u)
    BY <1>1, <1>2 DEF StaysOrIsRecorded, HoldsOrIsRecorded, Holds, Away, Others, Refused, Idle
  <2>2. CASE orders' = orders
    BY <1>1, <2>1, <2>2, KeysUntouched DEF WatchInv
  <2>3. CASE task[t].form = NoForm /\ orders' = orders \cup {Placed(t)}
    <3>1. \A o \in orders' : o.form \in Forms => o \in orders
      BY <1>1, <2>3 DEF Placed
    <3>2. OrdersOfForms'
      BY <1>1, <2>1, <3>1 DEF OrdersOfForms, WatchInv, StaysOrIsRecorded
    <3>3. KeysHaveHolders'
      BY <1>1, <2>1 DEF KeysHaveHolders, WatchInv, HoldsOrIsRecorded
    <3>4. QED
      BY <3>2, <3>3
  <2>4. QED
    BY <1>2, <2>2, <2>3
<1>3. CASE /\ task[t].form # NoForm /\ orders' = orders \cup {Placed(t)}
           /\ task'[t].pc = "store" /\ task'[t].form = task[t].form
  <2>1. task[t].form \in Forms /\ Holds(t) /\ Holds(t)' /\ Placed(t).form = task[t].form
    BY <1>1, <1>3 DEF Origins, Holds, Away, Placed
  <2>2. keys[task[t].form] # NoRow
    BY <2>1, HeldRow
  <2>3. \A u \in Tasks : u # t => (Holds(u)' <=> Holds(u)) /\ task'[u] = task[u]
    BY <1>1 DEF Holds, Others
  <2>4. \A u \in Tasks : Holds(u) /\ task[u].form = task[t].form => u = t
    BY <2>1 DEF WatchInv, FormInv, KeysAreOwned
  <2>5. \A o \in orders : o.form = task[t].form => task[t].form \in unstored
    BY <1>1, <2>1 DEF WatchInv, OrdersOfForms
  <2>6. OrdersOfForms'
    BY <1>1, <1>3, <2>1, <2>2, <2>3, <2>4, <2>5 DEF OrdersOfForms, WatchInv
  <2>7. KeysHaveHolders'
    BY <1>1, <1>3, <2>1, <2>3 DEF KeysHaveHolders, WatchInv
  <2>8. QED
    BY <2>6, <2>7
<1>4. QED
  BY <1>2, <1>3, InsertMoves DEF WatchInv, FormInv, TypeInv

\* An answer is a number, and no number is 0: the key that is left behind is not a held one.
LEMMA StoreKeepsKeys ==
  ASSUME WatchInv, NEW t \in Tasks, Store(t), UNCHANGED <<unstored, abandoned>>
  PROVE  OrdersOfForms' /\ KeysHaveHolders'
<1>1. /\ task[t].pc = "store" /\ task[t].form \in Forms /\ task[t].number \in Nat
      /\ Holds(t) /\ orders' = orders /\ Answers(t, task[t].number)
  BY BusyIsCalling DEF Store, WatchInv, FormInv, TypeInv, OfForms, Holds, Away
<1>2. PICK n \in Nat : n = task[t].number
  BY <1>1
<1>3. Others(t) /\ task'[t] = Idle
  BY <1>1, <1>2, EndMoves DEF WatchInv, FormInv, TypeInv
<1>4. n # 0
  <2>1. Placed(t) \in orders /\ Placed(t).number = n
    BY <1>1, <1>2 DEF WatchInv, FormInv, AnswersArePlaced, Placed
  <2>2. n \in 1 .. Cardinality(orders) /\ Cardinality(orders) \in Nat
    BY <2>1, FS_CardinalityType DEF WatchInv, NumberInv, NumbersAreDense, TypeInv, TypeOK
  <2>3. QED
    BY <2>2
<1>5. keys[task[t].form] = [hash |-> task[t].content, answer |-> 0]
  BY <1>1 DEF WatchInv, FormInv, KeysAreOwned
<1>6. keys' = [keys EXCEPT ![task[t].form] = [hash |-> task[t].content, answer |-> n]]
  <2>1. [keys[task[t].form] EXCEPT !.answer = n] = [hash |-> task[t].content, answer |-> n]
    BY <1>5
  <2>2. QED
    BY <1>2, <2>1 DEF Store
<1>7. \A f \in Forms : IF f = task[t].form
                       THEN keys'[f] = [hash |-> task[t].content, answer |-> n]
                       ELSE keys'[f] = keys[f]
  BY <1>1, <1>6 DEF WatchInv, FormInv, TypeInv, TypeOK
<1>8. keys'[task[t].form] # NoRow /\ keys'[task[t].form].answer # 0
  BY <1>1, <1>4, <1>7 DEF NoRow
<1>9. \A u \in Tasks : Holds(u)' <=> (Holds(u) /\ u # t)
  BY <1>3 DEF Holds, Away, Others, Idle
<1>10. OrdersOfForms'
  BY <1>1, <1>3, <1>7, <1>8, <1>9 DEF OrdersOfForms, WatchInv, Others
<1>11. KeysHaveHolders'
  BY <1>1, <1>3, <1>7, <1>8, <1>9 DEF KeysHaveHolders, WatchInv, Others
<1>12. QED
  BY <1>10, <1>11

\* A key is only deleted by the request that holds it, and before its form has an order.
LEMMA ReleaseKeepsKeys ==
  ASSUME WatchInv, NEW t \in Tasks, Release(t), UNCHANGED <<unstored, abandoned>>
  PROVE  OrdersOfForms' /\ KeysHaveHolders'
<1>1. /\ task[t].pc = "release" /\ task[t].form \in Forms /\ Holds(t) /\ orders' = orders
      /\ Others(t) /\ task'[t] = Idle
  BY EndMoves DEF Release, WatchInv, FormInv, TypeInv, OfForms, Holds, Away
<1>2. \A f \in Forms : IF f = task[t].form THEN keys'[f] = NoRow ELSE keys'[f] = keys[f]
  BY DEF Release, WatchInv, FormInv, TypeInv, TypeOK
<1>3. \A u \in Tasks : Holds(u)' <=> (Holds(u) /\ u # t)
  BY <1>1 DEF Holds, Away, Others, Idle
<1>4. \A o \in orders : o.form = task[t].form => task[t].form \in unstored
  BY <1>1 DEF WatchInv, OrdersOfForms
<1>5. OrdersOfForms'
  BY <1>1, <1>2, <1>3, <1>4 DEF OrdersOfForms, WatchInv, Others
<1>6. KeysHaveHolders'
  BY <1>1, <1>2, <1>3 DEF KeysHaveHolders, WatchInv, Others
<1>7. QED
  BY <1>5, <1>6

\* A fault leaves keys and orders alone; what it breaks is recorded.
LEMMA FaultKeepsKeys ==
  ASSUME WatchInv, NEW t \in Tasks, WatchedThrow(t) \/ WatchedDie(t)
  PROVE  OrdersOfForms' /\ KeysHaveHolders'
<1>1. /\ task[t].pc # "idle" /\ UNCHANGED <<keys, orders>>
      /\ unstored \subseteq unstored' /\ abandoned \subseteq abandoned'
  BY ThrowOrDie DEF WatchedThrow, WatchedDie, WatchInv, FormInv, TypeInv
<1>2. \A u \in Tasks : StaysOrIsRecorded(u) /\ HoldsOrIsRecorded(u)
  <2>1. CASE WatchedDie(t)
    <3>1. Others(t) /\ task'[t] = Idle
      BY <2>1, EndMoves DEF WatchedDie, Die, WatchInv, FormInv, TypeInv
    <3>2. Holds(t) => task[t].form \in abandoned'
      BY <2>1 DEF WatchedDie, Holds, Away
    <3>3. QED
      BY <3>1, <3>2 DEF StaysOrIsRecorded, HoldsOrIsRecorded, Holds, Away, Others, Idle
  <2>2. CASE WatchedThrow(t) /\ task[t].pc \in {"reserve", "replay", "release"}
    <3>1. Others(t) /\ task'[t] = Idle
      BY <2>2, EndMoves DEF WatchedThrow, Throw, WatchInv, FormInv, TypeInv
    <3>2. Holds(t) => task[t].form \in abandoned'
      BY <2>2 DEF WatchedThrow, Holds, Away
    <3>3. QED
      BY <3>1, <3>2 DEF StaysOrIsRecorded, HoldsOrIsRecorded, Holds, Away, Others, Idle
  <2>3. CASE WatchedThrow(t) /\ task[t].pc \notin {"reserve", "replay", "release"}
    <3>1. Others(t) /\ Refused(t)
      BY <1>1, <2>3, RefuseMoves DEF WatchedThrow, Throw, WatchInv, FormInv, TypeInv
    <3>2. task[t].pc = "store" => task[t].form \in unstored'
      BY <2>3 DEF WatchedThrow
    <3>3. NoForm \notin Forms
      BY CreationAssumption
    <3>4. QED
      BY <1>1, <2>3, <3>1, <3>2, <3>3
         DEF StaysOrIsRecorded, HoldsOrIsRecorded, Holds, Away, Others, Idle, Refused
  <2>4. QED
    BY <2>1, <2>2, <2>3
<1>3. QED
  BY <1>1, <1>2, KeysUntouched DEF WatchInv

\* createOrderForSupplier before the insert, and the requests that never get to a key.
LEMMA OtherStepsKeepKeys ==
  ASSUME WatchInv, NEW t \in Tasks, UNCHANGED <<unstored, abandoned>>,
         \/ Replay(t) \/ Admit(t) \/ FindCustomer(t) \/ CreateCustomer(t)
         \/ GenerateOrderNumber(t) \/ CheckPromo(t) \/ SpendPromo(t)
         \/ Import(t) \/ \E f \in Forms : Submit(f, t)
  PROVE  OrdersOfForms' /\ KeysHaveHolders'
<1>1. UNCHANGED <<keys, orders>>
  BY DEF Replay, Admit, FindCustomer, CreateCustomer, GenerateOrderNumber, CheckPromo,
         SpendPromo, Import, Submit
<1>2. TypeInv /\ TypeOK /\ NoForm \notin Forms
  BY CreationAssumption DEF WatchInv, FormInv, TypeInv
<1>3. \A u \in Tasks : StaysOrIsRecorded(u) /\ HoldsOrIsRecorded(u)
  <2>1. CASE Replay(t)
    <3>1. PICK n \in Nat : Answers(t, n)
      BY <1>2, <2>1, StoredIsNatural DEF Replay
    <3>2. task[t].pc = "replay" /\ Others(t) /\ task'[t] = Idle
      BY <1>2, <2>1, <3>1, EndMoves DEF Replay
    <3>3. QED
      BY <3>2 DEF StaysOrIsRecorded, HoldsOrIsRecorded, Holds, Away, Others, Idle
  <2>2. CASE \/ Admit(t) \/ FindCustomer(t) \/ CreateCustomer(t)
             \/ GenerateOrderNumber(t) \/ CheckPromo(t) \/ SpendPromo(t)
    <3>1. Works(t) /\ task[t].pc # "store"
      BY <1>2, <2>2, StepsAreWork
         DEF Admit, FindCustomer, CreateCustomer, GenerateOrderNumber, CheckPromo, SpendPromo
    <3>2. QED
      BY <1>2, <3>1 DEF Works, StaysOrIsRecorded, HoldsOrIsRecorded, Holds, Away, Others
  <2>3. CASE Import(t)
    <3>1. Others(t) /\ task'[t].form = NoForm
      BY <1>2, <2>3, ImportMoves
    <3>2. task[t].pc = "idle"
      BY <2>3 DEF Import, Idle
    <3>3. QED
      BY <1>2, <3>1, <3>2 DEF StaysOrIsRecorded, HoldsOrIsRecorded, Holds, Away, Others
  <2>4. ASSUME NEW f \in Forms, Submit(f, t)
        PROVE  \A u \in Tasks : StaysOrIsRecorded(u) /\ HoldsOrIsRecorded(u)
    <3>1. Others(t) /\ task'[t].pc = "reserve"
      BY <1>2, <2>4, SubmitMoves
    <3>2. task[t].pc = "idle"
      BY <2>4 DEF Submit, Idle
    <3>3. QED
      BY <3>1, <3>2 DEF StaysOrIsRecorded, HoldsOrIsRecorded, Holds, Away, Others
  <2>5. QED
    BY <2>1, <2>2, <2>3, <2>4
<1>4. QED
  BY <1>1, <1>3, KeysUntouched DEF WatchInv

LEMMA NextKeepsKeys == ASSUME WatchInv, [WatchedNext]_watched PROVE WatchInv'
<1>1. [Next]_vars
  BY DEF WatchedNext, WatchedThrow, WatchedDie, Next, watched
<1>2. FormInv' /\ NumberInv'
  BY <1>1, NextKeepsForms, NextKeepsNumbers DEF WatchInv
<1>3. CASE \E t \in Tasks : WatchedThrow(t) \/ WatchedDie(t)
  BY <1>2, <1>3, FaultKeepsKeys DEF WatchInv
<1>4. CASE /\ UNCHANGED <<unstored, abandoned, task, keys, orders>>
  <2>1. \A u \in Tasks : StaysOrIsRecorded(u) /\ HoldsOrIsRecorded(u)
    BY <1>4 DEF StaysOrIsRecorded, HoldsOrIsRecorded, Holds
  <2>2. QED
    BY <1>2, <1>4, <2>1, KeysUntouched DEF WatchInv
<1>5. ASSUME NEW t \in Tasks, Step(t) \/ Import(t) \/ \E f \in Forms : Submit(f, t),
             UNCHANGED <<unstored, abandoned>>
      PROVE  WatchInv'
  <2>1. CASE Reserve(t)
    BY <1>2, <1>5, <2>1, ReserveKeepsKeys DEF WatchInv
  <2>2. CASE InsertOrder(t)
    BY <1>2, <1>5, <2>2, InsertKeepsKeys DEF WatchInv
  <2>3. CASE Store(t)
    BY <1>2, <1>5, <2>3, StoreKeepsKeys DEF WatchInv
  <2>4. CASE Release(t)
    BY <1>2, <1>5, <2>4, ReleaseKeepsKeys DEF WatchInv
  <2>5. CASE \/ Replay(t) \/ Admit(t) \/ FindCustomer(t) \/ CreateCustomer(t)
             \/ GenerateOrderNumber(t) \/ CheckPromo(t) \/ SpendPromo(t)
             \/ Import(t) \/ \E f \in Forms : Submit(f, t)
    BY <1>2, <1>5, <2>5, OtherStepsKeepKeys DEF WatchInv
  <2>6. QED
    BY <1>5, <2>1, <2>2, <2>3, <2>4, <2>5 DEF Step
<1>6. QED
  <2>1. ASSUME \E f \in Forms : GiveUp(f), UNCHANGED <<unstored, abandoned>> PROVE WatchInv'
    BY <1>4, <2>1 DEF GiveUp
  <2>2. ASSUME \E c \in Codes : SetPromoCodeActive(c), UNCHANGED <<unstored, abandoned>>
        PROVE  WatchInv'
    BY <1>4, <2>2 DEF SetPromoCodeActive
  <2>3. CASE UNCHANGED watched
    BY <1>4, <2>3 DEF watched, vars
  <2>4. QED
    BY <1>3, <1>5, <2>1, <2>2, <2>3 DEF WatchedNext

LEMMA WatchInitially == ASSUME WatchedInit PROVE WatchInv
<1>1. TypeInv /\ orders = {} /\ Cardinality({}) = 0
  BY InitIsTyped, FS_EmptySet DEF WatchedInit, Init
<1>2. /\ \A t \in Tasks : task[t].pc = "idle"
      /\ \A f \in Forms : keys[f] = NoRow /\ waits[f] = Nobody /\ ~(opened[f] > 0)
  BY DEF WatchedInit, Init, Idle
<1>3. FormInv
  BY <1>1, <1>2 DEF FormInv, KeysAreOwned, AnswersArePlaced, FormsWaitForThemselves,
                    FormOpensItsOrder, Holds, Away
<1>4. NumberInv
  BY <1>1, <1>2 DEF NumberInv, NumbersAreDense, Drawn
<1>5. OrdersOfForms /\ KeysHaveHolders
  BY <1>1, <1>2 DEF OrdersOfForms, KeysHaveHolders
<1>6. QED
  BY <1>3, <1>4, <1>5 DEF WatchInv

(***************************************************************************)
(* However often a form is sent again, with whatever content, and whatever *)
(* races, throws or dies: one order comes of it (CreateOrderForm.tsx:46),  *)
(* unless the answer to the request that made it could not be stored.      *)
(***************************************************************************)
THEOREM OneOrder == WatchedSpec => []OneOrderPerForm
<1>1. WatchedInit => WatchInv
  BY WatchInitially
<1>2. WatchInv /\ [WatchedNext]_watched => WatchInv'
  BY NextKeepsKeys
<1>3. WatchInv => OneOrderPerForm
  <2>1. ASSUME WatchInv, NEW f \in Forms \ unstored
        PROVE  Cardinality({o \in orders : o.form = f}) <= 1
    <3>1. CASE {o \in orders : o.form = f} = {}
      BY <3>1, FS_EmptySet
    <3>2. CASE {o \in orders : o.form = f} # {}
      <4>1. PICK p \in orders : p.form = f
        BY <3>2
      <4>2. {o \in orders : o.form = f} = {p}
        BY <2>1, <4>1 DEF WatchInv, OrdersOfForms
      <4>3. Cardinality({p}) = 1
        BY FS_Singleton
      <4>4. QED
        BY <4>2, <4>3
    <3>3. QED
      BY <3>1, <3>2
  <2>2. QED
    BY <2>1 DEF OneOrderPerForm
<1>4. QED
  BY <1>1, <1>2, <1>3, PTL DEF WatchedSpec

(***************************************************************************)
(* A form whose key has no answer yet is waiting for a request that still  *)
(* runs, whatever other requests do to other keys (idempotency.ts:60-84),  *)
(* unless the holder died or its delete failed.                            *)
(***************************************************************************)
THEOREM KeysAreNotLost == WatchedSpec => []HeldKeyHasOwner
<1>1. WatchedInit => WatchInv
  BY WatchInitially
<1>2. WatchInv /\ [WatchedNext]_watched => WatchInv'
  BY NextKeepsKeys
<1>3. WatchInv => HeldKeyHasOwner
  BY DEF WatchInv, KeysHaveHolders, HeldKeyHasOwner, Holds, Away, Idle
<1>4. QED
  BY <1>1, <1>2, <1>3, PTL DEF WatchedSpec
=============================================================================
