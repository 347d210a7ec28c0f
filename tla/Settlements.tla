---------------------------- MODULE Settlements ----------------------------
(***************************************************************************)
(* What suppliers are paid (src/modules/settlements/settlements.service.ts)*)
(* and the buttons that ask for it                                         *)
(* (src/components/settlements/SettlementActions.tsx).  The orders of a    *)
(* settlement are read before the transaction that settles them, and the   *)
(* status of a settlement is checked in one statement and written in       *)
(* another.  Amounts are sums over the orders read and are left out.       *)
(***************************************************************************)
EXTENDS Sequences, Requests

CONSTANTS SettlableOrders,  \* orders of the supplier in the period
          MaxSettlements    \* bound: settlements generated in all

VARIABLES confirmedOrders,  \* the orders DELIVERED whose payment is CONFIRMED
          settlements,      \* the Settlement rows, by id: their status
          payouts,          \* the SUPPLIER_PAYOUT rows
          clerk             \* task -> where the request stands

settlementVars == <<confirmedOrders, settlements, payouts, clerk>>

SettlementStatus == {"DRAFT", "PENDING_PAYMENT", "PAID", "DISPUTED"}

SETTLEMENT_TRANSITIONS ==
  [DRAFT           |-> {"PENDING_PAYMENT", "DISPUTED"},
   PENDING_PAYMENT |-> {"PAID", "DISPUTED"},
   PAID            |-> {},
   DISPUTED        |-> {"PENDING_PAYMENT"}]

\* The buttons an operator sees for the status on his screen.
SettlementButtons ==
  [DRAFT           |-> {"PENDING_PAYMENT", "DISPUTED"},
   PENDING_PAYMENT |-> {"PAID", "DISPUTED"},
   PAID            |-> {},
   DISPUTED        |-> {}]

Payouts == [order : SettlableOrders, settlement : Nat, status : {"PENDING", "CONFIRMED"}]

ClerkCalls == [pc : {"settle"}, orders : SUBSET SettlableOrders]
              \cup [pc : {"check", "write"}, settlement : Nat, to : SettlementStatus]

SettlementTypeOK ==
  /\ confirmedOrders \subseteq SettlableOrders
  /\ settlements \in UNION {[1 .. n -> SettlementStatus] : n \in 0 .. MaxSettlements}
  /\ payouts \subseteq Payouts
  /\ clerk \in [Tasks -> {Idle} \cup ClerkCalls]

SettlementInit ==
  /\ confirmedOrders = {}
  /\ settlements = <<>>
  /\ payouts = {}
  /\ clerk = [t \in Tasks |-> Idle]

\* An order is delivered and its cash collected (module Payments).
ConfirmOrder(o) ==
  /\ o \notin confirmedOrders
  /\ confirmedOrders' = confirmedOrders \cup {o}
  /\ UNCHANGED <<settlements, payouts, clerk>>

-----------------------------------------------------------------------------
(* generateSettlement *)

\* Faulty variant: orders that have a payout are settled again.
PaidOutNever(o) == FALSE

PaidOut(o) == \E row \in payouts : row.order = o

Settlable == {o \in confirmedOrders : ~PaidOut(o)}

\* No order to settle is a 404.
ReadSettlable(t) ==
  /\ clerk[t] = Idle
  /\ Settlable # {}
  /\ clerk' = [clerk EXCEPT ![t] = [pc |-> "settle", orders |-> Settlable]]
  /\ UNCHANGED <<confirmedOrders, settlements, payouts>>

CreateSettlement(t) ==
  /\ clerk[t].pc = "settle" /\ Len(settlements) < MaxSettlements
  /\ settlements' = Append(settlements, "DRAFT")
  /\ payouts' = payouts \cup
       {[order |-> o, settlement |-> Len(settlements'), status |-> "PENDING"] : o \in clerk[t].orders}
  /\ clerk' = Ends(clerk, t)
  /\ UNCHANGED confirmedOrders

-----------------------------------------------------------------------------
(* submitSettlementForPayment, confirmSettlementPaid, disputeSettlement *)

\* A button of a screen that may be out of date: it shows a status the settlement has or
\* had, so any button may come.
PressSettlementButton(t, s) ==
  /\ clerk[t] = Idle
  /\ \E shown \in SettlementStatus : \E to \in SettlementButtons[shown] :
       clerk' = [clerk EXCEPT ![t] = [pc |-> "check", settlement |-> s, to |-> to]]
  /\ UNCHANGED <<confirmedOrders, settlements, payouts>>

AssertSettlementTransition(t) ==
  /\ clerk[t].pc = "check"
  /\ clerk' = IF clerk[t].to \in SETTLEMENT_TRANSITIONS[settlements[clerk[t].settlement]]
              THEN Goto(clerk, t, "write") ELSE Ends(clerk, t)
  /\ UNCHANGED <<confirmedOrders, settlements, payouts>>

Confirmed(row) == [row EXCEPT !.status = "CONFIRMED"]

\* Faulty variant: the rows of a paid settlement stay PENDING.
RowsUntouched(s, to) == payouts

\* Paying confirms the PENDING rows of the settlement in the same transaction.
RowsAfter(s, to) ==
  IF to = "PAID" THEN {IF row.settlement = s THEN Confirmed(row) ELSE row : row \in payouts}
  ELSE payouts

WriteSettlement(t) ==
  /\ clerk[t].pc = "write"
  /\ settlements' = [settlements EXCEPT ![clerk[t].settlement] = clerk[t].to]
  /\ payouts' = RowsAfter(clerk[t].settlement, clerk[t].to)
  /\ clerk' = Ends(clerk, t)
  /\ UNCHANGED confirmedOrders

ClerkFails(t) ==
  /\ clerk[t] # Idle
  /\ clerk' = Ends(clerk, t)
  /\ UNCHANGED <<confirmedOrders, settlements, payouts>>

-----------------------------------------------------------------------------
(* The whole *)

SettlementNext ==
  \/ \E o \in SettlableOrders : ConfirmOrder(o)
  \/ \E t \in Tasks :
       \/ ReadSettlable(t) \/ CreateSettlement(t)
       \/ \E s \in DOMAIN settlements : PressSettlementButton(t, s)
       \/ AssertSettlementTransition(t) \/ WriteSettlement(t) \/ ClerkFails(t)

SettlementSpec == SettlementInit /\ [][SettlementNext]_settlementVars

Settling(o) == {t \in At(clerk, "settle") : o \in clerk[t].orders}

(***************************************************************************)
(* An order is paid out at most once per request that ran at once: two     *)
(* settlements generated together may both hold it, one generated after    *)
(* another never does.                                                     *)
(***************************************************************************)
PayoutsPerRequest ==
  \A o \in SettlableOrders :
    Cardinality({row \in payouts : row.order = o}) + Cardinality(Settling(o)) <= Cardinality(Tasks)

(***************************************************************************)
(* Whatever submits, disputes and confirmations race: when a settlement    *)
(* reads PAID, every payout it holds is confirmed, and no payout is        *)
(* without a settlement.                                                   *)
(***************************************************************************)
PaidIsConfirmed ==
  \A row \in payouts :
    /\ row.settlement \in DOMAIN settlements
    /\ settlements[row.settlement] = "PAID" => row.status = "CONFIRMED"
=============================================================================
