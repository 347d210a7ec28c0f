------------------------------ MODULE Payments ------------------------------
(***************************************************************************)
(* What an order that has ended does to the books                          *)
(* (src/modules/payments/payments.service.ts and payments.events.ts):      *)
(* processCodCollection when it is delivered, and                          *)
(* compensateDriverForFailedAttempt when it is returned.  Both look for a  *)
(* trace of an earlier call, then write everything in one transaction.     *)
(*                                                                         *)
(* The events come from transitionOrderStatus, whose check and commit are  *)
(* two steps here as in OrderLifecycle.  The orders are those one driver   *)
(* carries (an order on its way always has a driver: Dispatch), and are    *)
(* paid cash on delivery (no code gives an order another method).  Amounts *)
(* are in cents.                                                           *)
(***************************************************************************)
EXTENDS Integers, FiniteSetsExt, OrderStateMachine

CONSTANTS Orders,          \* orders the driver carries, OUT_FOR_DELIVERY at the start
          FreeOrders,      \* those whose deliveryFee is 0
          Tasks,           \* concurrent calls
          Mortal,          \* the tasks that may die, or whose transaction fails
          Targets,         \* the statuses asked for
          Goods,           \* price of the goods of an order
          Fee,             \* deliveryFee of the orders that are not free
          commissionRate,  \* Driver.commissionRate, in percent
          Replays          \* whether an event may be delivered again

ASSUME PaymentsAssumption ==
  /\ IsFiniteSet(Orders)
  /\ FreeOrders \subseteq Orders
  /\ Mortal \subseteq Tasks
  /\ Targets \subseteq OrderStatus
  /\ Goods \in Nat /\ Fee \in Nat /\ commissionRate \in 0 .. 100
  /\ Replays \in BOOLEAN

VARIABLES orderStatus,    \* order -> Order.status
          payments,       \* order -> how many CONFIRMED cash payments it has
          ledger,         \* order -> how many Transaction rows of each sort
          walletBalance,  \* Driver.walletBalance
          task            \* task -> where it stands

vars == <<orderStatus, payments, ledger, walletBalance, task>>

-----------------------------------------------------------------------------
(* Types and amounts *)

\* The rows of an order.  Type DRIVER_PAYOUT is two sorts, which differ by amount:
\* what the driver earned, and what compensates a failed attempt.
Rows == {"COD_COLLECTION", "COMMISSION_DEDUCTION", "earning", "compensation"}

Idle == [pc |-> "idle"]

Calling == [pc : {"move.commit", "cod.check", "cod.write", "comp.check", "comp.write"},
            order : Orders, to : OrderStatus]

TypeOK ==
  /\ orderStatus \in [Orders -> OrderStatus]
  /\ payments \in [Orders -> Nat]
  /\ ledger \in [Orders -> [Rows -> Nat]]
  /\ walletBalance \in Int
  /\ task \in [Tasks -> {Idle} \cup Calling]

Init ==
  /\ orderStatus = [o \in Orders |-> "OUT_FOR_DELIVERY"]
  /\ payments = [o \in Orders |-> 0]
  /\ ledger = [o \in Orders |-> [row \in Rows |-> 0]]
  /\ walletBalance = 0
  /\ task = [t \in Tasks |-> Idle]

deliveryFee(o) == IF o \in FreeOrders THEN 0 ELSE Fee

totalAmount(o) == Goods + deliveryFee(o)

\* round2 of a share of the fee, half a cent going up.
driverEarning(o) == (deliveryFee(o) * commissionRate + 50) \div 100

compensation(o) == (deliveryFee(o) + 1) \div 2

payouts(o) == ledger[o]["earning"] + ledger[o]["compensation"]

\* One more row of each of the given sorts.
PlusOne(rows, sorts) == [row \in Rows |-> IF row \in sorts THEN rows[row] + 1 ELSE rows[row]]

Ends(t) == task' = [task EXCEPT ![t] = Idle]

Goto(t, pc) == task' = [task EXCEPT ![t].pc = pc]

books == <<payments, ledger, walletBalance>>

-----------------------------------------------------------------------------
(***************************************************************************)
(* Faulty variants of the actions below.  No behaviour uses them: each is  *)
(* a slip the properties must notice.                                      *)
(***************************************************************************)

\* The wallet is written back from what was read, here before anything was earned.
CodWriteLost(t) ==
  /\ task[t].pc = "cod.write"
  /\ LET o == task[t].order
     IN  /\ payments' = [payments EXCEPT ![o] = @ + 1]
         /\ ledger' = [ledger EXCEPT ![o] = PlusOne(@, {"COD_COLLECTION", "COMMISSION_DEDUCTION", "earning"})]
         /\ walletBalance' = totalAmount(o) - driverEarning(o)
  /\ Ends(t)
  /\ UNCHANGED orderStatus

\* The payment is created outside the transaction, which then fails.
CodWriteTorn(t) ==
  /\ task[t].pc = "cod.write"
  /\ payments' = [payments EXCEPT ![task[t].order] = @ + 1]
  /\ Ends(t)
  /\ UNCHANGED <<orderStatus, ledger, walletBalance>>

\* No look for an earlier payment.
CodCheckForgotten(t) ==
  /\ task[t].pc = "cod.check"
  /\ Goto(t, "cod.write")
  /\ UNCHANGED <<orderStatus, books>>

\* The balance of a driver may not fall, so the whole transaction is refused.
CodWriteRefused(t) ==
  /\ task[t].pc = "cod.write"
  /\ Ends(t)
  /\ UNCHANGED <<orderStatus, books>>

-----------------------------------------------------------------------------
(* transitionOrderStatus, and the handlers of its events *)

Move(t, o, to) ==
  /\ task[t] = Idle
  /\ canTransition(orderStatus[o], to)
  /\ task' = [task EXCEPT ![t] = [pc |-> "move.commit", order |-> o, to |-> to]]
  /\ UNCHANGED <<orderStatus, books>>

\* ORDER_DELIVERED is handled by processCodCollection,
\* COMPENSATE_DRIVER_FAILED_ATTEMPT by compensateDriverForFailedAttempt.
MoveCommit(t) ==
  /\ task[t].pc = "move.commit"
  /\ orderStatus' = [orderStatus EXCEPT ![task[t].order] = task[t].to]
  /\ \/ task[t].to = "DELIVERED" /\ Goto(t, "cod.check")
     \/ task[t].to = "RETURNED" /\ Goto(t, "comp.check")
     \/ task[t].to \notin {"DELIVERED", "RETURNED"} /\ Ends(t)
  /\ UNCHANGED books

\* An event is delivered again.  Today's bus never does; the handlers promise to
\* stand it, for the queue that is to replace it.
Replay(t, o) ==
  /\ Replays
  /\ task[t] = Idle
  /\ orderStatus[o] \in {"DELIVERED", "RETURNED"}
  /\ task' = [task EXCEPT ![t] =
       [pc |-> IF orderStatus[o] = "DELIVERED" THEN "cod.check" ELSE "comp.check",
        order |-> o, to |-> orderStatus[o]]]
  /\ UNCHANGED <<orderStatus, books>>

CodCheck(t) ==
  /\ task[t].pc = "cod.check"
  /\ IF payments[task[t].order] > 0 THEN Ends(t) ELSE Goto(t, "cod.write")
  /\ UNCHANGED <<orderStatus, books>>

\* One transaction: the payment, three rows, the driver's balance.
CodWrite(t) ==
  /\ task[t].pc = "cod.write"
  /\ LET o == task[t].order
     IN  /\ payments' = [payments EXCEPT ![o] = @ + 1]
         /\ ledger' = [ledger EXCEPT ![o] = PlusOne(@, {"COD_COLLECTION", "COMMISSION_DEDUCTION", "earning"})]
         /\ walletBalance' = walletBalance + (totalAmount(o) - driverEarning(o))
  /\ Ends(t)
  /\ UNCHANGED orderStatus

\* Any DRIVER_PAYOUT of the order will do, and a free order is owed nothing.
CompCheck(t) ==
  /\ task[t].pc = "comp.check"
  /\ IF payouts(task[t].order) > 0 \/ compensation(task[t].order) = 0
     THEN Ends(t)
     ELSE Goto(t, "comp.write")
  /\ UNCHANGED <<orderStatus, books>>

CompWrite(t) ==
  /\ task[t].pc = "comp.write"
  /\ LET o == task[t].order
     IN  /\ ledger' = [ledger EXCEPT ![o] = PlusOne(@, {"compensation"})]
         /\ walletBalance' = walletBalance + compensation(o)
  /\ Ends(t)
  /\ UNCHANGED <<orderStatus, payments>>

\* A transaction is rolled back or the process dies: the bus does not try again.
Fail(t) ==
  /\ t \in Mortal
  /\ task[t] # Idle
  /\ Ends(t)
  /\ UNCHANGED <<orderStatus, books>>

Step(t) == MoveCommit(t) \/ CodCheck(t) \/ CodWrite(t) \/ CompCheck(t) \/ CompWrite(t)

Request(t) ==
  \/ \E o \in Orders, to \in Targets : Move(t, o, to)
  \/ \E o \in Orders : Replay(t, o)

Next == \E t \in Tasks : Request(t) \/ Step(t) \/ Fail(t)

Spec == Init /\ [][Next]_vars

\* A call that has begun runs on: the event loop resumes every settled await.
Fairness == \A t \in Tasks : WF_vars(Step(t))

FairSpec == Spec /\ Fairness

-----------------------------------------------------------------------------
(* Properties *)

\* What the rows of an order add up to, as walletBalance counts them.
Booked(o) ==
    ledger[o]["COD_COLLECTION"] * totalAmount(o) - ledger[o]["earning"] * driverEarning(o)
    + ledger[o]["compensation"] * compensation(o)

(***************************************************************************)
(* Whatever interleaves, dies or is delivered again, the balance of the    *)
(* driver is what the rows of the ledger add up to: no increment is lost   *)
(* and none is made without its rows.                                      *)
(***************************************************************************)
WalletFollowsLedger == walletBalance = MapThenSumSet(Booked, Orders)

(***************************************************************************)
(* Every payment has its three movements, and no movement of a payment is  *)
(* without it: a transaction that fails leaves neither.                    *)
(***************************************************************************)
PaymentsAreBooked ==
  \A o \in Orders : \A row \in {"COD_COLLECTION", "COMMISSION_DEDUCTION", "earning"} :
    ledger[o][row] = payments[o]

(***************************************************************************)
(* payments.service.ts:22-23: an order is never collected twice, even if   *)
(* ORDER_DELIVERED is delivered again.                                     *)
(***************************************************************************)
CollectedOnce == \A o \in Orders : ledger[o]["COD_COLLECTION"] <= 1

(***************************************************************************)
(* payments.service.ts:114-116: an order has one DRIVER_PAYOUT at most.    *)
(***************************************************************************)
PaidOutOnce == \A o \in Orders : payouts(o) <= 1

\* What the rows of an order make the company owe its driver.
Due(o) ==
  ledger[o]["earning"] * driverEarning(o) + ledger[o]["compensation"] * compensation(o)
  - ledger[o]["COD_COLLECTION"] * totalAmount(o)

(***************************************************************************)
(* payments.service.ts:221-223: walletBalance is what the driver is due,   *)
(* the payouts less the cash the driver holds.                             *)
(***************************************************************************)
WalletIsDueToDriver == walletBalance = MapThenSumSet(Due, Orders)
=============================================================================
