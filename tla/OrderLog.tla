------------------------------ MODULE OrderLog ------------------------------
(***************************************************************************)
(* What transitionOrderStatus (src/modules/orders/orders.service.ts) keeps *)
(* to whatever runs at the same time: the status history of an order only  *)
(* grows, each new row starts at a status the order was already recorded   *)
(* in and follows an edge of ORDER_TRANSITIONS, and the order takes the    *)
(* status of the new row.  The row need not start at the CURRENT status:   *)
(* that is what OrderAutomaton adds.                                       *)
(***************************************************************************)
EXTENDS OrderStateMachine

CONSTANT Orders

VARIABLES status, history

logVars == <<status, history>>

None == "NONE"  \* fromStatus of the row that creates the order

Row == [from : OrderStatus \cup {None}, to : OrderStatus]

Created == [from |-> None, to |-> "PENDING"]

\* The statuses order o has been recorded in.
Recorded(o) == {row.to : row \in history[o]}

TypeOK ==
  /\ status \in [Orders -> OrderStatus]
  /\ history \in [Orders -> SUBSET Row]

Init ==
  /\ status = [o \in Orders |-> "PENDING"]
  /\ history = [o \in Orders |-> {Created}]

Record(o, from, to) ==
  /\ from \in Recorded(o)
  /\ canTransition(from, to)
  /\ history' = [history EXCEPT ![o] = @ \cup {[from |-> from, to |-> to]}]
  /\ status' = [status EXCEPT ![o] = to]

Next == \E o \in Orders, from, to \in OrderStatus : Record(o, from, to)

Spec == Init /\ [][Next]_logVars

-----------------------------------------------------------------------------
(***************************************************************************)
(* The status an order must have gone through before it can be in s: the   *)
(* last one that every path from PENDING to s shares.                      *)
(***************************************************************************)
Milestone ==
  [s \in OrderStatus |->
     CASE s \in {"PENDING", "CONFIRMED", "CANCELLED"} -> "PENDING"
       [] s = "READY_FOR_PICKUP" -> "CONFIRMED"
       [] s = "ASSIGNED"         -> "READY_FOR_PICKUP"
       [] s = "PICKED_UP"        -> "ASSIGNED"
       [] s = "IN_TRANSIT"       -> "PICKED_UP"
       [] s = "OUT_FOR_DELIVERY" -> "IN_TRANSIT"
       [] OTHER                  -> "OUT_FOR_DELIVERY"]

(***************************************************************************)
(* No milestone is ever skipped: an order recorded in a status has a row   *)
(* for every status it had to go through first (no DELIVERED order that    *)
(* was never ASSIGNED, no RETURNED one that never went OUT_FOR_DELIVERY),  *)
(* although each transition is checked against a status that may be stale. *)
(***************************************************************************)
MilestonesRecorded ==
  \A o \in Orders :
    /\ status[o] \in Recorded(o)
    /\ \A s \in Recorded(o) : Milestone[s] \in Recorded(o)
=============================================================================
