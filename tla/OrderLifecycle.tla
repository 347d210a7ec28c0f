--------------------------- MODULE OrderLifecycle ---------------------------
(***************************************************************************)
(* transitionOrderStatus (src/modules/orders/orders.service.ts), the only  *)
(* writer of an order's status, run by several requests at once.           *)
(*                                                                         *)
(* The transaction runs at PostgreSQL's default READ COMMITTED level: it   *)
(* reads the order without a lock, checks the transition, then updates by  *)
(* id alone.  So the read (Begin) and the commit (Commit) are two steps,   *)
(* and another request may commit in between.  After the commit the domain *)
(* events are dispatched one after the other, each awaited (Dispatch).  A  *)
(* request may die at any of its awaits (Fail): its transaction is rolled  *)
(* back, or the events it still had to dispatch are lost, for the bus is   *)
(* in memory and has no retry.                                             *)
(***************************************************************************)
EXTENDS Naturals, OrderStateMachine

CONSTANTS Orders,    \* orders that exist, all created PENDING
          Requests,  \* concurrent calls of transitionOrderStatus
          Mortal,    \* the requests that may die before they end
          Targets    \* the statuses requests ask for

ASSUME OrderLifecycleAssumption ==
  /\ Mortal \subseteq Requests
  /\ Targets \subseteq OrderStatus

VARIABLES status,   \* order -> Order.status
          history,  \* order -> the OrderStatusHistory rows, as a set
          wire,     \* what a handler sent out in the last step, if any
          req       \* request -> where it stands in transitionOrderStatus

vars == <<status, history, wire, req>>

-----------------------------------------------------------------------------
(* Types *)

Log == INSTANCE OrderLog WITH status <- status, history <- history

EventName ==
  {"ORDER_CONFIRMED", "DRIVER_ASSIGNED", "OUT_FOR_DELIVERY", "NOTIFY_CUSTOMER",
   "NOTIFY_SUPPLIER", "ORDER_DELIVERED", "FAILED_DELIVERY", "ORDER_RETURNED",
   "COMPENSATE_DRIVER_FAILED_ATTEMPT", "ORDER_CANCELLED"}

Notifications == {"NOTIFY_CUSTOMER", "NOTIFY_SUPPLIER"}

Message == [order : Orders, event : EventName, status : OrderStatus]

Silence == [event |-> "none"]

Idle == [pc |-> "idle"]

\* Inside the transaction: `read` is the status findUniqueOrThrow returned.
InTransaction == [pc : {"read"}, order : Orders, to : OrderStatus, read : OrderStatus]

\* Committed: `next` events of the transition have been dispatched.
Committed == [pc : {"events"}, order : Orders, to : OrderStatus, next : 0 .. 3]

TypeOK ==
  /\ status \in [Orders -> OrderStatus]
  /\ history \in [Orders -> SUBSET Log!Row]
  /\ wire \in Message \cup {Silence}
  /\ req \in [Requests -> {Idle} \cup InTransaction \cup Committed]

-----------------------------------------------------------------------------
(***************************************************************************)
(* Faulty variants of the actions below.  No behaviour uses them: each is  *)
(* a slip the properties must notice.                                      *)
(***************************************************************************)

\* assertValidTransition forgotten.
BeginUnchecked(r, o, to) ==
  /\ req[r] = Idle
  /\ req' = [req EXCEPT ![r] = [pc |-> "read", order |-> o, to |-> to, read |-> status[o]]]
  /\ wire' = Silence
  /\ UNCHANGED <<status, history>>

\* The row says what the status was at the commit, not what was checked.
CommitFromCurrent(r) ==
  /\ req[r].pc = "read"
  /\ LET o  == req[r].order
         to == req[r].to
     IN  /\ status' = [status EXCEPT ![o] = to]
         /\ history' = [history EXCEPT ![o] = @ \cup {[from |-> status[o], to |-> to]}]
         /\ req' = [req EXCEPT ![r] = [pc |-> "events", order |-> o, to |-> to, next |-> 0]]
  /\ wire' = Silence

\* The events are dispatched although the transaction is rolled back.
CommitRolledBack(r) ==
  /\ req[r].pc = "read"
  /\ req' = [req EXCEPT ![r] = [pc |-> "events", order |-> req[r].order, to |-> req[r].to, next |-> 0]]
  /\ wire' = Silence
  /\ UNCHANGED <<status, history>>

\* Every handler loads the order again.
DispatchReloading(r) ==
  /\ req[r].pc = "events"
  /\ req[r].next < Len(getDomainEventsForTransition(req[r].to))
  /\ wire' = [order  |-> req[r].order,
              event  |-> getDomainEventsForTransition(req[r].to)[req[r].next + 1],
              status |-> status[req[r].order]]
  /\ req' = [req EXCEPT ![r].next = @ + 1]
  /\ UNCHANGED <<status, history>>

-----------------------------------------------------------------------------
(* Behaviour *)

Init ==
  /\ status = [o \in Orders |-> "PENDING"]
  /\ history = [o \in Orders |-> {Log!Created}]
  /\ wire = Silence
  /\ req = [r \in Requests |-> Idle]

\* findUniqueOrThrow, assertValidTransition.  A refused transition throws and
\* leaves no trace.
Begin(r, o, to) ==
  /\ req[r] = Idle
  /\ canTransition(status[o], to)
  /\ req' = [req EXCEPT ![r] = [pc |-> "read", order |-> o, to |-> to, read |-> status[o]]]
  /\ wire' = Silence
  /\ UNCHANGED <<status, history>>

\* order.update by id, orderStatusHistory.create, commit.
Commit(r) ==
  /\ req[r].pc = "read"
  /\ LET o  == req[r].order
         to == req[r].to
     IN  /\ status' = [status EXCEPT ![o] = to]
         /\ history' = [history EXCEPT ![o] = @ \cup {[from |-> req[r].read, to |-> to]}]
         /\ req' = [req EXCEPT ![r] = [pc |-> "events", order |-> o, to |-> to, next |-> 0]]
  /\ wire' = Silence

\* dispatchDomainEvent for the next event.  Webhook handlers tell the status of
\* the order the event carries; notification handlers load the order again.
Dispatch(r) ==
  /\ req[r].pc = "events"
  /\ LET o      == req[r].order
         events == getDomainEventsForTransition(req[r].to)
         n      == req[r].next + 1
     IN  /\ n <= Len(events)
         /\ wire' = [order  |-> o,
                     event  |-> events[n],
                     status |-> IF events[n] \in Notifications THEN status[o] ELSE req[r].to]
         /\ req' = [req EXCEPT ![r].next = n]
  /\ UNCHANGED <<status, history>>

\* Every event has been dispatched: the call returns.
Return(r) ==
  /\ req[r].pc = "events"
  /\ req[r].next >= Len(getDomainEventsForTransition(req[r].to))
  /\ req' = [req EXCEPT ![r] = Idle]
  /\ wire' = Silence
  /\ UNCHANGED <<status, history>>

\* The transaction is rolled back (an error, Prisma's transaction timeout), or
\* the process dies with events still to dispatch.
Fail(r) ==
  /\ r \in Mortal
  /\ req[r] # Idle
  /\ req' = [req EXCEPT ![r] = Idle]
  /\ wire' = Silence
  /\ UNCHANGED <<status, history>>

Step(r) == Commit(r) \/ Dispatch(r) \/ Return(r)

Next ==
  \E r \in Requests :
    \/ \E o \in Orders, to \in Targets : Begin(r, o, to)
    \/ Step(r)
    \/ Fail(r)

Spec == Init /\ [][Next]_vars

\* A call that has begun runs on: the event loop resumes every settled await.
Fairness == \A r \in Requests : WF_vars(Step(r))

FairSpec == Spec /\ Fairness

-----------------------------------------------------------------------------
(* Properties *)

(***************************************************************************)
(* However requests interleave and die, the history is the growing log of  *)
(* OrderLog: no row starts from a status the order never had, no row is    *)
(* lost or rewritten, and status and history change together.              *)
(***************************************************************************)
ImplementsLog == Log!Spec

(***************************************************************************)
(* No milestone is skipped under concurrent, stale or dying requests.      *)
(***************************************************************************)
MilestonesRecorded == Log!MilestonesRecorded

(***************************************************************************)
(* Nothing leaves the platform before the commit it is about: an event is  *)
(* handled only for a transition that is in the history, and the status it *)
(* tells is one the order has been recorded in.                            *)
(***************************************************************************)
RaisedBy(s) == {getDomainEventsForTransition(s)[n] : n \in 1 .. Len(getDomainEventsForTransition(s))}

MessagesFollowCommit ==
  wire # Silence =>
    /\ wire.status \in Log!Recorded(wire.order)
    /\ \E s \in Log!Recorded(wire.order) : wire.event \in RaisedBy(s)

(***************************************************************************)
(* With one request at a time the status moves along the state machine.    *)
(***************************************************************************)
Automaton == INSTANCE OrderAutomaton WITH status <- status

ImplementsAutomaton == Automaton!Spec

(***************************************************************************)
(* With one request at a time a notification tells the status of the       *)
(* transition that raised it, although its handler loads the order again.  *)
(***************************************************************************)
NotificationsTellTransition == wire # Silence => wire.event \in RaisedBy(wire.status)

(***************************************************************************)
(* When no request dies, every committed transition is told to the         *)
(* webhook of the supplier with its own status, even if the order has      *)
(* moved on since.                                                         *)
(***************************************************************************)
EveryTransitionIsTold ==
  \A r \in Requests, o \in Orders, s \in Targets \ {"READY_FOR_PICKUP", "PICKED_UP", "IN_TRANSIT", "RESCHEDULED"} :
    (req[r] = [pc |-> "events", order |-> o, to |-> s, next |-> 0])
      ~> (wire = [order |-> o, event |-> getDomainEventsForTransition(s)[1], status |-> s])

(***************************************************************************)
(* payments.service.ts:115-116 relies on the state machine to exclude that *)
(* an order is both delivered and returned.                                *)
(***************************************************************************)
DeliveredExcludesReturned ==
  \A o \in Orders : ~ {"DELIVERED", "RETURNED"} \subseteq Log!Recorded(o)
=============================================================================
