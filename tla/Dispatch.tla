------------------------------ MODULE Dispatch ------------------------------
(***************************************************************************)
(* Who carries which order, and which drivers are free:                    *)
(*   - assignDriverToOrder and releaseDriverIfIdle                         *)
(*     (src/modules/dispatch/dispatch.service.ts),                         *)
(*   - the handler that releases the driver of an order that has ended     *)
(*     (src/modules/dispatch/dispatch.events.ts),                          *)
(*   - setDriverAvailability (src/modules/drivers/drivers.service.ts),     *)
(*   - the other moves of an order: transitionOrderStatus called by the    *)
(*     status route and by the deliveries module.                          *)
(*                                                                         *)
(* Each is an async function whose awaits let other requests run; a task   *)
(* is one such call, and a step of a task runs from one await to the next. *)
(* The driver's status, the delivery and the order's status live in three  *)
(* tables that are read and written by separate statements: only the       *)
(* upsert of the delivery and BUSY are one transaction.                    *)
(***************************************************************************)
EXTENDS Naturals, FiniteSets, OrderStateMachine

CONSTANTS Orders,    \* orders, all READY_FOR_PICKUP at the start
          Drivers,   \* approved drivers, all OFFLINE at the start
          Tasks,     \* concurrent calls
          Mortal,    \* the tasks whose process may die, or statement fail
          Targets,   \* statuses asked for by the status and delivery routes
          NoDriver,  \* Order.delivery is absent
          MAX_CONCURRENT_DELIVERIES

ASSUME DispatchAssumption ==
  /\ NoDriver \notin Drivers
  /\ Mortal \subseteq Tasks
  /\ Targets \subseteq OrderStatus \ {"ASSIGNED"}
  /\ MAX_CONCURRENT_DELIVERIES \in Nat \ {0}
  /\ IsFiniteSet(Orders)

VARIABLES orderStatus,     \* order -> Order.status
          deliveryDriver,  \* order -> Delivery.driverId
          driverStatus,    \* driver -> Driver.status
          task             \* task -> where it stands

vars == <<orderStatus, deliveryDriver, driverStatus, task>>

-----------------------------------------------------------------------------
(* Types *)

DriverStatus == {"OFFLINE", "AVAILABLE", "BUSY"}

Idle == [pc |-> "idle"]

Assigning == [pc : {"assign.driver", "assign.count", "assign.place", "assign.read", "assign.commit"},
              order : Orders, driver : Drivers]

Moving == [pc : {"move.commit", "release.delivery"}, order : Orders, to : OrderStatus]

Releasing == [pc : {"release.driver", "release.count", "release.free"}, driver : Drivers]

Switching == [pc : {"switch.write"}, driver : Drivers, to : {"AVAILABLE", "OFFLINE"}]

TypeOK ==
  /\ orderStatus \in [Orders -> OrderStatus]
  /\ deliveryDriver \in [Orders -> Drivers \cup {NoDriver}]
  /\ driverStatus \in [Drivers -> DriverStatus]
  /\ task \in [Tasks -> {Idle} \cup Assigning \cup Moving \cup Releasing \cup Switching]

Init ==
  /\ orderStatus = [o \in Orders |-> "READY_FOR_PICKUP"]
  /\ deliveryDriver = [o \in Orders |-> NoDriver]
  /\ driverStatus = [d \in Drivers |-> "OFFLINE"]
  /\ task = [t \in Tasks |-> Idle]

\* The deliveries a driver carries: the query behind activeLoad and remainingLoad.
Carried(d) ==
  {o \in Orders : deliveryDriver[o] = d /\ orderStatus[o] \notin TERMINAL_STATUSES}

activeLoad(d) == Cardinality(Carried(d))

Ends(t) == task' = [task EXCEPT ![t] = Idle]

Goto(t, pc) == task' = [task EXCEPT ![t].pc = pc]

tables == <<orderStatus, deliveryDriver, driverStatus>>

-----------------------------------------------------------------------------
(***************************************************************************)
(* Faulty variants of the actions below.  No behaviour uses them: each is  *)
(* a slip the properties must notice.                                      *)
(***************************************************************************)

\* loadOrderForDispatch does not look at the status.
AssignAnyOrder(t, o, d) ==
  /\ task[t] = Idle
  /\ task' = [task EXCEPT ![t] = [pc |-> "assign.driver", order |-> o, driver |-> d]]
  /\ UNCHANGED tables

\* One delivery too many is let through.
AssignCountOffByOne(t) ==
  /\ task[t].pc = "assign.count"
  /\ IF activeLoad(task[t].driver) > MAX_CONCURRENT_DELIVERIES
     THEN Ends(t)
     ELSE Goto(t, "assign.place")
  /\ UNCHANGED tables

\* The driver is refused, and the order is moved to ASSIGNED all the same.
AssignIneligibleIgnored(t) ==
  /\ task[t].pc = "assign.place"
  /\ Goto(t, "assign.read")
  /\ UNCHANGED tables

\* Only a delivered order releases its driver.
MoveCommitDeliveredOnly(t) ==
  /\ task[t].pc = "move.commit"
  /\ orderStatus' = [orderStatus EXCEPT ![task[t].order] = task[t].to]
  /\ IF task[t].to = "DELIVERED" THEN Goto(t, "release.delivery") ELSE Ends(t)
  /\ UNCHANGED <<deliveryDriver, driverStatus>>

\* A released driver is sent home.
ReleaseToOffline(t) ==
  /\ task[t].pc = "release.free"
  /\ driverStatus' = [driverStatus EXCEPT ![task[t].driver] = "OFFLINE"]
  /\ Ends(t)
  /\ UNCHANGED <<orderStatus, deliveryDriver>>

\* A BUSY driver may switch.
SwitchWhileBusy(t, d, to) ==
  /\ task[t] = Idle
  /\ task' = [task EXCEPT ![t] = [pc |-> "switch.write", driver |-> d, to |-> to]]
  /\ UNCHANGED tables

-----------------------------------------------------------------------------
(* assignDriverToOrder *)

\* loadOrderForDispatch refuses an order that is not READY_FOR_PICKUP.
Assign(t, o, d) ==
  /\ task[t] = Idle
  /\ orderStatus[o] = "READY_FOR_PICKUP"
  /\ task' = [task EXCEPT ![t] = [pc |-> "assign.driver", order |-> o, driver |-> d]]
  /\ UNCHANGED tables

\* The capacity is only looked at when the driver is read as BUSY.
AssignReadDriver(t) ==
  /\ task[t].pc = "assign.driver"
  /\ LET status == driverStatus[task[t].driver]
     IN  \/ status = "AVAILABLE" /\ Goto(t, "assign.place")
         \/ status = "BUSY" /\ Goto(t, "assign.count")
         \/ status \notin {"AVAILABLE", "BUSY"} /\ Ends(t)
  /\ UNCHANGED tables

AssignCount(t) ==
  /\ task[t].pc = "assign.count"
  /\ IF activeLoad(task[t].driver) >= MAX_CONCURRENT_DELIVERIES
     THEN Ends(t)
     ELSE Goto(t, "assign.place")
  /\ UNCHANGED tables

\* getIneligibleOwnerIds finds that the driver's documents are not in order.
AssignIneligible(t) ==
  /\ task[t].pc = "assign.place"
  /\ Ends(t)
  /\ UNCHANGED tables

\* One transaction: delivery.upsert and driver.update to BUSY.
AssignPlace(t) ==
  /\ task[t].pc = "assign.place"
  /\ deliveryDriver' = [deliveryDriver EXCEPT ![task[t].order] = task[t].driver]
  /\ driverStatus' = [driverStatus EXCEPT ![task[t].driver] = "BUSY"]
  /\ Goto(t, "assign.read")
  /\ UNCHANGED orderStatus

\* transitionOrderStatus(orderId, 'ASSIGNED'): a refusal undoes nothing above.
AssignCheck(t) ==
  /\ task[t].pc = "assign.read"
  /\ IF canTransition(orderStatus[task[t].order], "ASSIGNED")
     THEN Goto(t, "assign.commit")
     ELSE Ends(t)
  /\ UNCHANGED tables

AssignCommit(t) ==
  /\ task[t].pc = "assign.commit"
  /\ orderStatus' = [orderStatus EXCEPT ![task[t].order] = "ASSIGNED"]
  /\ Ends(t)
  /\ UNCHANGED <<deliveryDriver, driverStatus>>

AssignStep(t) ==
  \/ AssignReadDriver(t) \/ AssignCount(t) \/ AssignIneligible(t)
  \/ AssignPlace(t) \/ AssignCheck(t) \/ AssignCommit(t)

-----------------------------------------------------------------------------
(* The other transitions, and the release of the driver when one ends *)

\* The routes of the deliveries module want a delivery (getDeliveryForOrder);
\* an order can be cancelled without one.
Move(t, o, to) ==
  /\ task[t] = Idle
  /\ to = "CANCELLED" \/ deliveryDriver[o] # NoDriver
  /\ canTransition(orderStatus[o], to)
  /\ task' = [task EXCEPT ![t] = [pc |-> "move.commit", order |-> o, to |-> to]]
  /\ UNCHANGED tables

MoveCommit(t) ==
  /\ task[t].pc = "move.commit"
  /\ orderStatus' = [orderStatus EXCEPT ![task[t].order] = task[t].to]
  /\ IF task[t].to \in TERMINAL_STATUSES THEN Goto(t, "release.delivery") ELSE Ends(t)
  /\ UNCHANGED <<deliveryDriver, driverStatus>>

\* releaseDriverForOrder: ORDER_DELIVERED, ORDER_RETURNED or ORDER_CANCELLED.
ReleaseReadDelivery(t) ==
  /\ task[t].pc = "release.delivery"
  /\ LET d == deliveryDriver[task[t].order]
     IN  IF d = NoDriver
         THEN Ends(t)
         ELSE task' = [task EXCEPT ![t] = [pc |-> "release.driver", driver |-> d]]
  /\ UNCHANGED tables

ReleaseReadDriver(t) ==
  /\ task[t].pc = "release.driver"
  /\ IF driverStatus[task[t].driver] = "BUSY" THEN Goto(t, "release.count") ELSE Ends(t)
  /\ UNCHANGED tables

ReleaseCount(t) ==
  /\ task[t].pc = "release.count"
  /\ IF activeLoad(task[t].driver) = 0 THEN Goto(t, "release.free") ELSE Ends(t)
  /\ UNCHANGED tables

ReleaseFree(t) ==
  /\ task[t].pc = "release.free"
  /\ driverStatus' = [driverStatus EXCEPT ![task[t].driver] = "AVAILABLE"]
  /\ Ends(t)
  /\ UNCHANGED <<orderStatus, deliveryDriver>>

MoveStep(t) ==
  \/ MoveCommit(t) \/ ReleaseReadDelivery(t) \/ ReleaseReadDriver(t)
  \/ ReleaseCount(t) \/ ReleaseFree(t)

-----------------------------------------------------------------------------
(* setDriverAvailability *)

Switch(t, d, to) ==
  /\ task[t] = Idle
  /\ driverStatus[d] # "BUSY"
  /\ task' = [task EXCEPT ![t] = [pc |-> "switch.write", driver |-> d, to |-> to]]
  /\ UNCHANGED tables

SwitchWrite(t) ==
  /\ task[t].pc = "switch.write"
  /\ driverStatus' = [driverStatus EXCEPT ![task[t].driver] = task[t].to]
  /\ Ends(t)
  /\ UNCHANGED <<orderStatus, deliveryDriver>>

-----------------------------------------------------------------------------
\* A statement fails or the process dies: what is committed stays, the rest of
\* the call, the release of the driver included, never happens.
Fail(t) ==
  /\ t \in Mortal
  /\ task[t] # Idle
  /\ Ends(t)
  /\ UNCHANGED tables

Step(t) == AssignStep(t) \/ MoveStep(t) \/ SwitchWrite(t)

Request(t) ==
  \/ \E o \in Orders, d \in Drivers : Assign(t, o, d)
  \/ \E o \in Orders, to \in Targets : Move(t, o, to)
  \/ \E d \in Drivers, to \in {"AVAILABLE", "OFFLINE"} : Switch(t, d, to)

Next == \E t \in Tasks : Request(t) \/ Step(t) \/ Fail(t)

Spec == Init /\ [][Next]_vars

-----------------------------------------------------------------------------
(* Properties *)

(***************************************************************************)
(* However calls interleave and die, an order past READY_FOR_PICKUP that   *)
(* was not cancelled has a delivery with a driver: the delivery is placed  *)
(* before the status says so, and nothing takes it away.                   *)
(***************************************************************************)
OnTheWayHasDriver ==
  \A o \in Orders :
    orderStatus[o] \notin {"READY_FOR_PICKUP", "CANCELLED"} => deliveryDriver[o] # NoDriver

(***************************************************************************)
(* dispatch.service.ts:35-41: no driver carries more than                  *)
(* MAX_CONCURRENT_DELIVERIES active deliveries.                            *)
(***************************************************************************)
CapacityRespected == \A d \in Drivers : activeLoad(d) <= MAX_CONCURRENT_DELIVERIES

(***************************************************************************)
(* dispatch.service.ts:269-272: a driver who is not BUSY has no active     *)
(* delivery left, so the capacity need not be counted for an AVAILABLE one *)
(* and an OFFLINE one leaves nobody waiting.                               *)
(***************************************************************************)
OnlyBusyDriversCarry == \A d \in Drivers : driverStatus[d] # "BUSY" => activeLoad(d) = 0

(***************************************************************************)
(* dispatch.service.ts:133-139 lets an order be dispatched only while it   *)
(* is READY_FOR_PICKUP: with one call at a time, even if it dies, the      *)
(* delivery of an order that has left that status keeps its driver.        *)
(***************************************************************************)
DriverKeepsOrder ==
  [][\A o \in Orders :
       orderStatus[o] # "READY_FOR_PICKUP" => deliveryDriver'[o] = deliveryDriver[o]]_vars

\* t will look whether d may be released.
AboutToRelease(t, d) ==
  \/ task[t].pc = "release.delivery" /\ deliveryDriver[task[t].order] = d
  \/ task[t].pc \in {"release.driver", "release.count", "release.free"} /\ task[t].driver = d

(***************************************************************************)
(* dispatch.events.ts:5-8: a BUSY driver without an active delivery is     *)
(* about to be released by a call that has not ended yet.                  *)
(***************************************************************************)
NoDriverStranded ==
  \A d \in Drivers :
    driverStatus[d] = "BUSY" /\ activeLoad(d) = 0 => \E t \in Tasks : AboutToRelease(t, d)
=============================================================================
