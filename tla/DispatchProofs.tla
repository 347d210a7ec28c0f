--------------------------- MODULE DispatchProofs ---------------------------
(***************************************************************************)
(* Theorems about Dispatch: an order on its way has a driver, whatever     *)
(* runs at once (OnTheWay); with one call at a time, even if it dies       *)
(* half-way, no driver carries too much (SerialCapacity), only BUSY        *)
(* drivers carry anything (SerialOnlyBusyCarry) and an order under way     *)
(* keeps its driver (SerialKeepsOrder); and until one dies no driver is    *)
(* left BUSY with nothing to carry (SerialStranded).                       *)
(***************************************************************************)
EXTENDS DispatchWatched, FiniteSetTheorems, TLAPS

LEMMA TransitionsWithinStatuses ==
  ASSUME NEW from \in OrderStatus, NEW to, canTransition(from, to)
  PROVE  to \in OrderStatus /\ from \notin TERMINAL_STATUSES
BY DEF canTransition, ORDER_TRANSITIONS, OrderStatus, FAILURE_STATUSES, TERMINAL_STATUSES

-----------------------------------------------------------------------------
(* Types *)

LEMMA TypeStep ==
  ASSUME TypeOK, [Next]_vars
  PROVE  TypeOK'
<1> USE DispatchAssumption DEF TypeOK, tables, Ends
<1>1. ASSUME NEW t \in Tasks, NEW o \in Orders, NEW d \in Drivers, Assign(t, o, d)
      PROVE  TypeOK'
  BY <1>1 DEF Assign, Assigning
<1>2. ASSUME NEW t \in Tasks, NEW o \in Orders, NEW to \in Targets, Move(t, o, to)
      PROVE  TypeOK'
  BY <1>2 DEF Move, Moving
<1>3. ASSUME NEW t \in Tasks, NEW d \in Drivers, NEW to \in {"AVAILABLE", "OFFLINE"}, Switch(t, d, to)
      PROVE  TypeOK'
  BY <1>3 DEF Switch, Switching
<1>4. ASSUME NEW t \in Tasks, AssignStep(t)
      PROVE  TypeOK'
  <2>1. task[t] \in Assigning
    BY <1>4 DEF AssignStep, AssignReadDriver, AssignCount, AssignIneligible, AssignPlace,
                AssignCheck, AssignCommit, Idle, Moving, Releasing, Switching
  <2>2. \A pc : Goto(t, pc) => task' = [task EXCEPT ![t] = [task[t] EXCEPT !.pc = pc]]
    BY DEF Goto
  <2>3. \A pc \in {"assign.count", "assign.place", "assign.read", "assign.commit"} :
          [task[t] EXCEPT !.pc = pc] \in Assigning
    BY <2>1 DEF Assigning
  <2>4. task' \in [Tasks -> {Idle} \cup Assigning \cup Moving \cup Releasing \cup Switching]
    <3>1. CASE Ends(t)
      BY <3>1
    <3>2. CASE \E pc \in {"assign.count", "assign.place", "assign.read", "assign.commit"} : Goto(t, pc)
      BY <2>2, <2>3, <3>2
    <3>3. QED
      BY <1>4, <3>1, <3>2 DEF AssignStep, AssignReadDriver, AssignCount, AssignIneligible,
                              AssignPlace, AssignCheck, AssignCommit
  <2>5. task[t].order \in Orders /\ task[t].driver \in Drivers
    BY <2>1 DEF Assigning
  <2>6. /\ orderStatus' \in [Orders -> OrderStatus]
        /\ deliveryDriver' \in [Orders -> Drivers \cup {NoDriver}]
        /\ driverStatus' \in [Drivers -> DriverStatus]
    BY <1>4, <2>5 DEF AssignStep, AssignReadDriver, AssignCount, AssignIneligible, AssignPlace,
                      AssignCheck, AssignCommit, OrderStatus, DriverStatus
  <2>7. QED
    BY <2>4, <2>6
<1>5. ASSUME NEW t \in Tasks, MoveCommit(t)
      PROVE  TypeOK'
  <2>1. task[t] \in Moving
    BY <1>5 DEF MoveCommit, Idle, Assigning, Releasing, Switching
  <2>2. [task[t] EXCEPT !.pc = "release.delivery"] \in Moving
    BY <2>1 DEF Moving
  <2>3. QED
    BY <1>5, <2>1, <2>2 DEF MoveCommit, Moving, Goto
<1>6. ASSUME NEW t \in Tasks, ReleaseReadDelivery(t)
      PROVE  TypeOK'
  <2>1. task[t] \in Moving
    BY <1>6 DEF ReleaseReadDelivery, Idle, Assigning, Releasing, Switching
  <2>2. QED
    BY <1>6, <2>1 DEF ReleaseReadDelivery, Moving, Releasing
<1>7. ASSUME NEW t \in Tasks, ReleaseReadDriver(t) \/ ReleaseCount(t) \/ ReleaseFree(t)
      PROVE  TypeOK'
  <2>1. task[t] \in Releasing
    BY <1>7 DEF ReleaseReadDriver, ReleaseCount, ReleaseFree, Idle, Assigning, Moving, Switching
  <2>2. \A pc \in {"release.count", "release.free"} : [task[t] EXCEPT !.pc = pc] \in Releasing
    BY <2>1 DEF Releasing
  <2>3. QED
    BY <1>7, <2>1, <2>2 DEF ReleaseReadDriver, ReleaseCount, ReleaseFree, Releasing, Goto, DriverStatus
<1>8. ASSUME NEW t \in Tasks, SwitchWrite(t)
      PROVE  TypeOK'
  <2>1. task[t] \in Switching
    BY <1>8 DEF SwitchWrite, Idle, Assigning, Moving, Releasing
  <2>2. QED
    BY <1>8, <2>1 DEF SwitchWrite, Switching, DriverStatus
<1>9. ASSUME NEW t \in Tasks, Fail(t)
      PROVE  TypeOK'
  BY <1>9 DEF Fail
<1>10. CASE UNCHANGED vars
  BY <1>10 DEF vars
<1>11. QED
  BY <1>1, <1>2, <1>3, <1>4, <1>5, <1>6, <1>7, <1>8, <1>9, <1>10 DEF Next, Request, Step, MoveStep

LEMMA TypeInit == Init => TypeOK
BY DEF Init, TypeOK, OrderStatus, DriverStatus

THEOREM TypeCorrect == Spec => []TypeOK
BY TypeInit, TypeStep, PTL DEF Spec

-----------------------------------------------------------------------------
(***************************************************************************)
(* Concurrent calls.  Once placed, a delivery always has some driver; a    *)
(* call that is past the placing, or that found the delivery, can rely on  *)
(* it although other calls may since have given it to another driver.      *)
(***************************************************************************)
CallsFoundADriver ==
  \A t \in Tasks :
    /\ task[t].pc \in {"assign.read", "assign.commit"} => deliveryDriver[task[t].order] # NoDriver
    /\ task[t].pc = "move.commit" /\ task[t].to # "CANCELLED" =>
         deliveryDriver[task[t].order] # NoDriver

\* Placing is the only write to the delivery, and it writes a driver.
LEMMA DeliveryStays ==
  ASSUME TypeOK, [Next]_vars, NEW o \in Orders, deliveryDriver[o] # NoDriver
  PROVE  deliveryDriver'[o] # NoDriver
<1> USE DispatchAssumption DEF TypeOK
<1>1. ASSUME NEW t \in Tasks, AssignPlace(t)
      PROVE  deliveryDriver'[o] # NoDriver
  <2>1. task[t] \in Assigning
    BY <1>1 DEF AssignPlace, Idle, Moving, Releasing, Switching
  <2>2. QED
    BY <1>1, <2>1 DEF AssignPlace, Assigning
<1>2. CASE UNCHANGED deliveryDriver
  BY <1>2
<1>3. QED
  BY <1>1, <1>2 DEF Next, Request, Step, AssignStep, MoveStep, Assign, Move, Switch, AssignReadDriver,
     AssignCount, AssignIneligible, AssignCheck, AssignCommit, MoveCommit, ReleaseReadDelivery,
     ReleaseReadDriver, ReleaseCount, ReleaseFree, SwitchWrite, Fail, tables, vars

LEMMA OnTheWayStep ==
  ASSUME TypeOK, TypeOK', OnTheWayHasDriver, CallsFoundADriver, [Next]_vars
  PROVE  OnTheWayHasDriver' /\ CallsFoundADriver'
<1>1. OnTheWayHasDriver'
  <2> SUFFICES ASSUME NEW o \in Orders, orderStatus'[o] \notin {"READY_FOR_PICKUP", "CANCELLED"}
               PROVE  deliveryDriver[o] # NoDriver
    BY DeliveryStays DEF OnTheWayHasDriver
  <2>1. CASE orderStatus'[o] = orderStatus[o]
    BY <2>1 DEF OnTheWayHasDriver
  <2>2. CASE orderStatus'[o] # orderStatus[o]
    <3>1. PICK t \in Tasks : AssignCommit(t) \/ MoveCommit(t)
      BY <2>2 DEF Next, Request, Step, AssignStep, MoveStep, Assign, Move, Switch, AssignReadDriver,
         AssignCount, AssignIneligible, AssignPlace, AssignCheck, ReleaseReadDelivery,
         ReleaseReadDriver, ReleaseCount, ReleaseFree, SwitchWrite, Fail, tables, vars
    <3>2. o = task[t].order
      BY <2>2, <3>1 DEF AssignCommit, MoveCommit, TypeOK
    <3>3. MoveCommit(t) => task[t].to = orderStatus'[o]
      BY <3>2 DEF MoveCommit, TypeOK
    <3>4. QED
      BY <3>1, <3>2, <3>3 DEF CallsFoundADriver, AssignCommit, MoveCommit
  <2>3. QED
    BY <2>1, <2>2
<1>2. CallsFoundADriver'
  <2> SUFFICES ASSUME NEW t \in Tasks,
                      \/ task'[t].pc \in {"assign.read", "assign.commit"}
                      \/ task'[t].pc = "move.commit" /\ task'[t].to # "CANCELLED"
               PROVE  deliveryDriver'[task'[t].order] # NoDriver
    BY DEF CallsFoundADriver
  <2>1. task'[t] \in Assigning \cup Moving
    BY DEF TypeOK, Idle, Releasing, Switching
  <2>2. task'[t].order \in Orders
    BY <2>1 DEF Assigning, Moving
  <2>3. CASE task'[t] = task[t]
    BY <2>2, <2>3, DeliveryStays DEF CallsFoundADriver
  <2>4. CASE task'[t] # task[t]
    <3>1. \/ \E o \in Orders, to \in Targets : Move(t, o, to)
          \/ AssignPlace(t)
          \/ AssignCheck(t)
      <4>1. \A q \in Tasks : q # t =>
              /\ ~ \E o \in Orders, d \in Drivers : Assign(q, o, d)
              /\ ~ \E o \in Orders, to \in Targets : Move(q, o, to)
              /\ ~ \E d \in Drivers, to \in {"AVAILABLE", "OFFLINE"} : Switch(q, d, to)
              /\ ~ Step(q)
              /\ ~ Fail(q)
        BY <2>4 DEF TypeOK, Assign, Move, Switch, Step, AssignStep, MoveStep, AssignReadDriver,
           AssignCount, AssignIneligible, AssignPlace, AssignCheck, AssignCommit, MoveCommit,
           ReleaseReadDelivery, ReleaseReadDriver, ReleaseCount, ReleaseFree, SwitchWrite, Fail,
           Ends, Goto
      <4>2. \/ \E o \in Orders, d \in Drivers : Assign(t, o, d)
            \/ \E o \in Orders, to \in Targets : Move(t, o, to)
            \/ \E d \in Drivers, to \in {"AVAILABLE", "OFFLINE"} : Switch(t, d, to)
            \/ Step(t)
            \/ Fail(t)
        BY <4>1, <2>4 DEF Next, Request, vars
      <4>3. \A pc : Goto(t, pc) => task'[t].pc = pc
        BY DEF TypeOK, Goto, Idle, Assigning, Moving, Releasing, Switching
      <4>4. Ends(t) => task'[t].pc = "idle"
        BY DEF TypeOK, Ends, Idle
      <4>5. task'[t].pc \in {"assign.read", "assign.commit", "move.commit"}
        OBVIOUS
      <4>6. CASE \E o \in Orders, d \in Drivers : Assign(t, o, d)
        BY <4>5, <4>6 DEF TypeOK, Assign
      <4>7. CASE \E d \in Drivers, to \in {"AVAILABLE", "OFFLINE"} : Switch(t, d, to)
        BY <4>5, <4>7 DEF TypeOK, Switch
      <4>8. CASE Fail(t)
        BY <4>4, <4>5, <4>8 DEF Fail
      <4>9. CASE AssignStep(t)
        BY <4>3, <4>4, <4>5, <4>9
           DEF AssignStep, AssignReadDriver, AssignCount, AssignIneligible, AssignCommit
      <4>10. CASE ReleaseReadDelivery(t)
        BY <4>4, <4>5, <4>10 DEF ReleaseReadDelivery, TypeOK
      <4>11. CASE MoveStep(t) /\ ~ ReleaseReadDelivery(t)
        BY <4>3, <4>4, <4>5, <4>11
           DEF MoveStep, MoveCommit, ReleaseReadDriver, ReleaseCount, ReleaseFree
      <4>12. CASE SwitchWrite(t)
        BY <4>4, <4>5, <4>12 DEF SwitchWrite
      <4>13. QED
        BY <4>2, <4>6, <4>7, <4>8, <4>9, <4>10, <4>11, <4>12 DEF Step
    <3>2. ASSUME NEW o \in Orders, NEW to \in Targets, Move(t, o, to)
          PROVE  deliveryDriver'[task'[t].order] # NoDriver
      BY <3>2 DEF Move, TypeOK, tables
    <3>3. CASE AssignPlace(t)
      <4>1. task[t] \in Assigning
        BY <3>3 DEF AssignPlace, TypeOK, Idle, Moving, Releasing, Switching
      <4>2. QED
        BY <3>3, <4>1, DispatchAssumption DEF AssignPlace, Assigning, TypeOK, Goto
    <3>4. CASE AssignCheck(t)
      <4>1. task[t] \in Assigning
        BY <3>4 DEF AssignCheck, TypeOK, Idle, Moving, Releasing, Switching
      <4>2. task'[t].order = task[t].order /\ UNCHANGED deliveryDriver
        BY <3>4, <4>1 DEF AssignCheck, Assigning, TypeOK, Goto, Ends, tables, Idle
      <4>3. QED
        BY <3>4, <4>2 DEF AssignCheck, CallsFoundADriver
    <3>5. QED
      BY <3>1, <3>2, <3>3, <3>4
  <2>5. QED
    BY <2>3, <2>4
<1>3. QED
  BY <1>1, <1>2

(***************************************************************************)
(* An order that has left READY_FOR_PICKUP without being cancelled always  *)
(* has a driver, for any number of racing and dying calls.                 *)
(***************************************************************************)
THEOREM OnTheWay == Spec => []OnTheWayHasDriver
<1>1. Init => OnTheWayHasDriver /\ CallsFoundADriver
  BY DEF Init, OnTheWayHasDriver, CallsFoundADriver, Idle
<1>2. TypeOK /\ TypeOK' /\ OnTheWayHasDriver /\ CallsFoundADriver /\ [Next]_vars
        => OnTheWayHasDriver' /\ CallsFoundADriver'
  BY OnTheWayStep
<1>3. QED
  BY <1>1, <1>2, TypeCorrect, PTL DEF Spec

-----------------------------------------------------------------------------
(* Concurrent calls: nothing leads an order back to READY_FOR_PICKUP. *)

Before == {"PENDING", "CONFIRMED", "READY_FOR_PICKUP"}

NoWayBack ==
  /\ \A o \in Orders : orderStatus[o] \notin {"PENDING", "CONFIRMED"}
  /\ \A t \in Tasks : task[t].pc = "move.commit" => task[t].to \notin Before

LEMMA TableLeadsForward ==
  ASSUME NEW from \in OrderStatus \ {"PENDING", "CONFIRMED"}, NEW to, canTransition(from, to)
  PROVE  to \notin Before
BY DEF canTransition, ORDER_TRANSITIONS, OrderStatus, FAILURE_STATUSES, TERMINAL_STATUSES, Before

LEMMA TaskMoves ==
  ASSUME TypeOK, NEW t \in Tasks
  PROVE  /\ \A pc : Goto(t, pc) => task'[t].pc = pc /\ \A u \in Tasks \ {t} : task'[u] = task[u]
         /\ Ends(t) => task'[t] = Idle /\ \A u \in Tasks \ {t} : task'[u] = task[u]
BY DEF TypeOK, Goto, Ends, Idle, Assigning, Moving, Releasing, Switching

\* A task is moved by its own call, and only a move asks for a status.
LEMMA OneTaskMoves ==
  ASSUME TypeOK, NEW t \in Tasks, Request(t) \/ Step(t) \/ Fail(t)
  PROVE  /\ \A u \in Tasks \ {t} : task'[u] = task[u]
         /\ task'[t].pc = "move.commit" => \E o \in Orders, to \in Targets : Move(t, o, to)
<1>1. ASSUME NEW o \in Orders, NEW d \in Drivers, Assign(t, o, d)
      PROVE  task'[t].pc # "move.commit" /\ \A u \in Tasks \ {t} : task'[u] = task[u]
  BY <1>1 DEF Assign, TypeOK
<1>2. ASSUME NEW o \in Orders, NEW to \in Targets, Move(t, o, to)
      PROVE  \A u \in Tasks \ {t} : task'[u] = task[u]
  BY <1>2 DEF Move, TypeOK
<1>3. ASSUME NEW d \in Drivers, NEW to \in {"AVAILABLE", "OFFLINE"}, Switch(t, d, to)
      PROVE  task'[t].pc # "move.commit" /\ \A u \in Tasks \ {t} : task'[u] = task[u]
  BY <1>3 DEF Switch, TypeOK
<1>4. CASE ReleaseReadDelivery(t)
  BY <1>4, TaskMoves DEF ReleaseReadDelivery, TypeOK, Idle
<1>5. CASE Fail(t)
  BY <1>5, TaskMoves DEF Fail, Idle
<1>6. CASE Step(t) /\ ~ ReleaseReadDelivery(t)
  <2>1. PICK pc \in {"assign.count", "assign.place", "assign.read", "assign.commit",
                     "release.delivery", "release.count", "release.free"} : Ends(t) \/ Goto(t, pc)
    <3>1. CASE AssignStep(t)
      BY <3>1 DEF AssignStep, AssignReadDriver, AssignCount, AssignIneligible, AssignPlace,
         AssignCheck, AssignCommit
    <3>2. CASE MoveStep(t)
      BY <1>6, <3>2 DEF MoveStep, MoveCommit, ReleaseReadDriver, ReleaseCount, ReleaseFree
    <3>3. CASE SwitchWrite(t)
      BY <3>3 DEF SwitchWrite
    <3>4. QED
      BY <1>6, <3>1, <3>2, <3>3 DEF Step
  <2>2. QED
    BY <2>1, TaskMoves DEF Idle
<1>7. QED
  BY <1>1, <1>2, <1>3, <1>4, <1>5, <1>6 DEF Request

LEMMA NoWayBackStep ==
  ASSUME TypeOK, TypeOK', NoWayBack, [Next]_vars
  PROVE  /\ NoWayBack'
         /\ \A o \in Orders : orderStatus'[o] = "READY_FOR_PICKUP" => orderStatus[o] = "READY_FOR_PICKUP"
<1>1. CASE UNCHANGED vars
  BY <1>1 DEF vars, NoWayBack
<1>2. ASSUME NEW t \in Tasks, Request(t) \/ Step(t) \/ Fail(t)
      PROVE  /\ NoWayBack'
             /\ \A o \in Orders : orderStatus'[o] = "READY_FOR_PICKUP" => orderStatus[o] = "READY_FOR_PICKUP"
  <2>1. \A u \in Tasks : task'[u].pc = "move.commit" => task'[u].to \notin Before
    <3>1. ASSUME NEW o \in Orders, NEW to \in Targets, Move(t, o, to)
          PROVE  task'[t].to \notin Before
      <4>1. orderStatus[o] \in OrderStatus \ {"PENDING", "CONFIRMED"} /\ canTransition(orderStatus[o], to)
        BY <3>1 DEF Move, NoWayBack, TypeOK
      <4>2. task'[t].to = to
        BY <3>1 DEF Move, TypeOK
      <4>3. QED
        BY <4>1, <4>2, TableLeadsForward
    <3>2. QED
      BY <1>2, <3>1, OneTaskMoves DEF NoWayBack
  <2>2. \A o \in Orders :
          \/ orderStatus'[o] = orderStatus[o]
          \/ orderStatus'[o] = "ASSIGNED"
          \/ MoveCommit(t) /\ orderStatus'[o] = task[t].to
    <3>1. CASE AssignCommit(t) \/ MoveCommit(t)
      BY <3>1 DEF AssignCommit, MoveCommit, TypeOK
    <3>2. CASE UNCHANGED orderStatus
      BY <3>2
    <3>3. QED
      BY <1>2, <3>1, <3>2 DEF Request, Step, AssignStep, MoveStep, Assign, Move, Switch,
         AssignReadDriver, AssignCount, AssignIneligible, AssignPlace, AssignCheck,
         ReleaseReadDelivery, ReleaseReadDriver, ReleaseCount, ReleaseFree, SwitchWrite, Fail, tables
  <2>3. MoveCommit(t) => task[t].to \notin Before
    BY DEF MoveCommit, NoWayBack
  <2>4. QED
    BY <2>1, <2>2, <2>3 DEF NoWayBack, Before
<1>3. QED
  BY <1>1, <1>2 DEF Next

-----------------------------------------------------------------------------
(***************************************************************************)
(* One call at a time.  What a call has read still holds when it writes:   *)
(* the order it dispatches is still waiting, the driver it counted still   *)
(* has room, the driver it frees or switches still carries nothing.        *)
(***************************************************************************)
CallFacts(t) ==
  /\ task[t].pc \in {"assign.driver", "assign.count", "assign.place", "assign.read", "assign.commit"}
       => orderStatus[task[t].order] = "READY_FOR_PICKUP"
  /\ task[t].pc = "assign.place" => activeLoad(task[t].driver) < MAX_CONCURRENT_DELIVERIES
  /\ task[t].pc \in {"assign.read", "assign.commit"} => deliveryDriver[task[t].order] = task[t].driver
  /\ task[t].pc = "move.commit" => canTransition(orderStatus[task[t].order], task[t].to)
  /\ task[t].pc \in {"release.free", "switch.write"} => Carried(task[t].driver) = {}

DriverFacts(d) ==
  /\ activeLoad(d) <= MAX_CONCURRENT_DELIVERIES
  /\ driverStatus[d] # "BUSY" => Carried(d) = {}

SerialInv == (\A d \in Drivers : DriverFacts(d)) /\ (\A t \in Tasks : CallFacts(t))

LEMMA LoadIsFinite ==
  ASSUME NEW d
  PROVE  /\ IsFiniteSet(Carried(d))
         /\ activeLoad(d) \in Nat
         /\ activeLoad(d) = 0 <=> Carried(d) = {}
<1>1. Carried(d) \subseteq Orders
  BY DEF Carried
<1>2. QED
  BY <1>1, DispatchAssumption, FS_Subset, FS_CardinalityType, FS_EmptySet DEF activeLoad

\* Losing deliveries, or gaining none, never takes a driver over the capacity.
LEMMA LoadShrinks ==
  ASSUME NEW d, Carried(d)' \subseteq Carried(d), activeLoad(d) <= MAX_CONCURRENT_DELIVERIES
  PROVE  activeLoad(d)' <= MAX_CONCURRENT_DELIVERIES
<1> DEFINE after == Carried(d)'
<1>1. after \subseteq Carried(d) /\ IsFiniteSet(Carried(d))
  BY LoadIsFinite
<1>2. activeLoad(d)' = Cardinality(after)
  BY DEF activeLoad
<1> HIDE DEF after
<1>3. IsFiniteSet(after) /\ Cardinality(after) <= Cardinality(Carried(d))
  BY <1>1, FS_Subset
<1>4. Cardinality(after) \in Nat /\ Cardinality(Carried(d)) \in Nat
  BY <1>1, <1>3, FS_CardinalityType
<1>5. QED
  BY <1>2, <1>3, <1>4, DispatchAssumption DEF activeLoad

LEMMA GotoKeeps ==
  ASSUME TypeOK, NEW t \in Tasks, NEW pc, Goto(t, pc)
  PROVE  /\ task'[t].pc = pc
         /\ task[t] \in Assigning => /\ task'[t].order = task[t].order
                                     /\ task'[t].driver = task[t].driver
         /\ task[t] \in Moving => task'[t].order = task[t].order
         /\ task[t] \in Releasing => task'[t].driver = task[t].driver
BY DEF TypeOK, Goto, Idle, Assigning, Moving, Releasing, Switching

LEMMA EndsIdle ==
  ASSUME TypeOK, NEW t \in Tasks, Ends(t)
  PROVE  task'[t] = Idle
BY DEF TypeOK, Ends

LEMMA Kinds ==
  ASSUME TypeOK, NEW t \in Tasks
  PROVE  /\ task[t].pc \in {"assign.driver", "assign.count", "assign.place", "assign.read",
                            "assign.commit"} => task[t] \in Assigning
         /\ task[t].pc \in {"move.commit", "release.delivery"} => task[t] \in Moving
         /\ task[t].pc \in {"release.driver", "release.count", "release.free"}
              => task[t] \in Releasing
         /\ task[t].pc = "switch.write" => task[t] \in Switching
BY DEF TypeOK, Idle, Assigning, Moving, Releasing, Switching

LEMMA SerialInit == Init => SerialInv
<1> SUFFICES ASSUME Init PROVE SerialInv
  OBVIOUS
<1>1. \A d \in Drivers : Carried(d) = {}
  BY DispatchAssumption DEF Init, Carried
<1>2. \A d \in Drivers : DriverFacts(d)
  BY <1>1, LoadIsFinite, DispatchAssumption DEF DriverFacts
<1>3. \A t \in Tasks : CallFacts(t)
  BY DEF Init, CallFacts, Idle
<1>4. QED
  BY <1>2, <1>3 DEF SerialInv

\* A step that writes no table keeps the facts about the drivers.
LEMMA QuietStep ==
  ASSUME SerialInv, UNCHANGED tables
  PROVE  /\ \A d \in Drivers : DriverFacts(d)'
         /\ \A d : Carried(d)' = Carried(d) /\ activeLoad(d)' = activeLoad(d)
         /\ UNCHANGED <<orderStatus, deliveryDriver, driverStatus>>
BY DEF SerialInv, DriverFacts, tables, Carried, activeLoad

LEMMA SerialReads ==
  ASSUME TypeOK, SerialInv, NEW t \in Tasks, UNCHANGED tables,
         \/ \E o \in Orders, d \in Drivers : Assign(t, o, d)
         \/ \E o \in Orders, to \in Targets : Move(t, o, to)
         \/ \E d \in Drivers, to \in {"AVAILABLE", "OFFLINE"} : Switch(t, d, to)
         \/ Step(t)
         \/ Ends(t)
  PROVE  CallFacts(t)'
<1>1. CASE Ends(t)
  BY <1>1, EndsIdle DEF CallFacts, Idle
<1>2. CASE \E o \in Orders, d \in Drivers : Assign(t, o, d)
  BY <1>2, QuietStep DEF Assign, CallFacts, TypeOK
<1>3. CASE \E o \in Orders, to \in Targets : Move(t, o, to)
  BY <1>3, QuietStep DEF Move, CallFacts, TypeOK
<1>4. CASE \E d \in Drivers, to \in {"AVAILABLE", "OFFLINE"} : Switch(t, d, to)
  <2>1. PICK d \in Drivers : driverStatus[d] # "BUSY" /\ task'[t].driver = d /\ task'[t].pc = "switch.write"
    BY <1>4 DEF Switch, TypeOK
  <2>2. Carried(d)' = {}
    BY <2>1, QuietStep DEF SerialInv, DriverFacts
  <2>3. QED
    BY <2>1, <2>2 DEF CallFacts
<1>5. CASE Step(t) /\ ~ Ends(t)
  <2>1. CASE AssignReadDriver(t)
    <3>1. /\ task[t] \in Assigning
          /\ orderStatus[task[t].order] = "READY_FOR_PICKUP"
          /\ DriverFacts(task[t].driver)
      BY <2>1, Kinds DEF AssignReadDriver, CallFacts, SerialInv, Assigning
    <3>2. CASE Goto(t, "assign.place") /\ driverStatus[task[t].driver] = "AVAILABLE"
      <4>1. activeLoad(task[t].driver) < MAX_CONCURRENT_DELIVERIES
        BY <3>1, <3>2, LoadIsFinite, DispatchAssumption DEF DriverFacts
      <4>2. QED
        BY <3>1, <3>2, <4>1, GotoKeeps, QuietStep DEF CallFacts
    <3>3. CASE Goto(t, "assign.count")
      BY <3>1, <3>3, GotoKeeps, QuietStep DEF CallFacts
    <3>4. QED
      BY <1>5, <2>1, <3>2, <3>3 DEF AssignReadDriver
  <2>2. CASE AssignCount(t)
    <3>1. /\ task[t] \in Assigning
          /\ orderStatus[task[t].order] = "READY_FOR_PICKUP"
      BY <2>2, Kinds DEF AssignCount, CallFacts, SerialInv
    <3>2. Goto(t, "assign.place") /\ activeLoad(task[t].driver) < MAX_CONCURRENT_DELIVERIES
      BY <1>5, <2>2, LoadIsFinite, DispatchAssumption DEF AssignCount
    <3>3. QED
      BY <3>1, <3>2, GotoKeeps, QuietStep DEF CallFacts
  <2>3. CASE AssignCheck(t)
    <3>1. /\ task[t] \in Assigning /\ orderStatus[task[t].order] = "READY_FOR_PICKUP"
          /\ deliveryDriver[task[t].order] = task[t].driver
      BY <2>3, Kinds DEF AssignCheck, CallFacts, SerialInv
    <3>2. Goto(t, "assign.commit")
      BY <1>5, <2>3 DEF AssignCheck
    <3>3. QED
      BY <3>1, <3>2, GotoKeeps, QuietStep DEF CallFacts
  <2>4. CASE ReleaseReadDelivery(t)
    BY <1>5, <2>4 DEF ReleaseReadDelivery, CallFacts, TypeOK
  <2>5. CASE ReleaseReadDriver(t)
    BY <1>5, <2>5, GotoKeeps DEF ReleaseReadDriver, CallFacts
  <2>6. CASE ReleaseCount(t)
    <3>1. task[t] \in Releasing /\ Carried(task[t].driver) = {}
      BY <1>5, <2>6, Kinds, LoadIsFinite DEF ReleaseCount
    <3>2. Goto(t, "release.free")
      BY <1>5, <2>6 DEF ReleaseCount
    <3>3. QED
      BY <3>1, <3>2, GotoKeeps, QuietStep DEF CallFacts
  <2>7. CASE AssignPlace(t)
    <3>1. task[t] \in Assigning /\ orderStatus[task[t].order] = "READY_FOR_PICKUP"
      BY <2>7, Kinds DEF AssignPlace, CallFacts, SerialInv
    <3>2. deliveryDriver'[task[t].order] = task[t].driver
      BY <2>7, <3>1 DEF AssignPlace, Assigning, TypeOK
    <3>3. QED
      BY <2>7, <3>1, <3>2, GotoKeeps, QuietStep DEF AssignPlace, CallFacts
  <2>8. CASE MoveCommit(t)
    BY <1>5, <2>8, GotoKeeps DEF MoveCommit, CallFacts
  <2>9. QED
    BY <1>5, <2>1, <2>2, <2>3, <2>4, <2>5, <2>6, <2>7, <2>8
       DEF Step, AssignStep, MoveStep, AssignIneligible, AssignCommit, ReleaseFree, SwitchWrite
<1>6. QED
  BY <1>1, <1>2, <1>3, <1>4, <1>5

LEMMA SerialPlace ==
  ASSUME TypeOK, SerialInv, NEW t \in Tasks, AssignPlace(t)
  PROVE  (\A d \in Drivers : DriverFacts(d)') /\ CallFacts(t)'
<1>1. task[t] \in Assigning /\ orderStatus[task[t].order] = "READY_FOR_PICKUP"
  BY Kinds DEF AssignPlace, CallFacts, SerialInv
<1>2. PICK o, d0 : o = task[t].order /\ d0 = task[t].driver
  OBVIOUS
<1>3. o \in Orders /\ d0 \in Drivers
  BY <1>1, <1>2 DEF Assigning
<1>4. /\ deliveryDriver' = [deliveryDriver EXCEPT ![o] = d0]
      /\ driverStatus' = [driverStatus EXCEPT ![d0] = "BUSY"]
      /\ UNCHANGED orderStatus
      /\ activeLoad(d0) < MAX_CONCURRENT_DELIVERIES
  BY <1>2 DEF AssignPlace, CallFacts, SerialInv
<1>5. CallFacts(t)'
  <2>1. deliveryDriver'[o] = d0
    BY <1>3, <1>4 DEF TypeOK
  <2>2. task'[t].pc = "assign.read" /\ task'[t].order = o /\ task'[t].driver = d0
    BY <1>1, <1>2, GotoKeeps DEF AssignPlace
  <2>3. QED
    BY <1>1, <1>2, <1>4, <2>1, <2>2 DEF CallFacts
<1>6. ASSUME NEW d \in Drivers, d # d0
      PROVE  DriverFacts(d)'
  <2>1. Carried(d)' \subseteq Carried(d)
    BY <1>3, <1>4, <1>6 DEF Carried, TypeOK
  <2>2. activeLoad(d) <= MAX_CONCURRENT_DELIVERIES /\ (driverStatus[d] # "BUSY" => Carried(d) = {})
    BY DEF SerialInv, DriverFacts
  <2>3. driverStatus'[d] = driverStatus[d]
    BY <1>4, <1>6 DEF TypeOK
  <2>4. QED
    BY <2>1, <2>2, <2>3, LoadShrinks DEF DriverFacts
<1>7. DriverFacts(d0)'
  <2> DEFINE after == Carried(d0)'
  <2>1. after \subseteq Carried(d0) \cup {o} /\ activeLoad(d0)' = Cardinality(after)
    BY <1>3, <1>4 DEF Carried, TypeOK, activeLoad
  <2> HIDE DEF after
  <2>2. /\ IsFiniteSet(Carried(d0) \cup {o})
        /\ Cardinality(Carried(d0) \cup {o}) <= Cardinality(Carried(d0)) + 1
    <3>1. IsFiniteSet(Carried(d0)) /\ Cardinality(Carried(d0)) \in Nat
      BY LoadIsFinite DEF activeLoad
    <3>2. \/ Cardinality(Carried(d0) \cup {o}) = Cardinality(Carried(d0))
          \/ Cardinality(Carried(d0) \cup {o}) = Cardinality(Carried(d0)) + 1
      BY <3>1, FS_AddElement, Zenon
    <3>3. IsFiniteSet(Carried(d0) \cup {o})
      BY <3>1, FS_AddElement, Zenon
    <3>4. QED
      BY <3>1, <3>2, <3>3
  <2>3. IsFiniteSet(after) /\ Cardinality(after) <= Cardinality(Carried(d0) \cup {o})
    BY <2>1, <2>2, FS_Subset
  <2>4. /\ Cardinality(after) \in Nat
        /\ Cardinality(Carried(d0) \cup {o}) \in Nat
        /\ Cardinality(Carried(d0)) \in Nat
    BY <2>2, <2>3, LoadIsFinite, FS_CardinalityType
  <2>5. activeLoad(d0)' <= MAX_CONCURRENT_DELIVERIES
    BY <1>4, <2>1, <2>2, <2>3, <2>4, DispatchAssumption DEF activeLoad
  <2>6. driverStatus'[d0] = "BUSY"
    BY <1>3, <1>4 DEF TypeOK
  <2>7. QED
    BY <2>5, <2>6 DEF DriverFacts
<1>8. QED
  BY <1>5, <1>6, <1>7

\* The order leaves a status that is not terminal: no load grows.
LEMMA SerialCommits ==
  ASSUME TypeOK, SerialInv, NEW t \in Tasks, AssignCommit(t) \/ MoveCommit(t)
  PROVE  (\A d \in Drivers : DriverFacts(d)') /\ CallFacts(t)'
<1>1. task[t] \in Assigning \cup Moving
  BY Kinds DEF AssignCommit, MoveCommit
<1>2. PICK o : o = task[t].order
  OBVIOUS
<1>3. o \in Orders
  BY <1>1, <1>2 DEF Assigning, Moving
<1>4. orderStatus[o] \notin TERMINAL_STATUSES
  <2>1. CASE AssignCommit(t)
    BY <1>2, <2>1 DEF AssignCommit, CallFacts, SerialInv, TERMINAL_STATUSES
  <2>2. CASE MoveCommit(t)
    <3>1. canTransition(orderStatus[o], task[t].to) /\ orderStatus[o] \in OrderStatus
      BY <1>2, <1>3, <2>2 DEF MoveCommit, CallFacts, SerialInv, TypeOK
    <3>2. QED
      BY <3>1, TransitionsWithinStatuses
  <2>3. QED
    BY <2>1, <2>2
<1>5. /\ \A x \in Orders : x # o => orderStatus'[x] = orderStatus[x]
      /\ UNCHANGED <<deliveryDriver, driverStatus>>
  BY <1>2 DEF AssignCommit, MoveCommit, TypeOK
<1>6. ASSUME NEW d \in Drivers
      PROVE  DriverFacts(d)'
  <2>1. Carried(d)' \subseteq Carried(d)
    BY <1>4, <1>5 DEF Carried
  <2>2. activeLoad(d) <= MAX_CONCURRENT_DELIVERIES /\ (driverStatus[d] # "BUSY" => Carried(d) = {})
    BY DEF SerialInv, DriverFacts
  <2>3. QED
    BY <1>5, <2>1, <2>2, LoadShrinks DEF DriverFacts
<1>7. CallFacts(t)'
  BY GotoKeeps, EndsIdle DEF AssignCommit, MoveCommit, CallFacts, Idle
<1>8. QED
  BY <1>6, <1>7

LEMMA SerialFrees ==
  ASSUME TypeOK, SerialInv, NEW t \in Tasks, ReleaseFree(t) \/ SwitchWrite(t)
  PROVE  (\A d \in Drivers : DriverFacts(d)') /\ CallFacts(t)'
<1>1. PICK d0 : d0 = task[t].driver
  OBVIOUS
<1>2. Carried(d0) = {} /\ UNCHANGED <<orderStatus, deliveryDriver>>
  BY <1>1 DEF ReleaseFree, SwitchWrite, CallFacts, SerialInv
<1>3. \A d \in Drivers : d # d0 => driverStatus'[d] = driverStatus[d]
  BY <1>1 DEF ReleaseFree, SwitchWrite, TypeOK
<1>4. \A d : Carried(d)' = Carried(d) /\ activeLoad(d)' = activeLoad(d)
  BY <1>2 DEF Carried, activeLoad
<1>5. \A d \in Drivers : DriverFacts(d)'
  BY <1>2, <1>3, <1>4 DEF SerialInv, DriverFacts
<1>6. CallFacts(t)'
  BY EndsIdle DEF ReleaseFree, SwitchWrite, CallFacts, Idle
<1>7. QED
  BY <1>5, <1>6

LEMMA SerialStep ==
  ASSUME NEW t0, Tasks = {t0}, TypeOK, SerialInv, [Next]_vars
  PROVE  SerialInv'
<1> SUFFICES (\A d \in Drivers : DriverFacts(d)') /\ CallFacts(t0)'
  BY DEF SerialInv
<1>1. CASE UNCHANGED vars
  <2>1. UNCHANGED tables /\ UNCHANGED task
    BY <1>1 DEF vars, tables
  <2>2. CallFacts(t0)'
    BY <2>1, QuietStep DEF SerialInv, CallFacts
  <2>3. QED
    BY <2>1, <2>2, QuietStep
<1>2. CASE AssignPlace(t0)
  BY <1>2, SerialPlace
<1>3. CASE AssignCommit(t0) \/ MoveCommit(t0)
  BY <1>3, SerialCommits
<1>4. CASE ReleaseFree(t0) \/ SwitchWrite(t0)
  BY <1>4, SerialFrees
<1>5. CASE Next /\ UNCHANGED tables
  <2>1. CallFacts(t0)'
    BY <1>5, SerialReads DEF Next, Request, Fail
  <2>2. QED
    BY <1>5, <2>1, QuietStep
<1>6. QED
  BY <1>1, <1>2, <1>3, <1>4, <1>5
     DEF Next, Request, Step, AssignStep, MoveStep, Assign, Move, Switch, AssignReadDriver, AssignCount,
         AssignIneligible, AssignCheck, ReleaseReadDelivery, ReleaseReadDriver, ReleaseCount, Fail

LEMMA SerialAlways ==
  ASSUME NEW CONSTANT t0, Tasks = {t0}
  PROVE  Spec => [](TypeOK /\ SerialInv)
<1>1. TypeOK /\ SerialInv /\ [Next]_vars => SerialInv'
  BY SerialStep
<1>2. QED
  BY <1>1, SerialInit, TypeCorrect, PTL DEF Spec

(***************************************************************************)
(* With one call at a time, even if it dies half-way, no driver carries    *)
(* more than the capacity.                                                 *)
(***************************************************************************)
THEOREM SerialCapacity ==
  ASSUME NEW CONSTANT t0, Tasks = {t0}
  PROVE  Spec => []CapacityRespected
<1>1. SerialInv => CapacityRespected
  BY DEF SerialInv, DriverFacts, CapacityRespected
<1>2. QED
  BY <1>1, SerialAlways, PTL

(***************************************************************************)
(* With one call at a time, even if it dies half-way, only BUSY drivers    *)
(* carry anything.                                                         *)
(***************************************************************************)
THEOREM SerialOnlyBusyCarry ==
  ASSUME NEW CONSTANT t0, Tasks = {t0}
  PROVE  Spec => []OnlyBusyDriversCarry
<1>1. SerialInv => OnlyBusyDriversCarry
  BY LoadIsFinite DEF SerialInv, DriverFacts, OnlyBusyDriversCarry
<1>2. QED
  BY <1>1, SerialAlways, PTL

-----------------------------------------------------------------------------
(***************************************************************************)
(* One call at a time, until one dies.  A driver is stranded if nobody is  *)
(* left to release it.  That no driver is, needs that the assignment which *)
(* places a delivery also takes its order out of READY_FOR_PICKUP: else a  *)
(* later placing would take the order from a driver who stays BUSY.        *)
(***************************************************************************)
PlacedByItsCall ==
  \A o \in Orders :
    orderStatus[o] = "READY_FOR_PICKUP" /\ deliveryDriver[o] # NoDriver =>
      \E t \in Tasks : task[t].pc \in {"assign.read", "assign.commit"} /\ task[t].order = o

\* Somebody will look after d, or d needs nobody.
Minded(d) == driverStatus[d] = "BUSY" /\ Carried(d) = {} => \E t \in Tasks : AboutToRelease(t, d)

NothingLeftOver == PlacedByItsCall /\ \A d \in Drivers : Minded(d)

LEMMA LeftToTheCall ==
  ASSUME NEW t0, Tasks = {t0}, NothingLeftOver
  PROVE  /\ task[t0].pc \notin {"assign.read", "assign.commit"} =>
              \A o \in Orders : orderStatus[o] = "READY_FOR_PICKUP" => deliveryDriver[o] = NoDriver
         /\ \A d \in Drivers : driverStatus[d] = "BUSY" /\ Carried(d) = {} => AboutToRelease(t0, d)
BY DEF NothingLeftOver, PlacedByItsCall, Minded

\* A step that writes no table and does not take a call from a place others rely on.
LEMMA LeftOverQuiet ==
  ASSUME NEW t0, Tasks = {t0}, TypeOK, NothingLeftOver, UNCHANGED tables,
         \A o \in Orders : task[t0].pc \in {"assign.read", "assign.commit"} /\ task[t0].order = o
           => task'[t0].pc \in {"assign.read", "assign.commit"} /\ task'[t0].order = o,
         \A d \in Drivers : AboutToRelease(t0, d) /\ driverStatus[d] = "BUSY" /\ Carried(d) = {}
           => AboutToRelease(t0, d)'
  PROVE  NothingLeftOver'
<1>1. UNCHANGED <<orderStatus, deliveryDriver, driverStatus>> /\ \A d : Carried(d)' = Carried(d)
  BY DEF tables, Carried
<1>2. PlacedByItsCall'
  BY <1>1 DEF NothingLeftOver, PlacedByItsCall
<1>3. \A d \in Drivers : Minded(d)'
  BY <1>1 DEF NothingLeftOver, Minded
<1>4. QED
  BY <1>2, <1>3 DEF NothingLeftOver

LEMMA LeftOverStep ==
  ASSUME NEW t0, Tasks = {t0}, TypeOK, TypeOK', SerialInv, NoWayBack, NothingLeftOver,
         Request(t0) \/ Step(t0)
  PROVE  NothingLeftOver'
<1> USE DispatchAssumption
<1>1. CASE Request(t0)
  <2>1. task[t0] = Idle /\ UNCHANGED tables
    BY <1>1 DEF Request, Assign, Move, Switch
  <2>2. QED
    BY <2>1, LeftOverQuiet DEF Idle, AboutToRelease
<1>2. CASE AssignReadDriver(t0) \/ AssignCount(t0) \/ AssignIneligible(t0)
  BY <1>2, LeftOverQuiet DEF AssignReadDriver, AssignCount, AssignIneligible, AboutToRelease
<1>3. CASE AssignCheck(t0)
  <2>1. /\ task[t0] \in Assigning
        /\ orderStatus[task[t0].order] = "READY_FOR_PICKUP"
    BY <1>3, Kinds DEF AssignCheck, SerialInv, CallFacts
  <2>2. canTransition("READY_FOR_PICKUP", "ASSIGNED")
    BY DEF canTransition, ORDER_TRANSITIONS, OrderStatus, FAILURE_STATUSES, TERMINAL_STATUSES
  <2>3. task'[t0].pc = "assign.commit" /\ task'[t0].order = task[t0].order
    BY <1>3, <2>1, <2>2, GotoKeeps DEF AssignCheck
  <2>4. QED
    BY <1>3, <2>3, LeftOverQuiet DEF AssignCheck, AboutToRelease
<1>4. CASE AssignPlace(t0)
  <2>1. task[t0] \in Assigning /\ orderStatus[task[t0].order] = "READY_FOR_PICKUP"
    BY <1>4, Kinds DEF AssignPlace, CallFacts, SerialInv
  <2>2. PICK o \in Orders, d0 \in Drivers : o = task[t0].order /\ d0 = task[t0].driver
    BY <2>1 DEF Assigning
  <2>3. /\ deliveryDriver' = [deliveryDriver EXCEPT ![o] = d0]
        /\ driverStatus' = [driverStatus EXCEPT ![d0] = "BUSY"]
        /\ UNCHANGED orderStatus
    BY <1>4, <2>2 DEF AssignPlace
  <2>4. task'[t0].pc = "assign.read" /\ task'[t0].order = o
    BY <1>4, <2>1, <2>2, GotoKeeps DEF AssignPlace
  <2>5. /\ \A x \in Orders : orderStatus[x] = "READY_FOR_PICKUP" => deliveryDriver[x] = NoDriver
        /\ \A d \in Drivers : driverStatus[d] = "BUSY" => Carried(d) # {}
    BY <1>4, LeftToTheCall DEF AssignPlace, AboutToRelease
  <2>6. PlacedByItsCall'
    BY <2>3, <2>4, <2>5 DEF PlacedByItsCall, TypeOK
  <2>7. ASSUME NEW d \in Drivers
        PROVE  Minded(d)'
    <3>1. CASE d = d0
      <4>1. o \in Carried(d)'
        BY <2>1, <2>2, <2>3, <3>1 DEF Carried, TypeOK, TERMINAL_STATUSES
      <4>2. QED
        BY <4>1 DEF Minded
    <3>2. CASE d # d0
      <4>1. driverStatus'[d] = driverStatus[d]
        BY <2>3, <3>2 DEF TypeOK
      <4>2. Carried(d)' = Carried(d)
        BY <2>1, <2>2, <2>3, <2>5, <3>2 DEF Carried, TypeOK
      <4>3. QED
        BY <2>5, <4>1, <4>2 DEF Minded
    <3>3. QED
      BY <3>1, <3>2
  <2>8. QED
    BY <2>6, <2>7 DEF NothingLeftOver
<1>5. CASE AssignCommit(t0)
  <2>1. task[t0] \in Assigning /\ orderStatus[task[t0].order] = "READY_FOR_PICKUP"
    BY <1>5, Kinds DEF AssignCommit, CallFacts, SerialInv
  <2>2. PICK o \in Orders : o = task[t0].order
    BY <2>1 DEF Assigning
  <2>3. /\ orderStatus' = [orderStatus EXCEPT ![o] = "ASSIGNED"]
        /\ UNCHANGED <<deliveryDriver, driverStatus>>
    BY <1>5, <2>2 DEF AssignCommit
  <2>4. \A x \in Orders : orderStatus[x] = "READY_FOR_PICKUP" /\ deliveryDriver[x] # NoDriver => x = o
    BY <2>2 DEF NothingLeftOver, PlacedByItsCall
  <2>5. PlacedByItsCall'
    BY <2>3, <2>4 DEF PlacedByItsCall, TypeOK
  <2>6. \A d \in Drivers : Carried(d)' = Carried(d)
    BY <2>1, <2>2, <2>3 DEF Carried, TypeOK, TERMINAL_STATUSES
  <2>7. \A d \in Drivers : driverStatus[d] = "BUSY" => Carried(d) # {}
    BY <1>5, LeftToTheCall DEF AssignCommit, AboutToRelease
  <2>8. QED
    BY <2>3, <2>5, <2>6, <2>7 DEF NothingLeftOver, Minded
<1>6. CASE MoveCommit(t0)
  <2>1. task[t0] \in Moving /\ canTransition(orderStatus[task[t0].order], task[t0].to)
        /\ task[t0].to \notin Before
    BY <1>6, Kinds DEF MoveCommit, CallFacts, SerialInv, NoWayBack
  <2>2. PICK o \in Orders, to \in OrderStatus : o = task[t0].order /\ to = task[t0].to
    BY <2>1 DEF Moving
  <2>3. orderStatus' = [orderStatus EXCEPT ![o] = to] /\ UNCHANGED <<deliveryDriver, driverStatus>>
    BY <1>6, <2>2 DEF MoveCommit
  <2>4. orderStatus[o] \in OrderStatus /\ orderStatus[o] \notin TERMINAL_STATUSES
    BY <2>1, <2>2, TransitionsWithinStatuses DEF TypeOK
  <2>5. /\ \A x \in Orders : orderStatus[x] = "READY_FOR_PICKUP" => deliveryDriver[x] = NoDriver
        /\ \A d \in Drivers : driverStatus[d] = "BUSY" => Carried(d) # {}
    BY <1>6, LeftToTheCall DEF MoveCommit, AboutToRelease
  <2>6. PlacedByItsCall'
    BY <2>1, <2>2, <2>3, <2>5 DEF PlacedByItsCall, TypeOK, Before
  <2>7. ASSUME NEW d \in Drivers, driverStatus[d] = "BUSY", Carried(d)' = {}
        PROVE  AboutToRelease(t0, d)'
    <3>1. Carried(d) \subseteq {o} /\ to \in TERMINAL_STATUSES
      BY <2>3, <2>4, <2>5, <2>7 DEF Carried, TypeOK
    <3>2. deliveryDriver'[o] = d
      BY <2>3, <2>5, <2>7, <3>1 DEF Carried
    <3>3. task'[t0].pc = "release.delivery" /\ task'[t0].order = o
      BY <1>6, <2>1, <2>2, <3>1, GotoKeeps DEF MoveCommit
    <3>4. QED
      BY <3>2, <3>3 DEF AboutToRelease
  <2>8. QED
    BY <2>3, <2>6, <2>7 DEF NothingLeftOver, Minded
<1>7. CASE ReleaseReadDelivery(t0)
  <2>1. ASSUME NEW d \in Drivers, AboutToRelease(t0, d)
        PROVE  task'[t0].pc = "release.driver" /\ task'[t0].driver = d
    BY <1>7, <2>1 DEF ReleaseReadDelivery, AboutToRelease, TypeOK
  <2>2. QED
    BY <1>7, <2>1, LeftOverQuiet DEF ReleaseReadDelivery, AboutToRelease
<1>8. CASE ReleaseReadDriver(t0)
  <2>1. ASSUME NEW d \in Drivers, AboutToRelease(t0, d), driverStatus[d] = "BUSY"
        PROVE  task'[t0].pc = "release.count" /\ task'[t0].driver = d
    BY <1>8, <2>1, Kinds, GotoKeeps DEF ReleaseReadDriver, AboutToRelease
  <2>2. QED
    BY <1>8, <2>1, LeftOverQuiet DEF ReleaseReadDriver, AboutToRelease
<1>9. CASE ReleaseCount(t0)
  <2>1. ASSUME NEW d \in Drivers, AboutToRelease(t0, d), Carried(d) = {}
        PROVE  task'[t0].pc = "release.free" /\ task'[t0].driver = d
    BY <1>9, <2>1, Kinds, GotoKeeps, LoadIsFinite DEF ReleaseCount, AboutToRelease
  <2>2. QED
    BY <1>9, <2>1, LeftOverQuiet DEF ReleaseCount, AboutToRelease
<1>10. CASE ReleaseFree(t0) \/ SwitchWrite(t0)
  <2>1. PICK d0 \in Drivers : d0 = task[t0].driver
    BY <1>10, Kinds DEF ReleaseFree, SwitchWrite, Releasing, Switching
  <2>2. /\ driverStatus'[d0] # "BUSY"
        /\ \A d \in Drivers \ {d0} : driverStatus'[d] = driverStatus[d]
        /\ UNCHANGED <<orderStatus, deliveryDriver>>
    BY <1>10, <2>1, Kinds DEF ReleaseFree, SwitchWrite, Switching, TypeOK
  <2>3. \A d \in Drivers \ {d0} : driverStatus[d] = "BUSY" => Carried(d) # {}
    BY <1>10, <2>1, LeftToTheCall DEF ReleaseFree, SwitchWrite, AboutToRelease
  <2>4. \A x \in Orders : orderStatus[x] = "READY_FOR_PICKUP" => deliveryDriver[x] = NoDriver
    BY <1>10, LeftToTheCall DEF ReleaseFree, SwitchWrite
  <2>5. \A d : Carried(d)' = Carried(d)
    BY <2>2 DEF Carried
  <2>6. PlacedByItsCall'
    BY <2>2, <2>4 DEF PlacedByItsCall
  <2>7. \A d \in Drivers : Minded(d)'
    BY <2>2, <2>3, <2>5 DEF Minded
  <2>8. QED
    BY <2>6, <2>7 DEF NothingLeftOver
<1>11. QED
  BY <1>1, <1>2, <1>3, <1>4, <1>5, <1>6, <1>7, <1>8, <1>9, <1>10 DEF Step, AssignStep, MoveStep

WatchedInv == TypeOK /\ SerialInv /\ NoWayBack /\ (died \/ NothingLeftOver)

LEMMA WatchedInvStep ==
  ASSUME NEW t0, Tasks = {t0}, WatchedInv, [WatchedNext]_watched
  PROVE  WatchedInv'
<1>1. [Next]_vars
  BY DEF WatchedNext, WatchedStep, watched, Next
<1>2. TypeOK' /\ SerialInv' /\ NoWayBack'
  BY <1>1, TypeStep, SerialStep, NoWayBackStep DEF WatchedInv
<1>3. died' \/ NothingLeftOver'
  <2>1. CASE died \/ died'
    BY <2>1 DEF WatchedNext, WatchedStep, watched
  <2>2. CASE ~ died /\ UNCHANGED vars
    BY <2>2 DEF WatchedInv, NothingLeftOver, PlacedByItsCall, Minded, AboutToRelease, Carried, vars
  <2>3. CASE ~ died /\ (Request(t0) \/ Step(t0))
    BY <1>2, <2>3, LeftOverStep DEF WatchedInv
  <2>4. QED
    BY <2>1, <2>2, <2>3 DEF WatchedNext, WatchedStep, watched
<1>4. QED
  BY <1>2, <1>3 DEF WatchedInv

(***************************************************************************)
(* With one call at a time, a BUSY driver who carries nothing is about to  *)
(* be released, as long as no call has died: only a death leaves a driver  *)
(* BUSY for good.                                                          *)
(***************************************************************************)
THEOREM SerialStranded ==
  ASSUME NEW CONSTANT t0, Tasks = {t0}
  PROVE  WatchedSpec => []StrandedOnlyByDeath
<1>1. WatchedInit => WatchedInv
  <2> SUFFICES ASSUME WatchedInit
               PROVE  WatchedInv
    OBVIOUS
  <2>1. TypeOK /\ SerialInv
    BY TypeInit, SerialInit DEF WatchedInit
  <2>2. NoWayBack /\ NothingLeftOver
    BY DEF WatchedInit, Init, NoWayBack, NothingLeftOver, PlacedByItsCall, Minded, Idle
  <2>3. QED
    BY <2>1, <2>2 DEF WatchedInv
<1>2. WatchedInv => StrandedOnlyByDeath
  BY LoadIsFinite DEF WatchedInv, NothingLeftOver, Minded, StrandedOnlyByDeath, NoDriverStranded
<1>3. WatchedInv /\ [WatchedNext]_watched => WatchedInv'
  BY WatchedInvStep
<1>4. QED
  BY <1>1, <1>2, <1>3, PTL DEF WatchedSpec

LEMMA SerialDriverStays ==
  ASSUME TypeOK, SerialInv, [Next]_vars, NEW o \in Orders, orderStatus[o] # "READY_FOR_PICKUP"
  PROVE  deliveryDriver'[o] = deliveryDriver[o]
<1>1. ASSUME NEW t \in Tasks, AssignPlace(t)
      PROVE  deliveryDriver'[o] = deliveryDriver[o]
  BY <1>1 DEF AssignPlace, SerialInv, CallFacts, TypeOK
<1>2. CASE UNCHANGED vars
  BY <1>2 DEF vars
<1>3. QED
  BY <1>1, <1>2 DEF Next, Request, Step, AssignStep, MoveStep, Assign, Move, Switch, AssignReadDriver,
     AssignCount, AssignIneligible, AssignCheck, AssignCommit, MoveCommit, ReleaseReadDelivery,
     ReleaseReadDriver, ReleaseCount, ReleaseFree, SwitchWrite, Fail, tables

(***************************************************************************)
(* With one call at a time, an order that has left READY_FOR_PICKUP keeps  *)
(* the driver its delivery was placed with.                                *)
(***************************************************************************)
THEOREM SerialKeepsOrder ==
  ASSUME NEW CONSTANT t0, Tasks = {t0}
  PROVE  Spec => DriverKeepsOrder
<1>1. TypeOK /\ SerialInv /\ [Next]_vars =>
        [\A o \in Orders :
           orderStatus[o] # "READY_FOR_PICKUP" => deliveryDriver'[o] = deliveryDriver[o]]_vars
  BY SerialDriverStays
<1>2. QED
  BY <1>1, SerialAlways, PTL DEF Spec, DriverKeepsOrder
=============================================================================
