------------------------ MODULE OrderLifecycleProofs ------------------------
(***************************************************************************)
(* Theorems about OrderLifecycle, for every set of orders and requests.    *)
(* Concurrent requests implement OrderLog (Refinement), so what OrderLog   *)
(* guarantees holds of them (Milestones); a single request at a time       *)
(* implements OrderAutomaton (SerialRefinement).                           *)
(***************************************************************************)
EXTENDS OrderLifecycle, TLAPS

-----------------------------------------------------------------------------
(* The table *)

LEMMA TransitionsWithinStatuses ==
  ASSUME NEW from \in OrderStatus, NEW to, canTransition(from, to)
  PROVE  to \in OrderStatus
BY DEF canTransition, ORDER_TRANSITIONS, OrderStatus, FAILURE_STATUSES, TERMINAL_STATUSES

\* OrderLog and OrderAutomaton are instances: their copies of the table are this one.
LEMMA LogTable ==
  /\ Log!OrderStatus = OrderStatus
  /\ \A from, to \in OrderStatus : Log!canTransition(from, to) <=> canTransition(from, to)
BY DEF Log!OrderStatus, OrderStatus, Log!canTransition, canTransition,
       Log!ORDER_TRANSITIONS, ORDER_TRANSITIONS, Log!FAILURE_STATUSES,
       FAILURE_STATUSES, Log!TERMINAL_STATUSES, TERMINAL_STATUSES

LEMMA AutomatonTable ==
  /\ Automaton!OrderStatus = OrderStatus
  /\ \A from, to \in OrderStatus : Automaton!canTransition(from, to) <=> canTransition(from, to)
BY DEF Automaton!OrderStatus, OrderStatus, Automaton!canTransition, canTransition,
       Automaton!ORDER_TRANSITIONS, ORDER_TRANSITIONS, Automaton!FAILURE_STATUSES,
       FAILURE_STATUSES, Automaton!TERMINAL_STATUSES, TERMINAL_STATUSES

LEMMA MilestoneWithinStatuses ==
  ASSUME NEW s \in OrderStatus
  PROVE  Log!Milestone[s] \in OrderStatus
BY DEF Log!Milestone, Log!OrderStatus, OrderStatus

\* The milestone of a successor is never new: it is the start of the edge, or
\* one of the milestones on the way to it.
LEMMA EdgeMilestone ==
  ASSUME NEW from \in OrderStatus, NEW to \in OrderStatus, canTransition(from, to)
  PROVE  Log!Milestone[to] \in {"PENDING", from, Log!Milestone[from],
                                Log!Milestone[Log!Milestone[from]]}
<1>1. to \in ORDER_TRANSITIONS[from]
  BY DEF canTransition
<1>2. CASE from \in {"PENDING", "CONFIRMED", "READY_FOR_PICKUP", "ASSIGNED", "PICKED_UP", "IN_TRANSIT"}
  BY <1>1, <1>2 DEF ORDER_TRANSITIONS, Log!Milestone, Log!OrderStatus, OrderStatus
<1>3. CASE from \in {"OUT_FOR_DELIVERY", "RESCHEDULED"} \cup FAILURE_STATUSES \cup TERMINAL_STATUSES
  BY <1>1, <1>3 DEF ORDER_TRANSITIONS, Log!Milestone, Log!OrderStatus, OrderStatus,
                    FAILURE_STATUSES, TERMINAL_STATUSES
<1>4. QED
  BY <1>2, <1>3 DEF OrderStatus, FAILURE_STATUSES, TERMINAL_STATUSES

\* A transition raises at most three events, each of them a known one.
LEMMA RaisedEvents ==
  ASSUME NEW to \in OrderStatus
  PROVE  /\ Len(getDomainEventsForTransition(to)) \in 0 .. 3
         /\ \A n \in 1 .. Len(getDomainEventsForTransition(to)) :
              getDomainEventsForTransition(to)[n] \in EventName
<1>1. CASE to \in {"PENDING", "READY_FOR_PICKUP", "PICKED_UP", "IN_TRANSIT", "RESCHEDULED"}
  <2>1. getDomainEventsForTransition(to) = <<>>
    BY <1>1 DEF getDomainEventsForTransition
  <2>2. QED
    BY <2>1
<1>2. CASE to \in {"CONFIRMED", "ASSIGNED", "CUSTOMER_REFUSED"}
  <2>1. \E e \in EventName : getDomainEventsForTransition(to) = <<e>>
    BY <1>2 DEF getDomainEventsForTransition, EventName
  <2>2. QED
    BY <2>1
<1>3. CASE to \in {"OUT_FOR_DELIVERY", "DELIVERED", "CUSTOMER_ABSENT", "WRONG_ADDRESS", "CANCELLED"}
  <2>1. \E e1, e2 \in EventName : getDomainEventsForTransition(to) = <<e1, e2>>
    BY <1>3 DEF getDomainEventsForTransition, EventName
  <2>2. QED
    BY <2>1
<1>4. CASE to = "RETURNED"
  <2>1. getDomainEventsForTransition(to) =
          <<"ORDER_RETURNED", "NOTIFY_SUPPLIER", "COMPENSATE_DRIVER_FAILED_ATTEMPT">>
    BY <1>4 DEF getDomainEventsForTransition
  <2>2. QED
    BY <2>1 DEF EventName
<1>5. QED
  BY <1>1, <1>2, <1>3, <1>4 DEF OrderStatus
-----------------------------------------------------------------------------
(* Types *)

\* What a request tells when it dispatches an event is a message.
LEMMA DispatchIsTyped ==
  ASSUME TypeOK, NEW r \in Requests, Dispatch(r)
  PROVE  TypeOK'
<1> DEFINE events == getDomainEventsForTransition(req[r].to)
           n == req[r].next + 1
<1>1. req[r] \in Committed
  BY DEF Dispatch, TypeOK, Idle, InTransaction
<1>2. n \in 1 .. Len(events) /\ Len(events) \in 0 .. 3
  BY <1>1, RaisedEvents DEF Dispatch, Committed
<1>3. events[n] \in EventName
  BY <1>1, <1>2, RaisedEvents DEF Committed
<1>4. req'[r] \in Committed
  BY <1>1, <1>2 DEF Dispatch, Committed, TypeOK
<1>5. wire' \in Message
  BY <1>1, <1>3 DEF Dispatch, Committed, Message, TypeOK
<1>6. QED
  BY <1>4, <1>5 DEF Dispatch, TypeOK

\* The row that a commit adds is made of the two statuses the request has read and wants.
LEMMA CommitIsTyped ==
  ASSUME TypeOK, NEW r \in Requests, Commit(r)
  PROVE  TypeOK'
<1>1. req[r] \in InTransaction
  BY DEF Commit, TypeOK, Idle, Committed
<1>2. [from |-> req[r].read, to |-> req[r].to] \in Log!Row
  BY <1>1, LogTable DEF InTransaction, Log!Row
<1>3. QED
  BY <1>1, <1>2 DEF Commit, InTransaction, Committed, TypeOK

THEOREM TypeCorrect == Spec => []TypeOK
<1>1. Init => TypeOK
  BY DEF Init, TypeOK, Log!Row, Log!Created, Log!None, Log!OrderStatus, OrderStatus
<1>2. ASSUME TypeOK, NEW r \in Requests, NEW o \in Orders, NEW to \in Targets, Begin(r, o, to)
      PROVE  TypeOK'
  BY <1>2, OrderLifecycleAssumption DEF Begin, InTransaction, TypeOK
<1>3. ASSUME TypeOK, NEW r \in Requests, Return(r) \/ Fail(r)
      PROVE  TypeOK'
  BY <1>3 DEF Return, Fail, TypeOK
<1>4. ASSUME TypeOK, UNCHANGED vars
      PROVE  TypeOK'
  BY <1>4 DEF vars, TypeOK
<1>5. TypeOK /\ [Next]_vars => TypeOK'
  BY <1>2, <1>3, <1>4, CommitIsTyped, DispatchIsTyped DEF Next, Step
<1>6. QED
  BY <1>1, <1>5, PTL DEF Spec

-----------------------------------------------------------------------------
(***************************************************************************)
(* The inductive invariant.  What a request has read and checked stays     *)
(* true of the LOG, although it may no longer be true of the status: the   *)
(* status read is recorded, and the edge it checked is an edge.            *)
(***************************************************************************)
StatusRecorded == \A o \in Orders : status[o] \in Log!Recorded(o)

RequestsBacked ==
  \A r \in Requests :
    /\ req[r].pc = "read" =>
         /\ req[r].read \in Log!Recorded(req[r].order)
         /\ canTransition(req[r].read, req[r].to)
    /\ req[r].pc = "events" => req[r].to \in Log!Recorded(req[r].order)

LifecycleInv == TypeOK /\ StatusRecorded /\ RequestsBacked

LEMMA InitInv == Init => LifecycleInv
<1> SUFFICES ASSUME Init PROVE LifecycleInv
  OBVIOUS
<1>1. TypeOK
  BY DEF Init, TypeOK, Log!Row, Log!Created, Log!None, Log!OrderStatus, OrderStatus
<1>2. StatusRecorded
  BY DEF Init, StatusRecorded, Log!Recorded, Log!Created
<1>3. RequestsBacked
  BY DEF Init, RequestsBacked, Idle
<1>4. QED
  BY <1>1, <1>2, <1>3 DEF LifecycleInv

\* A log only grows, so what is recorded stays recorded.
LEMMA RecordedGrows ==
  ASSUME TypeOK, TypeOK', NEW r \in Requests, NEW o \in Orders, Commit(r)
  PROVE  /\ Log!Recorded(o) \subseteq Log!Recorded(o)'
         /\ o = req[r].order => Log!Recorded(o)' = Log!Recorded(o) \cup {req[r].to}
         /\ o # req[r].order => Log!Recorded(o)' = Log!Recorded(o)
<1>1. req[r] \in InTransaction
  BY DEF TypeOK, Commit, Idle, Committed
<1>2. history' = [history EXCEPT ![req[r].order] =
                    @ \cup {[from |-> req[r].read, to |-> req[r].to]}]
  BY DEF Commit
<1>3. CASE o = req[r].order
  <2>1. history'[o] = history[o] \cup {[from |-> req[r].read, to |-> req[r].to]}
    BY <1>2, <1>3 DEF TypeOK
  <2> DEFINE x == [from |-> req[r].read, to |-> req[r].to]
  <2>2. history'[o] = history[o] \cup {x} /\ x.to = req[r].to
    BY <2>1
  <2> HIDE DEF x
  <2>3. ASSUME NEW s
        PROVE  s \in Log!Recorded(o)' <=> s \in Log!Recorded(o) \cup {x.to}
    BY <2>2 DEF Log!Recorded
  <2>4. Log!Recorded(o)' = Log!Recorded(o) \cup {x.to}
    BY <2>3
  <2>5. QED
    BY <1>3, <2>2, <2>4
<1>4. CASE o # req[r].order
  <2>1. history'[o] = history[o]
    BY <1>2, <1>4 DEF TypeOK
  <2>2. QED
    BY <1>4, <2>1 DEF Log!Recorded
<1>5. QED
  BY <1>3, <1>4

\* Each step keeps the invariant, and is a step of OrderLog or leaves the log
\* alone.
LEMMA StepInv ==
  ASSUME LifecycleInv, TypeOK', [Next]_vars
  PROVE  LifecycleInv' /\ [Log!Next]_Log!logVars
<1> USE DEF LifecycleInv
<1>1. ASSUME NEW r \in Requests, NEW o \in Orders, NEW to \in Targets, Begin(r, o, to)
      PROVE  LifecycleInv' /\ [Log!Next]_Log!logVars
  <2>1. UNCHANGED <<status, history>>
    BY <1>1 DEF Begin
  <2>2. \A p \in Orders : Log!Recorded(p)' = Log!Recorded(p)
    BY <2>1 DEF Log!Recorded
  <2>3. StatusRecorded'
    BY <2>1, <2>2 DEF StatusRecorded
  <2>4. \A q \in Requests : q # r => req'[q] = req[q]
    BY <1>1 DEF Begin, TypeOK
  <2>5. req'[r] = [pc |-> "read", order |-> o, to |-> to, read |-> status[o]]
    BY <1>1 DEF Begin, TypeOK
  <2>6. status[o] \in Log!Recorded(o)' /\ canTransition(status[o], to)
    BY <1>1, <2>2 DEF StatusRecorded, Begin
  <2>7. RequestsBacked'
    <3> SUFFICES ASSUME NEW q \in Requests
                 PROVE  /\ req'[q].pc = "read" =>
                             /\ req'[q].read \in Log!Recorded(req[q].order)'
                             /\ canTransition(req'[q].read, req'[q].to)
                        /\ req'[q].pc = "events" => req'[q].to \in Log!Recorded(req[q].order)'
      BY DEF RequestsBacked
    <3>1. CASE q = r
      BY <3>1, <2>5, <2>6
    <3>2. CASE q # r
      <4>1. req[q] = Idle \/ req[q].order \in Orders
        BY DEF TypeOK, InTransaction, Committed
      <4>2. QED
        BY <3>2, <4>1, <2>2, <2>4 DEF RequestsBacked, Idle
    <3>3. QED
      BY <3>1, <3>2
  <2>8. QED
    BY <2>1, <2>3, <2>7 DEF Log!logVars
<1>2. ASSUME NEW r \in Requests, Commit(r)
      PROVE  LifecycleInv' /\ [Log!Next]_Log!logVars
  <2>1. req[r] \in InTransaction
    BY <1>2 DEF Commit, TypeOK, Idle, Committed
  <2>2. PICK o \in Orders, to \in OrderStatus, from \in OrderStatus :
          o = req[r].order /\ to = req[r].to /\ from = req[r].read
    BY <2>1 DEF InTransaction
  <2>3. from \in Log!Recorded(o) /\ canTransition(from, to)
    BY <1>2, <2>2 DEF RequestsBacked, Commit
  <2>4. Log!Record(o, from, to)
    BY <1>2, <2>2, <2>3, LogTable DEF Log!Record, Commit
  <2>5. Log!Next
    BY <2>2, <2>4, LogTable DEF Log!Next
  <2>6. \A p \in Orders : Log!Recorded(p) \subseteq Log!Recorded(p)'
    BY <1>2, RecordedGrows
  <2>7. to \in Log!Recorded(o)'
    BY <1>2, <2>2, RecordedGrows
  <2>8. StatusRecorded'
    <3> SUFFICES ASSUME NEW p \in Orders PROVE status'[p] \in Log!Recorded(p)'
      BY DEF StatusRecorded
    <3>1. CASE p = o
      BY <1>2, <2>2, <2>7, <3>1 DEF Commit, TypeOK
    <3>2. CASE p # o
      BY <1>2, <2>2, <2>6, <3>2 DEF Commit, TypeOK, StatusRecorded
    <3>3. QED
      BY <3>1, <3>2
  <2>9. RequestsBacked'
    <3> SUFFICES ASSUME NEW q \in Requests
                 PROVE  /\ req'[q].pc = "read" =>
                             /\ req'[q].read \in Log!Recorded(req[q].order)'
                             /\ canTransition(req'[q].read, req'[q].to)
                        /\ req'[q].pc = "events" => req'[q].to \in Log!Recorded(req[q].order)'
      BY DEF RequestsBacked
    <3>1. CASE q = r
      <4>1. req'[r] = [pc |-> "events", order |-> o, to |-> to, next |-> 0]
        BY <1>2, <2>2 DEF Commit, TypeOK
      <4>2. QED
        BY <3>1, <4>1, <2>7
    <3>2. CASE q # r
      <4>1. req'[q] = req[q]
        BY <1>2, <3>2 DEF Commit, TypeOK
      <4>2. req[q] = Idle \/ req[q].order \in Orders
        BY DEF TypeOK, InTransaction, Committed
      <4>3. QED
        BY <4>1, <4>2, <2>6 DEF RequestsBacked, Idle
    <3>3. QED
      BY <3>1, <3>2
  <2>10. QED
    BY <2>5, <2>8, <2>9
<1>3. ASSUME NEW r \in Requests, Dispatch(r) \/ Return(r) \/ Fail(r)
      PROVE  LifecycleInv' /\ [Log!Next]_Log!logVars
  <2>1. UNCHANGED <<status, history>>
    BY <1>3 DEF Dispatch, Return, Fail
  <2>2. \A p \in Orders : Log!Recorded(p)' = Log!Recorded(p)
    BY <2>1 DEF Log!Recorded
  <2>3. StatusRecorded'
    BY <2>1, <2>2 DEF StatusRecorded
  <2>4. \A q \in Requests :
          \/ req'[q] = req[q]
          \/ req'[q] = Idle
          \/ /\ req[q] \in Committed /\ req'[q] \in Committed
             /\ req'[q].order = req[q].order /\ req'[q].to = req[q].to
    <3> SUFFICES ASSUME NEW q \in Requests, q = r
                 PROVE  \/ req'[q] = Idle
                        \/ /\ req[q] \in Committed /\ req'[q] \in Committed
                           /\ req'[q].order = req[q].order /\ req'[q].to = req[q].to
      BY <1>3 DEF Dispatch, Return, Fail, TypeOK
    <3>1. CASE Dispatch(r)
      <4>1. req[r] \in Committed
        BY <3>1 DEF Dispatch, TypeOK, Idle, InTransaction
      <4>2. req'[r] = [req[r] EXCEPT !.next = req[r].next + 1]
        BY <3>1 DEF Dispatch, TypeOK
      <4>3. req'[r].pc = "events"
        BY <4>1, <4>2 DEF Committed
      <4>4. req'[r] \in Committed
        BY <4>3 DEF TypeOK, Idle, InTransaction
      <4>5. QED
        BY <4>1, <4>2, <4>4 DEF Committed
    <3>2. CASE Return(r) \/ Fail(r)
      BY <3>2 DEF Return, Fail, TypeOK
    <3>3. QED
      BY <1>3, <3>1, <3>2
  <2>5. RequestsBacked'
    <3> SUFFICES ASSUME NEW q \in Requests
                 PROVE  /\ req'[q].pc = "read" =>
                             /\ req'[q].read \in Log!Recorded(req[q].order)'
                             /\ canTransition(req'[q].read, req'[q].to)
                        /\ req'[q].pc = "events" => req'[q].to \in Log!Recorded(req[q].order)'
      BY DEF RequestsBacked
    <3>1. req[q] = Idle \/ req[q].order \in Orders
      BY DEF TypeOK, InTransaction, Committed
    <3>2. CASE req'[q] = req[q]
      BY <3>1, <3>2, <2>2 DEF RequestsBacked, Idle
    <3>3. CASE req'[q] = Idle
      BY <3>3 DEF Idle
    <3>4. CASE /\ req[q] \in Committed /\ req'[q] \in Committed
               /\ req'[q].order = req[q].order /\ req'[q].to = req[q].to
      <4>1. req[q].pc = "events" /\ req'[q].pc = "events" /\ req[q].order \in Orders
        BY <3>4 DEF Committed
      <4>2. QED
        BY <3>4, <4>1, <2>2 DEF RequestsBacked
    <3>5. QED
      BY <2>4, <3>2, <3>3, <3>4
  <2>6. QED
    BY <2>1, <2>3, <2>5 DEF Log!logVars
<1>4. CASE UNCHANGED vars
  <2>1. UNCHANGED <<status, history, req>>
    BY <1>4 DEF vars
  <2>2. QED
    BY <2>1 DEF StatusRecorded, RequestsBacked, Log!Recorded, Log!logVars
<1>5. QED
  BY <1>1, <1>2, <1>3, <1>4 DEF Next, Step

-----------------------------------------------------------------------------
(***************************************************************************)
(* Whatever the interleaving, the stale reads and the deaths of requests,  *)
(* transitionOrderStatus implements the log of OrderLog.                   *)
(***************************************************************************)
THEOREM Refinement == Spec => ImplementsLog
<1>1. Init => LifecycleInv /\ Log!Init
  <2>1. Init => Log!Init
    BY DEF Init, Log!Init
  <2>2. QED
    BY <2>1, InitInv
<1>2. LifecycleInv /\ TypeOK' /\ [Next]_vars => LifecycleInv' /\ [Log!Next]_Log!logVars
  BY StepInv
<1>3. QED
  BY <1>1, <1>2, TypeCorrect, PTL DEF Spec, ImplementsLog, Log!Spec

\* OrderLog skips no milestone: by EdgeMilestone the milestone of the status it
\* adds is recorded already.
MilestoneInv ==
  /\ \A o \in Orders : "PENDING" \in Log!Recorded(o)
  /\ MilestonesRecorded

LEMMA MilestoneStep ==
  ASSUME TypeOK, MilestoneInv, [Log!Next]_Log!logVars
  PROVE  MilestoneInv'
<1> USE DEF MilestoneInv, MilestonesRecorded, Log!MilestonesRecorded
<1>1. ASSUME NEW o \in Orders, NEW from \in OrderStatus, NEW to \in OrderStatus,
             Log!Record(o, from, to)
      PROVE  MilestoneInv'
  <2> DEFINE x == [from |-> from, to |-> to]
  <2>1. history'[o] = history[o] \cup {x} /\ x.to = to
    BY <1>1 DEF Log!Record, TypeOK
  <2> HIDE DEF x
  <2>2. \A s : s \in Log!Recorded(o)' <=> s \in Log!Recorded(o) \/ s = to
    BY <2>1 DEF Log!Recorded
  <2>3. ASSUME NEW p \in Orders, p # o
        PROVE  Log!Recorded(p)' = Log!Recorded(p) /\ status'[p] = status[p]
    BY <1>1, <2>3 DEF Log!Record, Log!Recorded, TypeOK
  <2>4. canTransition(from, to) /\ from \in Log!Recorded(o)
    BY <1>1, LogTable DEF Log!Record
  <2>5. Log!Milestone[to] \in Log!Recorded(o)
    BY <2>4, EdgeMilestone
  <2>6. status'[o] = to
    BY <1>1 DEF Log!Record, TypeOK
  <2>7. ASSUME NEW p \in Orders
        PROVE  /\ "PENDING" \in Log!Recorded(p)'
               /\ status'[p] \in Log!Recorded(p)'
               /\ \A s \in Log!Recorded(p)' : Log!Milestone[s] \in Log!Recorded(p)'
    <3>1. CASE p = o
      BY <3>1, <2>2, <2>5, <2>6
    <3>2. CASE p # o
      BY <3>2, <2>3
    <3>3. QED
      BY <3>1, <3>2
  <2>8. QED
    BY <2>7
<1>2. CASE UNCHANGED Log!logVars
  <2>1. UNCHANGED <<status, history>>
    BY <1>2 DEF Log!logVars
  <2>2. \A o \in Orders : Log!Recorded(o)' = Log!Recorded(o)
    BY <2>1 DEF Log!Recorded
  <2>3. QED
    BY <2>1, <2>2
<1>3. QED
  BY <1>1, <1>2, LogTable DEF Log!Next

(***************************************************************************)
(* No order is ever recorded in a status, DELIVERED or RETURNED say,       *)
(* without a row for each status every path to it goes through.            *)
(***************************************************************************)
THEOREM Milestones == Spec => []MilestonesRecorded
<1>1. Init => MilestoneInv
  <2> SUFFICES ASSUME Init PROVE MilestoneInv
    OBVIOUS
  <2>1. \A o \in Orders : Log!Recorded(o) = {"PENDING"} /\ status[o] = "PENDING"
    BY DEF Init, Log!Recorded, Log!Created
  <2>2. Log!Milestone["PENDING"] = "PENDING"
    BY DEF Log!Milestone, Log!OrderStatus
  <2>3. QED
    BY <2>1, <2>2 DEF MilestoneInv, MilestonesRecorded, Log!MilestonesRecorded
<1>2. TypeOK /\ MilestoneInv /\ [Log!Next]_Log!logVars => MilestoneInv'
  BY MilestoneStep
<1>3. MilestoneInv => MilestonesRecorded
  BY DEF MilestoneInv
<1>4. QED
  BY <1>1, <1>2, <1>3, TypeCorrect, Refinement, PTL DEF Spec, ImplementsLog, Log!Spec

-----------------------------------------------------------------------------
(***************************************************************************)
(* An event is only ever handled after the commit it is about, and tells a *)
(* status the order has really been recorded in.                           *)
(***************************************************************************)
LEMMA WireStep ==
  ASSUME LifecycleInv, MessagesFollowCommit, TypeOK', [Next]_vars
  PROVE  MessagesFollowCommit'
<1> USE DEF LifecycleInv
<1>1. ASSUME NEW r \in Requests,
             \/ \E o \in Orders, to \in Targets : Begin(r, o, to)
             \/ Commit(r) \/ Return(r) \/ Fail(r)
      PROVE  MessagesFollowCommit'
  BY <1>1 DEF Begin, Commit, Return, Fail, MessagesFollowCommit
<1>2. ASSUME NEW r \in Requests, Dispatch(r)
      PROVE  MessagesFollowCommit'
  <2>1. req[r] \in Committed
    BY <1>2 DEF Dispatch, TypeOK, Idle, InTransaction
  <2>2. PICK o \in Orders, to \in OrderStatus, n \in Nat :
          o = req[r].order /\ to = req[r].to /\ n = req[r].next + 1
    BY <2>1 DEF Committed
  <2>3. Log!Recorded(o)' = Log!Recorded(o)
    BY <1>2 DEF Dispatch, Log!Recorded
  <2>4. to \in Log!Recorded(o) /\ status[o] \in Log!Recorded(o)
    BY <2>1, <2>2 DEF RequestsBacked, StatusRecorded, Committed
  <2>5. wire'.order = o /\ wire'.status \in {status[o], to}
    BY <1>2, <2>2 DEF Dispatch
  <2>6. n \in 1 .. Len(getDomainEventsForTransition(to))
    BY <1>2, <2>1, <2>2, RaisedEvents DEF Dispatch, Committed
  <2>7. wire'.event \in RaisedBy(to)
    BY <1>2, <2>2, <2>6 DEF Dispatch, RaisedBy
  <2>8. QED
    BY <2>3, <2>4, <2>5, <2>7 DEF MessagesFollowCommit
<1>3. CASE UNCHANGED vars
  BY <1>3 DEF vars, MessagesFollowCommit, Log!Recorded
<1>4. QED
  BY <1>1, <1>2, <1>3 DEF Next, Step

THEOREM EffectsFollowCommit == Spec => []MessagesFollowCommit
<1>1. Init => LifecycleInv /\ MessagesFollowCommit
  <2>1. Init => MessagesFollowCommit
    BY DEF Init, MessagesFollowCommit
  <2>2. QED
    BY <2>1, InitInv
<1>2. LifecycleInv /\ MessagesFollowCommit /\ TypeOK' /\ [Next]_vars
        => LifecycleInv' /\ MessagesFollowCommit'
  BY StepInv, WireStep
<1>3. QED
  BY <1>1, <1>2, TypeCorrect, PTL DEF Spec

-----------------------------------------------------------------------------
(***************************************************************************)
(* With a single request at a time no read is stale, so the status walks   *)
(* the state machine and its terminal statuses are final.                  *)
(***************************************************************************)
ReadIsFresh ==
  \A r \in Requests : req[r].pc = "read" =>
    /\ status[req[r].order] = req[r].read
    /\ canTransition(req[r].read, req[r].to)

THEOREM SerialRefinement ==
  ASSUME NEW r0, Requests = {r0}
  PROVE  Spec => ImplementsAutomaton
<1>1. Init => ReadIsFresh /\ Automaton!Init
  BY DEF Init, ReadIsFresh, Idle, Automaton!Init
<1>2. TypeOK /\ ReadIsFresh /\ [Next]_vars => ReadIsFresh' /\ [Automaton!Next]_status
  <2> SUFFICES ASSUME TypeOK, ReadIsFresh, [Next]_vars
               PROVE  ReadIsFresh' /\ [Automaton!Next]_status
    OBVIOUS
  <2>1. ASSUME NEW r \in Requests, NEW o \in Orders, NEW to \in Targets, Begin(r, o, to)
        PROVE  ReadIsFresh' /\ UNCHANGED status
    BY <2>1 DEF Begin, ReadIsFresh, TypeOK
  <2>2. ASSUME NEW r \in Requests, Commit(r)
        PROVE  ReadIsFresh' /\ Automaton!Next
    <3>1. req[r] \in InTransaction
      BY <2>2 DEF Commit, TypeOK, Idle, Committed
    <3>2. PICK o \in Orders, to \in OrderStatus : o = req[r].order /\ to = req[r].to
      BY <3>1 DEF InTransaction
    <3>3. canTransition(status[o], to) /\ status[o] \in OrderStatus
      BY <2>2, <3>2 DEF ReadIsFresh, Commit, TypeOK
    <3>4. Automaton!Move(o, to)
      BY <2>2, <3>2, <3>3, AutomatonTable DEF Automaton!Move, Commit
    <3>5. ReadIsFresh'
      BY <2>2 DEF Commit, ReadIsFresh, TypeOK
    <3>6. QED
      BY <3>2, <3>4, <3>5, AutomatonTable DEF Automaton!Next
  <2>3. ASSUME NEW r \in Requests, Dispatch(r) \/ Return(r) \/ Fail(r)
        PROVE  ReadIsFresh' /\ UNCHANGED status
    <3>1. Dispatch(r) => req[r] \in Committed
      BY DEF Dispatch, TypeOK, Idle, InTransaction
    <3>2. req'[r].pc # "read"
      BY <2>3, <3>1 DEF Dispatch, Return, Fail, Idle, TypeOK, Committed
    <3>3. QED
      BY <2>3, <3>2 DEF ReadIsFresh, Dispatch, Return, Fail
  <2>4. CASE UNCHANGED vars
    BY <2>4 DEF vars, ReadIsFresh
  <2>5. QED
    BY <2>1, <2>2, <2>3, <2>4 DEF Next, Step
<1>3. QED
  BY <1>1, <1>2, TypeCorrect, PTL DEF Spec, ImplementsAutomaton, Automaton!Spec

\* With a single request the order stands where its last commit has put it until
\* every event of that commit has been dispatched.
CommitIsCurrent ==
  \A r \in Requests : req[r].pc = "events" => status[req[r].order] = req[r].to

LEMMA NotificationStep ==
  ASSUME TypeOK, CommitIsCurrent, NotificationsTellTransition, [Next]_vars,
         NEW r0, Requests = {r0}
  PROVE  CommitIsCurrent' /\ NotificationsTellTransition'
<1>1. ASSUME NEW r \in Requests, NEW o \in Orders, NEW to \in Targets, Begin(r, o, to)
      PROVE  CommitIsCurrent' /\ wire' = Silence
  BY <1>1 DEF Begin, CommitIsCurrent, TypeOK
<1>2. ASSUME NEW r \in Requests, Commit(r)
      PROVE  CommitIsCurrent' /\ wire' = Silence
  <2>1. req[r] \in InTransaction
    BY <1>2 DEF Commit, TypeOK, Idle, Committed
  <2>2. PICK o \in Orders, to \in OrderStatus : o = req[r].order /\ to = req[r].to
    BY <2>1 DEF InTransaction
  <2>3. status'[o] = to /\ req'[r].order = o /\ req'[r].to = to /\ wire' = Silence
    BY <1>2, <2>2 DEF Commit, TypeOK
  <2>4. QED
    BY <2>3 DEF CommitIsCurrent
<1>3. ASSUME NEW r \in Requests, Dispatch(r)
      PROVE  CommitIsCurrent' /\ NotificationsTellTransition'
  <2>1. req[r] \in Committed
    BY <1>3 DEF Dispatch, TypeOK, Idle, InTransaction
  <2>2. PICK to \in OrderStatus, n \in Nat : to = req[r].to /\ n = req[r].next + 1
    BY <2>1 DEF Committed
  <2>3. status[req[r].order] = to
    BY <2>1, <2>2 DEF CommitIsCurrent, Committed
  <2>4. n \in 1 .. Len(getDomainEventsForTransition(to))
    BY <1>3, <2>1, <2>2, RaisedEvents DEF Dispatch, Committed
  <2>5. wire'.status = to /\ wire'.event \in RaisedBy(to)
    BY <1>3, <2>2, <2>3, <2>4 DEF Dispatch, RaisedBy
  <2>6. req'[r].order = req[r].order /\ req'[r].to = req[r].to /\ UNCHANGED status
    <3>1. req'[r] = [req[r] EXCEPT !.next = n]
      BY <1>3, <2>2 DEF Dispatch, TypeOK
    <3>2. QED
      BY <1>3, <2>1, <3>1 DEF Dispatch, Committed
  <2>7. CommitIsCurrent'
    BY <2>2, <2>3, <2>6 DEF CommitIsCurrent
  <2>8. QED
    BY <2>5, <2>7 DEF NotificationsTellTransition
<1>4. ASSUME NEW r \in Requests, Return(r) \/ Fail(r)
      PROVE  CommitIsCurrent' /\ wire' = Silence
  <2>1. req'[r] = Idle /\ wire' = Silence
    BY <1>4 DEF Return, Fail, TypeOK
  <2>2. QED
    BY <2>1 DEF CommitIsCurrent, Idle
<1>5. CASE UNCHANGED vars
  BY <1>5 DEF vars, CommitIsCurrent, NotificationsTellTransition, RaisedBy
<1>6. QED
  BY <1>1, <1>2, <1>3, <1>4, <1>5 DEF Next, Step, NotificationsTellTransition

(***************************************************************************)
(* With a single request at a time, even if it dies half-way, what a       *)
(* notification handler loads again is the status of the transition that   *)
(* raised it.                                                              *)
(***************************************************************************)
THEOREM SerialNotifications ==
  ASSUME NEW r0, Requests = {r0}
  PROVE  Spec => []NotificationsTellTransition
<1>1. Init => CommitIsCurrent /\ NotificationsTellTransition
  BY DEF Init, CommitIsCurrent, NotificationsTellTransition, Idle
<1>2. TypeOK /\ CommitIsCurrent /\ NotificationsTellTransition /\ [Next]_vars
        => CommitIsCurrent' /\ NotificationsTellTransition'
  BY NotificationStep
<1>3. QED
  BY <1>1, <1>2, TypeCorrect, PTL DEF Spec
=============================================================================
