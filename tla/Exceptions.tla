----------------------------- MODULE Exceptions -----------------------------
(***************************************************************************)
(* The exceptions of one order in the control tower                        *)
(* (src/modules/operations/exceptions.service.ts).  Every reading of the   *)
(* list sweeps: it reads what is wrong and what is open, opens what is     *)
(* missing one await after the other, and closes what has passed by id.    *)
(* Operators acknowledge and resolve, each after a check of its own, and   *)
(* the driver's SOS is opened beside them.  Severity and description, and  *)
(* their refresh, are left out: nothing depends on them.                   *)
(***************************************************************************)
EXTENDS Sequences, Requests

CONSTANTS Conditions,    \* AUTO_DETECTED_TYPES: what a sweep can find wrong
          MaxExceptions  \* bound: rows in all

DRIVER_SOS == "DRIVER_SOS"

ASSUME ConditionAssumption == DRIVER_SOS \notin Conditions

VARIABLES wrong,      \* the conditions that hold of the order now
          exceptions, \* the Exception rows, oldest first
          tower       \* task -> where the request stands

exceptionVars == <<wrong, exceptions, tower>>

ExceptionTypes == Conditions \cup {DRIVER_SOS}

\* resolution tells whose words the row holds.
ExceptionRows ==
  [type : ExceptionTypes, status : {"OPEN", "ACKNOWLEDGED", "RESOLVED"},
   resolution : {"none", "sweep", "operator"}]

Sweeping ==
  [pc : {"sweep.open", "sweep.upsert"},
   triggered : SUBSET Conditions, todo : SUBSET Conditions, open : SUBSET Nat]

Answering ==
  [pc : {"ack.read", "ack.write", "resolve.read", "resolve.write"}, exception : Nat]

ExceptionTypeOK ==
  /\ wrong \subseteq Conditions
  /\ exceptions \in Seq(ExceptionRows) /\ Len(exceptions) <= MaxExceptions
  /\ tower \in [Tasks -> {Idle} \cup Sweeping \cup Answering]

ExceptionInit ==
  /\ wrong = {}
  /\ exceptions = <<>>
  /\ tower = [t \in Tasks |-> Idle]

TowerAt(t, pc) == tower[t].pc = pc

\* The order grows late, fails again, or moves on.
OrderMovesOn ==
  /\ wrong' \in SUBSET Conditions
  /\ UNCHANGED <<exceptions, tower>>

NewException(type) == [type |-> type, status |-> "OPEN", resolution |-> "none"]

OpenExceptions == {e \in DOMAIN exceptions : exceptions[e].status # "RESOLVED"}

-----------------------------------------------------------------------------
(* detectAndSyncExceptions *)

\* Promise.all asks for orders and exceptions at once: the exceptions read may be as old
\* as the orders, or newer.
ReadOrders(t) ==
  /\ tower[t] = Idle
  /\ tower' = [tower EXCEPT ![t] =
       [pc |-> "sweep.open", triggered |-> wrong, todo |-> wrong, open |-> {}]]
  /\ UNCHANGED <<wrong, exceptions>>

\* An open exception of the type stands for the condition.
Known(types, open) == {c \in types : \E e \in open : exceptions[e].type = c}

ReadOpenExceptions(t) ==
  /\ TowerAt(t, "sweep.open")
  /\ tower' = [tower EXCEPT ![t] =
       [pc |-> "sweep.upsert", triggered |-> tower[t].triggered, open |-> OpenExceptions,
        todo |-> tower[t].todo \ Known(tower[t].todo, OpenExceptions)]]
  /\ UNCHANGED <<wrong, exceptions>>

CreateException(t) ==
  /\ TowerAt(t, "sweep.upsert") /\ Len(exceptions) < MaxExceptions
  /\ \E c \in tower[t].todo :
       /\ exceptions' = Append(exceptions, NewException(c))
       /\ tower' = [tower EXCEPT ![t].todo = tower[t].todo \ {c}]
  /\ UNCHANGED wrong

\* Faulty variant: everything the sweep did not find again is closed, an SOS too.
ToAutoResolveAll(t) == {e \in tower[t].open : exceptions[e].type \notin tower[t].triggered}

\* Only types the sweep detects are closed by it.
ToAutoResolve(t) ==
  {e \in tower[t].open : /\ exceptions[e].type \in Conditions
                         /\ exceptions[e].type \notin tower[t].triggered}

\* By id, whatever has become of the rows since they were read.
AutoResolve(t) ==
  /\ TowerAt(t, "sweep.upsert") /\ tower[t].todo = {}
  /\ exceptions' = [e \in DOMAIN exceptions |->
       IF e \in ToAutoResolve(t)
       THEN [exceptions[e] EXCEPT !.status = "RESOLVED", !.resolution = "sweep"]
       ELSE exceptions[e]]
  /\ tower' = Ends(tower, t)
  /\ UNCHANGED wrong

-----------------------------------------------------------------------------
(* triggerDriverSos, acknowledgeException, resolveException *)

TriggerDriverSos ==
  /\ Len(exceptions) < MaxExceptions
  /\ exceptions' = Append(exceptions, NewException(DRIVER_SOS))
  /\ UNCHANGED <<wrong, tower>>

Answer(t, e) ==
  /\ tower[t] = Idle
  /\ \E pc \in {"ack.read", "resolve.read"} :
       tower' = [tower EXCEPT ![t] = [pc |-> pc, exception |-> e]]
  /\ UNCHANGED <<wrong, exceptions>>

ReadForAck(t) ==
  /\ TowerAt(t, "ack.read")
  /\ tower' = IF exceptions[tower[t].exception].status = "OPEN"
              THEN Goto(tower, t, "ack.write") ELSE Ends(tower, t)
  /\ UNCHANGED <<wrong, exceptions>>

AcknowledgeException(t) ==
  /\ TowerAt(t, "ack.write")
  /\ exceptions' = [exceptions EXCEPT ![tower[t].exception].status = "ACKNOWLEDGED"]
  /\ tower' = Ends(tower, t)
  /\ UNCHANGED wrong

ReadForResolve(t) ==
  /\ TowerAt(t, "resolve.read")
  /\ tower' = IF exceptions[tower[t].exception].status # "RESOLVED"
              THEN Goto(tower, t, "resolve.write") ELSE Ends(tower, t)
  /\ UNCHANGED <<wrong, exceptions>>

ResolveException(t) ==
  /\ TowerAt(t, "resolve.write")
  /\ exceptions' = [exceptions EXCEPT ![tower[t].exception].status = "RESOLVED",
                                      ![tower[t].exception].resolution = "operator"]
  /\ tower' = Ends(tower, t)
  /\ UNCHANGED wrong

TowerFails(t) ==
  /\ tower[t] # Idle
  /\ tower' = Ends(tower, t)
  /\ UNCHANGED <<wrong, exceptions>>

-----------------------------------------------------------------------------
(* The whole *)

ExceptionNext ==
  \/ OrderMovesOn \/ TriggerDriverSos
  \/ \E t \in Tasks :
       \/ ReadOrders(t) \/ ReadOpenExceptions(t) \/ CreateException(t) \/ AutoResolve(t)
       \/ \E e \in DOMAIN exceptions : Answer(t, e)
       \/ ReadForAck(t) \/ AcknowledgeException(t)
       \/ ReadForResolve(t) \/ ResolveException(t) \/ TowerFails(t)

ExceptionSpec == ExceptionInit /\ [][ExceptionNext]_exceptionVars

(***************************************************************************)
(* An SOS is closed by an operator or not at all, although every sweep     *)
(* reads it among the open exceptions and finds it in no order: an SOS     *)
(* that reads RESOLVED, or holds words, has an operator's.                 *)
(***************************************************************************)
SosNeedsOperator ==
  \A e \in DOMAIN exceptions : exceptions[e].type = DRIVER_SOS =>
    /\ exceptions[e].resolution # "sweep"
    /\ exceptions[e].status = "RESOLVED" => exceptions[e].resolution = "operator"

(***************************************************************************)
(* One condition is open at most once per request that ran at once:        *)
(* sweeps that found nothing open both open it, and a late acknowledgement *)
(* opens again what was closed, but no later sweep adds to them.           *)
(***************************************************************************)
OpenPerRequest ==
  \A c \in Conditions :
    Cardinality({e \in OpenExceptions : exceptions[e].type = c})
      + Cardinality({t \in At(tower, "sweep.upsert") : c \in tower[t].todo}) <= Cardinality(Tasks)
=============================================================================
