------------------------------ MODULE Tickets ------------------------------
(***************************************************************************)
(* One support ticket (src/modules/support/support.service.ts): messages   *)
(* that open it again, agents who take it, and the status they set.        *)
(* addMessage and assignTicket compute the status they write from one they *)
(* read in an earlier statement; updateTicketStatus writes the one picked  *)
(* on a page that may show less of the thread than there is by then.       *)
(***************************************************************************)
EXTENDS Sequences, Requests

CONSTANT MaxThread  \* bound: messages, assignments and status changes in all

VARIABLES ticketStatus,
          thread,  \* what was committed, in order: messages, assignments, statuses set,
                   \* and how much of the thread was on the page that set the status
          agent    \* task -> where the request stands

ticketVars == <<ticketStatus, thread, agent>>

TicketStatus == {"OPEN", "IN_PROGRESS", "RESOLVED", "CLOSED"}

Closed == {"RESOLVED", "CLOSED"}

Entry == [what : {"message", "assigned"} \cup TicketStatus, seen : Nat]

AgentCalls ==
  [pc : {"message.read", "assign.read", "status.read"}, to : TicketStatus, seen : Nat]
  \cup [pc : {"message.write", "assign.write", "status.write"}, to : TicketStatus, seen : Nat,
        read : TicketStatus]

TicketTypeOK ==
  /\ ticketStatus \in TicketStatus
  /\ thread \in Seq(Entry) /\ Len(thread) <= MaxThread
  /\ agent \in [Tasks -> {Idle} \cup AgentCalls]

TicketInit ==
  /\ ticketStatus = "OPEN"
  /\ thread = <<>>
  /\ agent = [t \in Tasks |-> Idle]

\* The customer or an agent writes, takes the ticket, or picks a status from the list, on a
\* page drawn when the thread had `seen` entries.
Turn(t) ==
  /\ agent[t] = Idle
  /\ \E pc \in {"message.read", "assign.read", "status.read"}, to \in TicketStatus,
        seen \in 0 .. Len(thread) :
       /\ pc # "status.read" => to = "OPEN" /\ seen = 0
       /\ agent' = [agent EXCEPT ![t] = [pc |-> pc, to |-> to, seen |-> seen]]
  /\ UNCHANGED <<ticketStatus, thread>>

Reads(t, from, to) ==
  /\ agent[t].pc = from
  /\ agent' = [agent EXCEPT ![t] =
                 [pc |-> to, to |-> agent[t].to, seen |-> agent[t].seen, read |-> ticketStatus]]
  /\ UNCHANGED <<ticketStatus, thread>>

ReadTicket(t) ==
  \/ Reads(t, "message.read", "message.write")
  \/ Reads(t, "assign.read", "assign.write")
  \/ Reads(t, "status.read", "status.write")

\* One transaction each: the row, and the message or its AuditLog.
Writes(t, pc, what, status) ==
  /\ agent[t].pc = pc /\ Len(thread) < MaxThread
  /\ ticketStatus' = status
  /\ thread' = Append(thread, [what |-> what, seen |-> agent[t].seen])
  /\ agent' = Ends(agent, t)

\* Faulty variant: a message leaves the ticket closed.
StatusLeftAlone(read) == ticketStatus

\* A closed ticket is opened again; otherwise the update is empty.
StatusAfterMessage(read) == IF read \in Closed THEN "OPEN" ELSE ticketStatus

AddMessage(t) == Writes(t, "message.write", "message", StatusAfterMessage(agent[t].read))

AssignTicket(t) ==
  Writes(t, "assign.write", "assigned",
         IF agent[t].read = "OPEN" THEN "IN_PROGRESS" ELSE agent[t].read)

UpdateTicketStatus(t) == Writes(t, "status.write", agent[t].to, agent[t].to)

AgentFails(t) ==
  /\ agent[t] # Idle
  /\ agent' = Ends(agent, t)
  /\ UNCHANGED <<ticketStatus, thread>>

Messages == {i \in DOMAIN thread : thread[i].what = "message"}

\* A status was written since this request read one, or it closes the ticket over a message
\* that was not on the page it was picked on.
Overtaken(t) ==
  \/ agent[t].pc \in {"message.write", "assign.write"} /\ agent[t].read # ticketStatus
  \/ /\ agent[t].pc = "status.write" /\ agent[t].to \in Closed
     /\ \E m \in Messages : m > agent[t].seen

-----------------------------------------------------------------------------
(* The whole *)

TicketNext ==
  \E t \in Tasks :
    \/ Turn(t) \/ ReadTicket(t)
    \/ AddMessage(t) \/ AssignTicket(t) \/ UpdateTicketStatus(t) \/ AgentFails(t)

TicketSpec == TicketInit /\ [][TicketNext]_ticketVars

(***************************************************************************)
(* "Un message sur un ticket RESOLVED/CLOSED le rouvre automatiquement -   *)
(* sinon une reponse tardive du client [...] se perdrait silencieusement"  *)
(* (support.service.ts:76-79): a ticket is only closed when it was closed  *)
(* by somebody whose page showed every message there is.                   *)
(***************************************************************************)
MessagesAreHeard ==
  ticketStatus \in Closed =>
    \E i \in DOMAIN thread : thread[i].what \in Closed /\ \A m \in Messages : m <= thread[i].seen
=============================================================================
