------------------------------ MODULE Requests ------------------------------
(***************************************************************************)
(* What the services that keep one small table each have in common: a      *)
(* request is a task, idle or at the await its pc names, and other requests *)
(* move while it waits.  A request that throws or dies between two awaits  *)
(* is simply idle again: these services clean nothing up.                  *)
(***************************************************************************)
EXTENDS Integers, FiniteSets

CONSTANT Tasks  \* requests the server runs at once

ASSUME TasksAssumption == IsFiniteSet(Tasks)

Idle == [pc |-> "idle"]

\* The task table with t at another await.
Goto(task, t, pc) == [task EXCEPT ![t].pc = pc]

\* The task table with the request of t over, answered or broken off.
Ends(task, t) == [task EXCEPT ![t] = Idle]

At(task, pc) == {t \in Tasks : task[t].pc = pc}
=============================================================================
