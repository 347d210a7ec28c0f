--------------------------- MODULE CreationWatched ---------------------------
(***************************************************************************)
(* Creation with two histories that tell when a promise no longer binds:   *)
(* the keys whose answer could not be stored, and those whose request died *)
(* or could not give them back.                                            *)
(***************************************************************************)
EXTENDS Creation

VARIABLES unstored, abandoned

watched == <<vars, unstored, abandoned>>

WatchedInit == Init /\ unstored = {} /\ abandoned = {}

WatchedThrow(t) ==
  /\ Throw(t)
  /\ unstored' = unstored \cup (IF task[t].pc = "store" THEN {task[t].form} ELSE {})
  /\ abandoned' = abandoned \cup (IF task[t].pc = "release" THEN {task[t].form} ELSE {})

WatchedDie(t) ==
  /\ Die(t)
  /\ abandoned' = abandoned \cup
                    (IF task[t].pc \in {"reserve", "replay"} THEN {} ELSE {task[t].form})
  /\ UNCHANGED unstored

WatchedNext ==
  \/ /\ \/ \E f \in Forms : GiveUp(f) \/ \E t \in Tasks : Submit(f, t)
        \/ \E t \in Tasks : Import(t) \/ Step(t)
        \/ \E c \in Codes : SetPromoCodeActive(c)
     /\ UNCHANGED <<unstored, abandoned>>
  \/ \E t \in Tasks : WatchedThrow(t) \/ WatchedDie(t)

WatchedSpec == WatchedInit /\ [][WatchedNext]_watched

(***************************************************************************)
(* One purchase is one order (CreateOrderForm.tsx:46): however often a     *)
(* form is sent again, and whatever races or dies, it makes one order,     *)
(* unless the answer to the request that made it could not be stored.      *)
(***************************************************************************)
OneOrderPerForm ==
  \A f \in Forms \ unstored : Cardinality({o \in orders : o.form = f}) <= 1

(***************************************************************************)
(* A key without an answer is held by a request that still runs, so a form *)
(* that is told to wait is not told so for ever, unless the request that   *)
(* held it died or failed to delete it.                                    *)
(***************************************************************************)
HeldKeyHasOwner ==
  \A f \in Forms \ abandoned :
    keys[f] # NoRow /\ keys[f].answer = 0 =>
      \E t \in Tasks : task[t] # Idle /\ task[t].form = f
                       /\ task[t].pc \notin {"reserve", "replay"}
=============================================================================
