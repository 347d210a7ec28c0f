--------------------------- MODULE DispatchWatched ---------------------------
(***************************************************************************)
(* Dispatch, remembering whether a call has died, for what only holds      *)
(* until then.                                                             *)
(***************************************************************************)
EXTENDS Dispatch

VARIABLE died  \* some call has died

watched == <<vars, died>>

WatchedInit == Init /\ died = FALSE

WatchedStep(t) == Step(t) /\ UNCHANGED died

WatchedNext ==
  \E t \in Tasks :
    \/ Request(t) /\ UNCHANGED died
    \/ WatchedStep(t)
    \/ Fail(t) /\ died' = TRUE

WatchedSpec == WatchedInit /\ [][WatchedNext]_watched

\* The event loop resumes every settled await of a call that lives.
WatchedFairSpec == WatchedSpec /\ \A t \in Tasks : WF_watched(WatchedStep(t))

(***************************************************************************)
(* dispatch.events.ts:5-8: with one call at a time and until one dies, a   *)
(* BUSY driver without an active delivery is about to be released by a     *)
(* call that has not ended yet.                                            *)
(***************************************************************************)
StrandedOnlyByDeath == ~ died => NoDriverStranded

(***************************************************************************)
(* dispatch.events.ts:11: with one call at a time and until one dies, a    *)
(* BUSY driver whose last delivery has ended becomes free.                 *)
(***************************************************************************)
IdleDriverIsReleased ==
  \A d \in Drivers :
    (driverStatus[d] = "BUSY" /\ activeLoad(d) = 0) ~> (driverStatus[d] = "AVAILABLE" \/ died)
=============================================================================
