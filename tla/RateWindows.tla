---------------------------- MODULE RateWindows ----------------------------
(***************************************************************************)
(* What the rate limiter promises its callers: every key has a fixed       *)
(* window, opened by its first attempt, in which `limit` attempts pass.    *)
(* There is no store to clean here: a window that ended is no window.      *)
(* Module RateLimiter, which keeps ended windows until a sweep, implements *)
(* this (src/infrastructure/rate-limit/rate-limiter.ts).                   *)
(***************************************************************************)
EXTENDS Integers, FiniteSets

CONSTANTS Keys,    \* what is limited: an address, an account
          Checks,  \* the sets of keys a route consumes together
          limit,   \* attempts a key allows in a window
          window,  \* the length of a key's window
          Second   \* ticks of the clock in a second: answers are in whole seconds

VARIABLES windows,  \* key -> attempts counted in its window and the window's end
          now,      \* the clock
          answer    \* what the last caller was told

NoWindow == [count |-> 0, end |-> 0]

Window == [count : Nat, end : Nat]

Passes(keys, blocked, retry) ==
  IF blocked = {} THEN [keys |-> keys, allowed |-> TRUE, retryAfter |-> 0]
  ELSE [keys |-> keys, allowed |-> FALSE, retryAfter |-> retry]

Silence == Passes({}, {}, 0)

Init == windows = [k \in Keys |-> NoWindow] /\ now = 0 /\ answer = Silence

Full(k) == windows[k] # NoWindow /\ windows[k].count >= limit[k]

\* An attempt opens a window, or counts in the one that is open and not full.
Counted(k) ==
  IF windows[k] = NoWindow THEN [count |-> 1, end |-> now + window[k]]
  ELSE IF Full(k) THEN windows[k]
  ELSE [count |-> windows[k].count + 1, end |-> windows[k].end]

\* Whole seconds until the time e, at least one.
SecondsUntil(e) == IF e - now <= Second THEN 1 ELSE (e - now + Second - 1) \div Second

\* Every key is counted, and one that is full turns the whole attempt away until the last
\* of the full windows ends.
Attempt(keys) ==
  LET blocked == {k \in keys : Full(k)} IN
  \E retry \in {SecondsUntil(windows[k].end) : k \in blocked} \cup {0} :
    /\ \A k \in blocked : SecondsUntil(windows[k].end) <= retry
    /\ windows' = [k \in Keys |-> IF k \in keys THEN Counted(k) ELSE windows[k]]
    /\ answer' = Passes(keys, blocked, retry)
    /\ UNCHANGED now

Tick ==
  /\ now' = now + 1
  /\ windows' = [k \in Keys |-> IF windows[k].end <= now' THEN NoWindow ELSE windows[k]]
  /\ UNCHANGED answer

\* The process restarts and knows nobody.
Forget == windows' = [k \in Keys |-> NoWindow] /\ UNCHANGED <<now, answer>>

Next == Tick \/ Forget \/ \E keys \in Checks : Attempt(keys)

Spec == Init /\ [][Next]_<<windows, now, answer>>
=============================================================================
