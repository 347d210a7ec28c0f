---------------------------- MODULE RateLimiter ----------------------------
(***************************************************************************)
(* The in-memory rate limiter                                              *)
(* (src/infrastructure/rate-limit/rate-limiter.ts): a Map from key to a    *)
(* bucket, in which an ended window stays until the key is used again or   *)
(* one of every Interval checks sweeps the Map.  checkRateLimit has no     *)
(* await: an attempt is one step.  The process may restart, and every      *)
(* bucket is lost.                                                         *)
(***************************************************************************)
EXTENDS Integers, FiniteSets

CONSTANTS Keys, Checks, limit, window, Second,
          Interval,  \* RATE_LIMIT_SWEEP_INTERVAL_CHECKS
          MaxTime    \* bound: ticks of the clock

VARIABLES buckets,  \* the Map: key -> count and resetAt, of the keys it holds
          checks,   \* the sweep counter, modulo Interval
          now, answer

vars == <<buckets, checks, now, answer>>

ASSUME LimiterAssumption ==
  /\ IsFiniteSet(Keys)
  /\ Checks \subseteq SUBSET Keys
  /\ limit \in [Keys -> Nat \ {0}]
  /\ window \in [Keys -> Nat \ {0}]
  /\ Second \in Nat \ {0}
  /\ Interval \in Nat \ {0}

Bucket == [count : Nat, resetAt : Nat]

Passes(keys, blocked, retry) ==
  IF blocked = {} THEN [keys |-> keys, allowed |-> TRUE, retryAfter |-> 0]
  ELSE [keys |-> keys, allowed |-> FALSE, retryAfter |-> retry]

TypeOK ==
  /\ \E held \in SUBSET Keys : buckets \in [held -> Bucket]
  /\ \A k \in DOMAIN buckets : buckets[k].count > 0
  /\ checks \in 0 .. Interval - 1
  /\ now \in Nat

Init ==
  /\ buckets = [k \in {} |-> 0]
  /\ checks = 0
  /\ now = 0
  /\ answer = Passes({}, {}, 0)

Expired(k) == buckets[k].resetAt <= now

Live(k) == k \in DOMAIN buckets /\ ~Expired(k)

\* Faulty variant: a sweep empties the Map.
SweptAll == {}

\* What a sweep leaves.
Swept == {k \in DOMAIN buckets : ~Expired(k)}

\* The counter reaches a multiple of Interval within n checks.
Sweeps(n) == checks + n >= Interval

Full(k) == Live(k) /\ buckets[k].count >= limit[k]

\* consume, one key.
Consumed(k) ==
  IF ~Live(k) THEN [count |-> 1, resetAt |-> now + window[k]]
  ELSE IF Full(k) THEN buckets[k]
  ELSE [count |-> buckets[k].count + 1, resetAt |-> buckets[k].resetAt]

RetryAfter(k) ==
  LET ticks == buckets[k].resetAt - now IN
  IF ticks <= Second THEN 1 ELSE (ticks + Second - 1) \div Second

\* checkRateLimit: every key is consumed, even after one that blocks; a sweep may come
\* before any of them and spares the keys consumed before it, whose windows are live.
CheckRateLimit(keys) ==
  LET blocked == {k \in keys : Full(k)}
      kept    == IF Sweeps(Cardinality(keys)) THEN Swept ELSE DOMAIN buckets
  IN
  \E retry \in {RetryAfter(k) : k \in blocked} \cup {0} :
    /\ \A k \in blocked : RetryAfter(k) <= retry
    /\ buckets' = [k \in kept \cup keys |-> IF k \in keys THEN Consumed(k) ELSE buckets[k]]
    /\ checks' = (checks + Cardinality(keys)) % Interval
    /\ answer' = Passes(keys, blocked, retry)
    /\ UNCHANGED now

Tick ==
  /\ now < MaxTime
  /\ now' = now + 1
  /\ UNCHANGED <<buckets, checks, answer>>

\* The Map, the counter and the limiter are globals of the process.
Restart ==
  /\ buckets' = [k \in {} |-> 0]
  /\ checks' = 0
  /\ UNCHANGED <<now, answer>>

-----------------------------------------------------------------------------
(* The whole *)

Next == Tick \/ Restart \/ \E keys \in Checks : CheckRateLimit(keys)

Spec == Init /\ [][Next]_vars

-----------------------------------------------------------------------------
(* The windows the Map stands for *)

NoWindow == [count |-> 0, end |-> 0]

openWindows ==
  [k \in Keys |-> IF Live(k) THEN [count |-> buckets[k].count, end |-> buckets[k].resetAt]
                  ELSE NoWindow]

Windows == INSTANCE RateWindows WITH windows <- openWindows

(***************************************************************************)
(* "La balayer plus tôt ne change donc jamais le résultat d'un appel"      *)
(* (rate-limiter.ts:96): with its ended buckets, its sweeps and its        *)
(* counter, the Map gives every caller the answer that windows without any *)
(* store would give.                                                       *)
(***************************************************************************)
ImplementsWindows == Windows!Spec
=============================================================================
