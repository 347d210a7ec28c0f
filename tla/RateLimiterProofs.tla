------------------------- MODULE RateLimiterProofs -------------------------
(***************************************************************************)
(* Theorems about RateLimiter, for any keys, limits and windows: the types *)
(* (TypeCorrect), and that a Map with ended buckets, sweeps and a counter  *)
(* gives the answers of windows that need no store (Refinement).           *)
(***************************************************************************)
EXTENDS RateLimiter, FiniteSetTheorems, TLAPS

LEMMA ChecksAreFinite ==
  ASSUME NEW keys \in Checks
  PROVE  keys \subseteq Keys /\ Cardinality(keys) \in Nat
<1>1. keys \subseteq Keys /\ IsFiniteSet(Keys)
  BY LimiterAssumption
<1>2. IsFiniteSet(keys)
  BY <1>1, FS_Subset, Zenon
<1>3. QED
  BY <1>1, <1>2, FS_CardinalityType

\* A bucket that a check touches counts at least one attempt and has not ended.
LEMMA ConsumedIsLive ==
  ASSUME TypeOK, NEW k \in Keys
  PROVE  Consumed(k) \in Bucket /\ Consumed(k).count > 0 /\ Consumed(k).resetAt > now
<1>1. window[k] \in Nat \ {0} /\ now \in Nat
  BY LimiterAssumption DEF TypeOK
<1>2. k \in DOMAIN buckets => buckets[k] \in Bucket /\ buckets[k].count > 0
  BY DEF TypeOK
<1>3. CASE ~Live(k)
  BY <1>1, <1>3 DEF Consumed, Bucket
<1>4. CASE Live(k)
  BY <1>1, <1>2, <1>4 DEF Consumed, Live, Expired, Bucket
<1>5. QED
  BY <1>3, <1>4

-----------------------------------------------------------------------------
(* Types *)

LEMMA InitIsTyped == ASSUME Init PROVE TypeOK
<1>1. buckets \in [{} -> Bucket] /\ {} \in SUBSET Keys
  BY DEF Init
<1>2. \E held \in SUBSET Keys : buckets \in [held -> Bucket]
  BY <1>1, Zenon
<1>3. \A k \in DOMAIN buckets : buckets[k].count > 0
  BY DEF Init
<1>4. checks \in 0 .. Interval - 1 /\ now \in Nat
  BY LimiterAssumption DEF Init
<1>5. QED
  BY <1>2, <1>3, <1>4 DEF TypeOK

LEMMA CheckKeepsTypes ==
  ASSUME TypeOK, NEW keys \in Checks, CheckRateLimit(keys)
  PROVE  TypeOK'
<1>1. keys \subseteq Keys /\ Cardinality(keys) \in Nat
  BY ChecksAreFinite
<1>2. PICK kept \in {Swept, DOMAIN buckets} :
        buckets' = [k \in kept \cup keys |-> IF k \in keys THEN Consumed(k) ELSE buckets[k]]
  BY DEF CheckRateLimit
<1>3. kept \subseteq DOMAIN buckets /\ DOMAIN buckets \subseteq Keys
  BY <1>2 DEF Swept, TypeOK
<1>4. \A k \in kept \cup keys :
        /\ (IF k \in keys THEN Consumed(k) ELSE buckets[k]) \in Bucket
        /\ (IF k \in keys THEN Consumed(k) ELSE buckets[k]).count > 0
  BY <1>1, <1>3, ConsumedIsLive DEF TypeOK
<1>5. /\ kept \cup keys \in SUBSET Keys
      /\ buckets' \in [kept \cup keys -> Bucket]
      /\ \A k \in DOMAIN buckets' : buckets'[k].count > 0
  BY <1>1, <1>2, <1>3, <1>4
<1>6. checks' \in 0 .. Interval - 1
  BY <1>1, LimiterAssumption DEF CheckRateLimit, TypeOK
<1>7. now' \in Nat
  BY DEF CheckRateLimit, TypeOK
<1>8. QED
  BY <1>5, <1>6, <1>7 DEF TypeOK

LEMMA NextKeepsTypes == ASSUME TypeOK, [Next]_vars PROVE TypeOK'
<1>1. CASE Tick
  BY <1>1 DEF Tick, TypeOK
<1>2. CASE Restart
  <2>1. buckets' \in [{} -> Bucket] /\ DOMAIN buckets' = {} /\ {} \in SUBSET Keys
    BY <1>2 DEF Restart
  <2>2. \E held \in SUBSET Keys : buckets' \in [held -> Bucket]
    BY <2>1, Zenon
  <2>3. checks' \in 0 .. Interval - 1 /\ now' \in Nat
    BY <1>2, LimiterAssumption DEF Restart, TypeOK
  <2>4. QED
    BY <2>1, <2>2, <2>3 DEF TypeOK
<1>3. ASSUME NEW keys \in Checks, CheckRateLimit(keys) PROVE TypeOK'
  BY <1>3, CheckKeepsTypes
<1>4. CASE UNCHANGED vars
  BY <1>4 DEF vars, TypeOK
<1>5. QED
  BY <1>1, <1>2, <1>3, <1>4 DEF Next

(***************************************************************************)
(* The variables of RateLimiter keep their types: every bucket counts at   *)
(* least the attempt that opened it (consume, rate-limiter.ts:112-133).    *)
(***************************************************************************)
THEOREM TypeCorrect == Spec => []TypeOK
<1>1. Init => TypeOK
  BY InitIsTyped
<1>2. TypeOK /\ [Next]_vars => TypeOK'
  BY NextKeepsTypes
<1>3. QED
  BY <1>1, <1>2, PTL DEF Spec

-----------------------------------------------------------------------------
(* The refinement *)

\* A window is open exactly while its bucket is live.
LEMMA WindowOfKey ==
  ASSUME TypeOK, NEW k \in Keys
  PROVE  /\ openWindows[k] = NoWindow <=> ~Live(k)
         /\ Live(k) => /\ openWindows[k].count = buckets[k].count
                       /\ openWindows[k].end = buckets[k].resetAt
         /\ Windows!Full(k) <=> Full(k)
<1>1. openWindows[k] = IF Live(k) THEN [count |-> buckets[k].count, end |-> buckets[k].resetAt]
                   ELSE NoWindow
  BY DEF openWindows
<1>2. Live(k) => buckets[k].count > 0 /\ buckets[k].count \in Nat
  BY DEF Live, TypeOK, Bucket
<1>3. openWindows[k] = NoWindow <=> ~Live(k)
  BY <1>1, <1>2 DEF NoWindow
<1>4. Live(k) => openWindows[k].count = buckets[k].count /\ openWindows[k].end = buckets[k].resetAt
  BY <1>1
<1>5. Windows!Full(k) <=> Full(k)
  BY <1>3, <1>4 DEF Full, Windows!Full, Windows!NoWindow, NoWindow
<1>6. QED
  BY <1>3, <1>4, <1>5

\* A key that is consumed counts as its window does.
LEMMA ConsumedIsCounted ==
  ASSUME TypeOK, NEW k \in Keys
  PROVE  [count |-> Consumed(k).count, end |-> Consumed(k).resetAt] = Windows!Counted(k)
<1>1. openWindows[k] = IF Live(k) THEN [count |-> buckets[k].count, end |-> buckets[k].resetAt]
                   ELSE NoWindow
  BY DEF openWindows
<1>2. CASE ~Live(k)
  BY <1>1, <1>2 DEF Consumed, Windows!Counted, Windows!NoWindow, NoWindow
<1>3. CASE Live(k)
  <2>1. openWindows[k] # Windows!NoWindow
    BY <1>3, WindowOfKey DEF NoWindow, Windows!NoWindow
  <2>2. QED
    BY <1>1, <1>3, <2>1, WindowOfKey DEF Consumed, Windows!Counted
<1>4. QED
  BY <1>2, <1>3

LEMMA CheckIsAttempt ==
  ASSUME TypeOK, NEW keys \in Checks, CheckRateLimit(keys)
  PROVE  Windows!Attempt(keys)
<1>1. keys \subseteq Keys
  BY ChecksAreFinite
<1>2. now' = now
  BY DEF CheckRateLimit
<1>3. PICK kept \in {Swept, DOMAIN buckets} :
        buckets' = [k \in kept \cup keys |-> IF k \in keys THEN Consumed(k) ELSE buckets[k]]
  BY DEF CheckRateLimit
<1>4. ASSUME NEW k \in keys
      PROVE  Live(k)' /\ openWindows'[k] = Windows!Counted(k)
  <2>1. buckets'[k] = Consumed(k) /\ k \in DOMAIN buckets'
    BY <1>3
  <2>2. Live(k)'
    BY <1>1, <1>2, <2>1, ConsumedIsLive DEF Live, Expired, Bucket, TypeOK
  <2>3. openWindows'[k] = [count |-> Consumed(k).count, end |-> Consumed(k).resetAt]
    BY <1>1, <2>1, <2>2 DEF openWindows
  <2>4. QED
    BY <1>1, <2>2, <2>3, ConsumedIsCounted
<1>5. ASSUME NEW k \in Keys \ keys
      PROVE  openWindows'[k] = openWindows[k]
  <2>1. Live(k) => k \in kept
    BY <1>3 DEF Swept, Live
  <2>2. k \in kept => k \in DOMAIN buckets
    BY <1>3 DEF Swept
  <2>3. k \in DOMAIN buckets' <=> k \in kept
    BY <1>3
  <2>4. k \in kept => buckets'[k] = buckets[k]
    BY <1>3
  <2>5. Live(k)' <=> Live(k)
    BY <1>2, <2>1, <2>2, <2>3, <2>4 DEF Live, Expired
  <2>6. QED
    BY <2>1, <2>4, <2>5 DEF openWindows
<1>6. openWindows' = [k \in Keys |-> IF k \in keys THEN Windows!Counted(k) ELSE openWindows[k]]
  BY <1>1, <1>4, <1>5 DEF openWindows
<1>7. {k \in keys : Windows!Full(k)} = {k \in keys : Full(k)}
  BY <1>1, WindowOfKey
<1>8. ASSUME NEW k \in keys, Full(k)
      PROVE  RetryAfter(k) = Windows!SecondsUntil(openWindows[k].end)
  BY <1>1, <1>8, WindowOfKey DEF Full, RetryAfter, Windows!SecondsUntil
<1>9. PICK retry \in {RetryAfter(k) : k \in {k \in keys : Full(k)}} \cup {0} :
        /\ \A k \in {k \in keys : Full(k)} : RetryAfter(k) <= retry
        /\ answer' = Passes(keys, {k \in keys : Full(k)}, retry)
  BY DEF CheckRateLimit
<1>10. /\ retry \in {Windows!SecondsUntil(openWindows[k].end) : k \in {k \in keys : Full(k)}} \cup {0}
       /\ \A k \in {k \in keys : Full(k)} : Windows!SecondsUntil(openWindows[k].end) <= retry
  BY <1>8, <1>9
<1>11. answer' = Windows!Passes(keys, {k \in keys : Full(k)}, retry)
  BY <1>9 DEF Passes, Windows!Passes
<1>12. QED
  BY <1>2, <1>6, <1>7, <1>10, <1>11 DEF Windows!Attempt

LEMMA TickIsTick == ASSUME TypeOK, Tick PROVE Windows!Tick
<1>1. now \in Nat /\ now' = now + 1 /\ buckets' = buckets /\ answer' = answer
  BY DEF Tick, TypeOK
<1>2. ASSUME NEW k \in Keys
      PROVE  openWindows'[k] = IF openWindows[k].end <= now' THEN Windows!NoWindow ELSE openWindows[k]
  <2>1. Live(k)' <=> Live(k) /\ ~(buckets[k].resetAt <= now')
    <3>1. Live(k) => buckets[k].resetAt \in Nat
      BY DEF Live, TypeOK, Bucket
    <3>2. k \in DOMAIN buckets => buckets[k].resetAt \in Nat
      BY DEF TypeOK, Bucket
    <3>3. QED
      BY <1>1, <3>1, <3>2 DEF Live, Expired
  <2>2. openWindows[k] = IF Live(k) THEN [count |-> buckets[k].count, end |-> buckets[k].resetAt]
                     ELSE NoWindow
    BY DEF openWindows
  <2>3. openWindows'[k] = IF Live(k)' THEN [count |-> buckets[k].count, end |-> buckets[k].resetAt]
                      ELSE NoWindow
    BY <1>1 DEF openWindows
  <2>4. ~Live(k) => openWindows[k].end <= now'
    BY <1>1, <2>2 DEF NoWindow
  <2>5. QED
    BY <2>1, <2>2, <2>3, <2>4 DEF NoWindow, Windows!NoWindow
<1>3. openWindows' = [k \in Keys |-> IF openWindows[k].end <= now' THEN Windows!NoWindow ELSE openWindows[k]]
  BY <1>2 DEF openWindows
<1>4. QED
  BY <1>1, <1>3 DEF Windows!Tick

LEMMA RestartIsForget == ASSUME Restart PROVE Windows!Forget
<1>1. DOMAIN buckets' = {}
  BY DEF Restart
<1>2. \A k \in Keys : ~Live(k)'
  BY <1>1 DEF Live
<1>3. openWindows' = [k \in Keys |-> Windows!NoWindow]
  BY <1>2 DEF openWindows, NoWindow, Windows!NoWindow
<1>4. QED
  BY <1>3 DEF Restart, Windows!Forget

LEMMA InitIsSilence == ASSUME Init PROVE Windows!Init
<1>1. DOMAIN buckets = {}
  BY DEF Init
<1>2. \A k \in Keys : ~Live(k)
  BY <1>1 DEF Live
<1>3. openWindows = [k \in Keys |-> Windows!NoWindow]
  BY <1>2 DEF openWindows, NoWindow, Windows!NoWindow
<1>4. QED
  BY <1>3 DEF Init, Windows!Init, Windows!Silence, Windows!Passes, Passes

(***************************************************************************)
(* For any keys, limits and windows, and any interval between two sweeps,  *)
(* a caller is answered as if every key had a fixed window and there were  *)
(* no store to clean (checkRateLimit, rate-limiter.ts:96).                 *)
(***************************************************************************)
THEOREM Refinement == Spec => ImplementsWindows
<1>1. Init => Windows!Init
  BY InitIsSilence
<1>2. ASSUME TypeOK, [Next]_vars
      PROVE  [Windows!Next]_<<openWindows, now, answer>>
  <2>1. CASE Tick
    BY <1>2, <2>1, TickIsTick DEF Windows!Next
  <2>2. CASE Restart
    BY <2>2, RestartIsForget DEF Windows!Next
  <2>3. ASSUME NEW keys \in Checks, CheckRateLimit(keys)
        PROVE  Windows!Next
    BY <1>2, <2>3, CheckIsAttempt DEF Windows!Next
  <2>4. CASE UNCHANGED vars
    BY <2>4 DEF vars, openWindows, Live, Expired
  <2>5. QED
    BY <1>2, <2>1, <2>2, <2>3, <2>4 DEF Next
<1>3. QED
  BY <1>1, <1>2, TypeCorrect, PTL DEF Spec, ImplementsWindows, Windows!Spec
=============================================================================
