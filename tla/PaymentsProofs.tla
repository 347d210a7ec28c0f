--------------------------- MODULE PaymentsProofs ---------------------------
(***************************************************************************)
(* Theorems about Payments, whatever runs at once, dies and is delivered   *)
(* again: every payment keeps its three movements (PaymentsBooked), and    *)
(* the balance of the driver is the sum of what the rows of its orders are *)
(* worth (WalletFollows), by lemmas about the sums of FiniteSetsExt.  No   *)
(* order is collected or paid out twice before two calls have been in      *)
(* progress at once (OnceUnlessRaced), so never with one call at a time    *)
(* (SerialOnce).                                                           *)
(***************************************************************************)
EXTENDS PaymentsWatched, FiniteSetTheorems, TLAPS

LEMMA AmountsAreNaturals ==
  ASSUME NEW o
  PROVE  /\ deliveryFee(o) \in Nat /\ totalAmount(o) \in Nat
         /\ driverEarning(o) \in Nat /\ compensation(o) \in Nat
<1>1. deliveryFee(o) \in Nat /\ Goods \in Nat /\ commissionRate \in Nat
  BY PaymentsAssumption DEF deliveryFee
<1>2. totalAmount(o) \in Nat /\ compensation(o) \in Nat
  BY <1>1 DEF totalAmount, compensation
<1>3. deliveryFee(o) * commissionRate \in Nat
  BY <1>1
<1>4. driverEarning(o) \in Nat
  BY <1>3 DEF driverEarning
<1>5. QED
  BY <1>1, <1>2, <1>4

LEMMA CallingCalls ==
  ASSUME TypeOK, NEW t \in Tasks, task[t] # Idle
  PROVE  task[t] \in Calling
BY DEF TypeOK

\* What a call does to itself.
LEMMA CallMoves ==
  ASSUME TypeOK, NEW t \in Tasks, task[t] \in Calling
  PROVE  /\ Ends(t) => task' = [task EXCEPT ![t] = Idle] /\ task'[t] = Idle
         /\ \A pc \in {"cod.check", "cod.write", "comp.check", "comp.write"} : Goto(t, pc) =>
              /\ task'[t] \in Calling
              /\ task'[t].pc = pc /\ task'[t].order = task[t].order /\ task'[t].to = task[t].to
              /\ task' = [task EXCEPT ![t] = task'[t]]
<1>1. task \in [Tasks -> {Idle} \cup Calling]
  BY DEF TypeOK
<1>2. Ends(t) => task' = [task EXCEPT ![t] = Idle] /\ task'[t] = Idle
  BY <1>1 DEF Ends
<1>3. ASSUME NEW pc \in {"cod.check", "cod.write", "comp.check", "comp.write"}, Goto(t, pc)
      PROVE  /\ task'[t] \in Calling
             /\ task'[t].pc = pc /\ task'[t].order = task[t].order /\ task'[t].to = task[t].to
             /\ task' = [task EXCEPT ![t] = task'[t]]
  <2>1. task'[t] = [task[t] EXCEPT !.pc = pc]
    BY <1>1, <1>3 DEF Goto
  <2>2. task'[t] \in Calling /\ task'[t].pc = pc /\ task'[t].order = task[t].order
        /\ task'[t].to = task[t].to
    BY <2>1 DEF Calling
  <2>3. QED
    BY <1>1, <1>3, <2>1, <2>2 DEF Goto
<1>4. QED
  BY <1>2, <1>3

-----------------------------------------------------------------------------
(* Types, and the movements of a payment *)

BooksInv == TypeOK /\ PaymentsAreBooked

LEMMA RowsWritten ==
  ASSUME NEW rows \in [Rows -> Nat], NEW sorts
  PROVE  PlusOne(rows, sorts) \in [Rows -> Nat]
BY DEF PlusOne

LEMMA BooksStep ==
  ASSUME BooksInv, [Next]_vars
  PROVE  BooksInv'
<1>1. /\ TypeOK /\ PaymentsAreBooked
      /\ orderStatus \in [Orders -> OrderStatus] /\ payments \in [Orders -> Nat]
      /\ ledger \in [Orders -> [Rows -> Nat]] /\ walletBalance \in Int
      /\ task \in [Tasks -> {Idle} \cup Calling]
  BY DEF BooksInv, TypeOK
<1>2. ASSUME UNCHANGED books, orderStatus' \in [Orders -> OrderStatus],
             task' \in [Tasks -> {Idle} \cup Calling]
      PROVE  BooksInv'
  BY <1>1, <1>2 DEF BooksInv, TypeOK, PaymentsAreBooked, books
<1>3. ASSUME NEW t \in Tasks, NEW o \in Orders, NEW to \in Targets, Move(t, o, to)
      PROVE  BooksInv'
  BY <1>1, <1>2, <1>3, PaymentsAssumption DEF Move, Calling
<1>4. ASSUME NEW t \in Tasks, NEW o \in Orders, Replay(t, o)
      PROVE  BooksInv'
  BY <1>1, <1>2, <1>4 DEF Replay, Calling, OrderStatus
<1>5. ASSUME NEW t \in Tasks, MoveCommit(t)
      PROVE  BooksInv'
  <2>1. task[t] \in Calling
    BY <1>1, <1>5, CallingCalls DEF MoveCommit, Idle
  <2>2. orderStatus' \in [Orders -> OrderStatus]
    BY <1>1, <1>5, <2>1 DEF MoveCommit, Calling
  <2>3. task' \in [Tasks -> {Idle} \cup Calling]
    BY <1>1, <1>5, <2>1, CallMoves DEF MoveCommit
  <2>4. QED
    BY <1>2, <1>5, <2>2, <2>3 DEF MoveCommit
<1>6. ASSUME NEW t \in Tasks, CodCheck(t) \/ CompCheck(t)
      PROVE  BooksInv'
  <2>1. task[t] \in Calling
    BY <1>1, <1>6, CallingCalls DEF CodCheck, CompCheck, Idle
  <2>2. task' \in [Tasks -> {Idle} \cup Calling]
    BY <1>1, <1>6, <2>1, CallMoves DEF CodCheck, CompCheck
  <2>3. QED
    BY <1>1, <1>2, <1>6, <2>2 DEF CodCheck, CompCheck
<1>7. ASSUME NEW t \in Tasks, CodWrite(t)
      PROVE  BooksInv'
  <2>1. task[t] \in Calling
    BY <1>1, <1>7, CallingCalls DEF CodWrite, Idle
  <2>2. PICK o \in Orders : o = task[t].order
    BY <2>1 DEF Calling
  <2>3. /\ payments' = [payments EXCEPT ![o] = @ + 1]
        /\ ledger' = [ledger EXCEPT ![o] =
             PlusOne(ledger[o], {"COD_COLLECTION", "COMMISSION_DEDUCTION", "earning"})]
        /\ walletBalance' = walletBalance + (totalAmount(o) - driverEarning(o))
        /\ UNCHANGED orderStatus
    BY <1>7, <2>2 DEF CodWrite
  <2>4. walletBalance' \in Int /\ payments' \in [Orders -> Nat]
    BY <1>1, <2>3, AmountsAreNaturals
  <2>5. ledger' \in [Orders -> [Rows -> Nat]]
    BY <1>1, <2>3, RowsWritten
  <2>6. task' \in [Tasks -> {Idle} \cup Calling]
    BY <1>1, <1>7, <2>1, CallMoves DEF CodWrite
  <2>7. PaymentsAreBooked'
    <3> SUFFICES ASSUME NEW x \in Orders,
                        NEW row \in {"COD_COLLECTION", "COMMISSION_DEDUCTION", "earning"}
                 PROVE  ledger'[x][row] = payments'[x]
      BY DEF PaymentsAreBooked
    <3>1. ledger[x][row] = payments[x] /\ row \in Rows /\ ledger[x] \in [Rows -> Nat]
      BY <1>1 DEF PaymentsAreBooked, Rows
    <3>2. CASE x = o
      BY <1>1, <2>3, <3>1, <3>2 DEF PlusOne
    <3>3. CASE x # o
      BY <1>1, <2>3, <3>1, <3>3
    <3>4. QED
      BY <3>2, <3>3
  <2>8. QED
    BY <1>1, <2>3, <2>4, <2>5, <2>6, <2>7 DEF BooksInv, TypeOK
<1>8. ASSUME NEW t \in Tasks, CompWrite(t)
      PROVE  BooksInv'
  <2>1. task[t] \in Calling
    BY <1>1, <1>8, CallingCalls DEF CompWrite, Idle
  <2>2. PICK o \in Orders : o = task[t].order
    BY <2>1 DEF Calling
  <2>3. /\ ledger' = [ledger EXCEPT ![o] = PlusOne(ledger[o], {"compensation"})]
        /\ walletBalance' = walletBalance + compensation(o)
        /\ UNCHANGED <<orderStatus, payments>>
    BY <1>8, <2>2 DEF CompWrite
  <2>4. walletBalance' \in Int
    BY <1>1, <2>3, AmountsAreNaturals
  <2>5. ledger' \in [Orders -> [Rows -> Nat]]
    BY <1>1, <2>3, RowsWritten
  <2>6. task' \in [Tasks -> {Idle} \cup Calling]
    BY <1>1, <1>8, <2>1, CallMoves DEF CompWrite
  <2>7. PaymentsAreBooked'
    BY <1>1, <2>3 DEF PaymentsAreBooked, PlusOne, Rows
  <2>8. QED
    BY <1>1, <2>3, <2>4, <2>5, <2>6, <2>7 DEF BooksInv, TypeOK
<1>9. ASSUME NEW t \in Tasks, Fail(t)
      PROVE  BooksInv'
  BY <1>1, <1>2, <1>9 DEF Fail, Ends
<1>10. CASE UNCHANGED vars
  BY <1>1, <1>2, <1>10 DEF vars, books
<1>11. QED
  BY <1>3, <1>4, <1>5, <1>6, <1>7, <1>8, <1>9, <1>10 DEF Next, Request, Step

LEMMA BooksInit == Init => BooksInv
BY DEF Init, BooksInv, TypeOK, PaymentsAreBooked, OrderStatus, Rows

THEOREM TypeCorrect == Spec => []TypeOK
<1>1. BooksInv => TypeOK
  BY DEF BooksInv
<1>2. QED
  BY <1>1, BooksInit, BooksStep, PTL DEF Spec

(***************************************************************************)
(* Every payment has its three movements and no movement is without its    *)
(* payment, for any number of racing, dying and repeated calls.            *)
(***************************************************************************)
THEOREM PaymentsBooked == Spec => []PaymentsAreBooked
<1>1. BooksInv => PaymentsAreBooked
  BY DEF BooksInv
<1>2. QED
  BY <1>1, BooksInit, BooksStep, PTL DEF Spec

-----------------------------------------------------------------------------
(* Sums over a finite set *)

\* A nonempty set of natural numbers has a least one.
LEMMA LeastNumber ==
  ASSUME NEW S, S \subseteq Nat, S # {}
  PROVE  \E m \in S : \A n \in S : m <= n
<1>1. \E m \in S : \A n \in S : ~ (<<n, m>> \in OpToRel(<, Nat))
  BY NatLessThanWellFounded, WFMin
<1>2. PICK m \in S : \A n \in S : ~ (n < m)
  BY <1>1 DEF OpToRel
<1>3. QED
  BY <1>2

\* MapThenSumSet folds a set in a fixed order: CHOOSE says which element comes first.
first(s) == CHOOSE e \in s : TRUE

\* The sum of f over s, once h gives the sums over the smaller sets.
sumFrom(h, f, s) == IF s = {} THEN 0 ELSE f[first(s)] + h[s \ {first(s)}]

\* h gives the sum of f over each subset of S.
Sums(h, f, S) == \A s \in SUBSET S : h[s] = sumFrom(h, f, s)

LEMMA FirstIsAMember ==
  ASSUME NEW s, s # {}
  PROVE  first(s) \in s
BY DEF first

\* Subsets that go astray: none, if none is empty and none is the first, leaving out one
\* element at a time, to do so.
LEMMA NoneAstray ==
  ASSUME NEW S, IsFiniteSet(S), NEW Astray \in SUBSET SUBSET S, {} \notin Astray,
         \A s \in SUBSET S : s # {} /\ s \ {first(s)} \notin Astray => s \notin Astray
  PROVE  Astray = {}
<1> DEFINE Sizes == {Cardinality(s) : s \in Astray}
<1>1. \A s \in SUBSET S : IsFiniteSet(s) /\ Cardinality(s) \in Nat
  BY FS_Subset, FS_CardinalityType
<1> SUFFICES ASSUME Astray # {}
             PROVE  FALSE
  OBVIOUS
<1>2. Sizes \subseteq Nat /\ Sizes # {}
  BY <1>1
<1>3. PICK m \in Sizes : \A n \in Sizes : m <= n
  BY <1>2, LeastNumber
<1>4. PICK s \in Astray : Cardinality(s) = m
  BY <1>3
<1>5. s \in SUBSET S /\ s # {} /\ first(s) \in s
  <2>1. s # {}
    OBVIOUS
  <2>2. QED
    BY <2>1, FirstIsAMember
<1>6. Cardinality(s \ {first(s)}) = Cardinality(s) - 1 /\ Cardinality(s) \in Nat
  BY <1>1, <1>5, FS_RemoveElement
<1>7. s \ {first(s)} \notin Astray
  <2>1. m - 1 \notin Sizes
    BY <1>1, <1>3, <1>4, <1>6
  <2>2. QED
    BY <1>4, <1>6, <2>1
<1>8. QED
  BY <1>5, <1>7

\* Such an h exists: if it has been found for the sets of at most n elements, those of n + 1 follow.
LEMMA SumsExist ==
  ASSUME NEW S, IsFiniteSet(S), NEW f \in [S -> Int]
  PROVE  \E h \in [SUBSET S -> Int] : Sums(h, f, S)
<1> DEFINE UpTo(n) == {s \in SUBSET S : Cardinality(s) <= n}
           Reaches(n) == \E h \in [SUBSET S -> Int] : \A s \in UpTo(n) : h[s] = sumFrom(h, f, s)
           Short == {n \in Nat : ~ Reaches(n)}
<1>1. ASSUME NEW s \in SUBSET S
      PROVE  /\ Cardinality(s) \in Nat /\ Cardinality(s) <= Cardinality(S)
             /\ Cardinality(s) = 0 => s = {}
             /\ \A e \in s : Cardinality(s \ {e}) = Cardinality(s) - 1
  <2>1. IsFiniteSet(s) /\ Cardinality(s) <= Cardinality(S)
    BY FS_Subset
  <2>2. QED
    BY <2>1, FS_CardinalityType, FS_EmptySet, FS_RemoveElement
<1>2. Cardinality(S) \in Nat
  BY FS_CardinalityType
<1>3. ASSUME NEW h \in [SUBSET S -> Int], NEW s \in SUBSET S
      PROVE  sumFrom(h, f, s) \in Int
  <2>1. CASE s = {}
    BY <2>1 DEF sumFrom
  <2>2. CASE s # {}
    <3>1. first(s) \in S /\ s \ {first(s)} \in SUBSET S
      BY <2>2, FirstIsAMember
    <3>2. f[first(s)] \in Int /\ h[s \ {first(s)}] \in Int
      BY <3>1
    <3>3. QED
      BY <2>2, <3>2 DEF sumFrom
  <2>3. QED
    BY <2>1, <2>2
<1>4. Reaches(0)
  <2> DEFINE zero == [s \in SUBSET S |-> 0]
  <2>1. zero \in [SUBSET S -> Int]
    OBVIOUS
  <2>2. ASSUME NEW s \in UpTo(0)
        PROVE  zero[s] = sumFrom(zero, f, s)
    <3>1. s = {}
      BY <1>1
    <3>2. QED
      BY <3>1 DEF sumFrom
  <2> HIDE DEF zero
  <2>3. QED
    BY <2>1, <2>2
<1>5. ASSUME NEW n \in Nat, Reaches(n)
      PROVE  Reaches(n + 1)
  <2>1. PICK h \in [SUBSET S -> Int] : \A s \in UpTo(n) : h[s] = sumFrom(h, f, s)
    BY <1>5
  <2>2. PICK g \in [SUBSET S -> Int] : \A s \in SUBSET S : g[s] = sumFrom(h, f, s)
    <3> DEFINE next == [s \in SUBSET S |-> sumFrom(h, f, s)]
    <3>1. next \in [SUBSET S -> Int]
      BY <1>3
    <3>2. QED
      BY <3>1
  <2>3. ASSUME NEW s \in UpTo(n + 1)
        PROVE  g[s] = sumFrom(g, f, s)
    <3>1. CASE s = {}
      BY <2>2, <3>1 DEF sumFrom
    <3>2. CASE s # {}
      <4>1. PICK r \in SUBSET S : r = s \ {first(s)}
        OBVIOUS
      <4>2. r \in UpTo(n)
        BY <1>1, <3>2, <4>1, FirstIsAMember
      <4>3. g[r] = h[r]
        BY <2>1, <2>2, <4>2
      <4>4. QED
        BY <2>2, <3>2, <4>1, <4>3 DEF sumFrom
    <3>3. QED
      BY <3>1, <3>2
  <2>4. QED
    BY <2>3
<1> HIDE DEF Reaches
<1>6. ASSUME Short # {}
      PROVE  FALSE
  <2>1. PICK m \in Short : \A n \in Short : m <= n
    BY <1>6, LeastNumber
  <2>2. m \in Nat /\ ~ Reaches(m) /\ m # 0 /\ m - 1 \in Nat
    BY <1>4, <2>1
  <2>3. Reaches(m - 1)
    BY <2>1, <2>2
  <2>4. Reaches((m - 1) + 1)
    BY <1>5, <2>2, <2>3
  <2>5. (m - 1) + 1 = m
    BY <2>2
  <2>6. QED
    BY <2>2, <2>4, <2>5
<1>7. PICK h \in [SUBSET S -> Int] : \A s \in UpTo(Cardinality(S)) : h[s] = sumFrom(h, f, s)
  BY <1>2, <1>6 DEF Reaches
<1>8. \A s \in SUBSET S : h[s] = sumFrom(h, f, s)
  BY <1>1, <1>7
<1>9. QED
  BY <1>8 DEF Sums

LEMMA SumsAreIntegers ==
  ASSUME NEW S, IsFiniteSet(S), NEW f \in [S -> Int], NEW h, Sums(h, f, S)
  PROVE  \A s \in SUBSET S : h[s] \in Int
<1> DEFINE Astray == {s \in SUBSET S : h[s] \notin Int}
<1>1. {} \notin Astray
  <2>1. h[{}] = 0
    BY DEF Sums, sumFrom
  <2>2. QED
    BY <2>1
<1>2. ASSUME NEW s \in SUBSET S, s # {}, s \ {first(s)} \notin Astray
      PROVE  s \notin Astray
  <2>1. h[s] = f[first(s)] + h[s \ {first(s)}]
    BY <1>2 DEF Sums, sumFrom
  <2>2. f[first(s)] \in Int /\ h[s \ {first(s)}] \in Int
    BY <1>2, FirstIsAMember
  <2>3. QED
    BY <2>1, <2>2
<1>3. Astray = {}
  <2> HIDE DEF Astray
  <2>1. Astray \in SUBSET SUBSET S
    BY DEF Astray
  <2>2. QED
    BY <1>1, <1>2, <2>1, NoneAstray
<1>4. QED
  BY <1>3

\* g is f but at e, where it is d more.
DiffersAt(f, g, S, e, d) == g[e] = f[e] + d /\ \A x \in S \ {e} : g[x] = f[x]

\* One term that grows makes the sum grow by as much.
LEMMA OneTermChanges ==
  ASSUME NEW S, IsFiniteSet(S), NEW f \in [S -> Int], NEW g \in [S -> Int],
         NEW e \in S, NEW d \in Int, DiffersAt(f, g, S, e, d),
         NEW h, Sums(h, f, S), NEW k, Sums(k, g, S)
  PROVE  k[S] = h[S] + d
<1> DEFINE grown(s) == IF e \in s THEN d ELSE 0
           Astray == {s \in SUBSET S : k[s] # h[s] + grown(s)}
<1>1. ASSUME NEW s \in SUBSET S, s # {}, s \ {first(s)} \notin Astray
      PROVE  s \notin Astray
  <2>1. PICK x \in s, r \in SUBSET S : x = first(s) /\ r = s \ {x}
    BY <1>1, FirstIsAMember
  <2>2. h[s] = f[x] + h[r] /\ k[s] = g[x] + k[r]
    BY <1>1, <2>1 DEF Sums, sumFrom
  <2>3. f[x] \in Int /\ g[x] \in Int /\ h[r] \in Int /\ k[r] \in Int
    BY SumsAreIntegers
  <2>4. k[r] = h[r] + grown(r)
    BY <1>1, <2>1
  <2>5. CASE x = e
    <3>1. g[x] = f[x] + d /\ grown(r) = 0 /\ grown(s) = d
      BY <2>1, <2>5 DEF DiffersAt
    <3>2. k[s] = h[s] + grown(s)
      BY <2>2, <2>3, <2>4, <3>1
    <3>3. QED
      BY <3>2
  <2>6. CASE x # e
    <3>1. g[x] = f[x] /\ grown(r) = grown(s) /\ grown(s) \in Int
      BY <2>1, <2>6 DEF DiffersAt
    <3>2. k[s] = h[s] + grown(s)
      BY <2>2, <2>3, <2>4, <3>1
    <3>3. QED
      BY <3>2
  <2>7. QED
    BY <2>5, <2>6
<1>2. {} \notin Astray
  <2>1. h[{}] = 0 /\ k[{}] = 0
    BY DEF Sums, sumFrom
  <2>2. QED
    BY <2>1
<1>3. Astray = {}
  <2> HIDE DEF Astray
  <2>1. Astray \in SUBSET SUBSET S
    BY DEF Astray
  <2>2. QED
    BY <1>1, <1>2, <2>1, NoneAstray
<1>4. k[S] = h[S] + grown(S)
  BY <1>3
<1>5. QED
  BY <1>4

LEMMA SumOfNothing ==
  ASSUME NEW S, IsFiniteSet(S), NEW f \in [S -> Int], \A x \in S : f[x] = 0,
         NEW h, Sums(h, f, S)
  PROVE  h[S] = 0
<1> DEFINE Astray == {s \in SUBSET S : h[s] # 0}
<1>1. {} \notin Astray
  <2>1. h[{}] = 0
    BY DEF Sums, sumFrom
  <2>2. QED
    BY <2>1
<1>2. ASSUME NEW s \in SUBSET S, s # {}, s \ {first(s)} \notin Astray
      PROVE  s \notin Astray
  <2>1. h[s] = f[first(s)] + h[s \ {first(s)}]
    BY <1>2 DEF Sums, sumFrom
  <2>2. f[first(s)] = 0 /\ h[s \ {first(s)}] = 0
    BY <1>2, FirstIsAMember
  <2>3. QED
    BY <2>1, <2>2
<1>3. Astray = {}
  <2> HIDE DEF Astray
  <2>1. Astray \in SUBSET SUBSET S
    BY DEF Astray
  <2>2. QED
    BY <1>1, <1>2, <2>1, NoneAstray
<1>4. QED
  BY <1>3

-----------------------------------------------------------------------------
(***************************************************************************)
(* The balance.  A step that writes rows of an order adds to the balance   *)
(* what they are worth, and leaves the rows of the others alone.           *)
(***************************************************************************)

entries == [o \in Orders |-> Booked(o)]

LEMMA EntriesAreIntegers ==
  ASSUME TypeOK
  PROVE  entries \in [Orders -> Int]
<1> SUFFICES ASSUME NEW o \in Orders
             PROVE  Booked(o) \in Int
  BY DEF entries
<1>1. /\ ledger[o]["COD_COLLECTION"] \in Nat /\ ledger[o]["earning"] \in Nat
      /\ ledger[o]["compensation"] \in Nat
  BY DEF TypeOK, Rows
<1>2. totalAmount(o) \in Nat /\ driverEarning(o) \in Nat /\ compensation(o) \in Nat
  BY AmountsAreNaturals
<1>3. /\ ledger[o]["COD_COLLECTION"] * totalAmount(o) \in Nat
      /\ ledger[o]["earning"] * driverEarning(o) \in Nat
      /\ ledger[o]["compensation"] * compensation(o) \in Nat
  BY <1>1, <1>2
<1>4. QED
  BY <1>3 DEF Booked

Unfolds ==
  \E h \in [SUBSET Orders -> Int] :
    Sums(h, entries, Orders) /\ MapThenSumSet(Booked, Orders) = h[Orders]

LEMMA BalanceUnfolds == TypeOK => Unfolds
<1> SUFFICES ASSUME TypeOK
             PROVE  Unfolds
  OBVIOUS
<1> DEFINE IsFold(iter) == iter = [s \in SUBSET Orders |->
             IF s = {} THEN 0 ELSE Booked(first(s)) + iter[s \ {first(s)}]]
<1>1. entries \in [Orders -> Int] /\ IsFiniteSet(Orders)
  BY EntriesAreIntegers, PaymentsAssumption
<1>2. MapThenSumSet(Booked, Orders) = (CHOOSE iter : IsFold(iter))[Orders]
  BY DEF MapThenSumSet, MapThenFoldSet, first
<1>3. \A iter : IsFold(iter) <=> iter = [s \in SUBSET Orders |-> sumFrom(iter, entries, s)]
  <2> SUFFICES ASSUME NEW iter
               PROVE  \A s \in SUBSET Orders :
                        (IF s = {} THEN 0 ELSE Booked(first(s)) + iter[s \ {first(s)}])
                          = sumFrom(iter, entries, s)
    OBVIOUS
  <2> SUFFICES ASSUME NEW s \in SUBSET Orders
               PROVE  (IF s = {} THEN 0 ELSE Booked(first(s)) + iter[s \ {first(s)}])
                        = sumFrom(iter, entries, s)
    OBVIOUS
  <2>1. s # {} => entries[first(s)] = Booked(first(s))
    BY FirstIsAMember DEF entries
  <2>2. QED
    BY <2>1 DEF sumFrom
<1>4. \E iter : IsFold(iter)
  <2>1. PICK h \in [SUBSET Orders -> Int] : Sums(h, entries, Orders)
    BY <1>1, SumsExist
  <2>2. h = [s \in SUBSET Orders |-> sumFrom(h, entries, s)]
    BY <2>1 DEF Sums
  <2>3. QED
    BY <1>3, <2>2
<1> HIDE DEF IsFold
<1>5. PICK h : h = (CHOOSE iter : IsFold(iter))
  OBVIOUS
<1>6. IsFold(h)
  BY <1>4, <1>5
<1>7. h = [s \in SUBSET Orders |-> sumFrom(h, entries, s)]
  BY <1>3, <1>6
<1>8. h \in [SUBSET Orders -> Int] /\ Sums(h, entries, Orders)
  <2>1. Sums(h, entries, Orders)
    BY <1>7 DEF Sums
  <2>2. \A s \in SUBSET Orders : h[s] \in Int
    BY <1>1, <2>1, SumsAreIntegers
  <2>3. QED
    BY <1>7, <2>1, <2>2
<1>9. QED
  BY <1>2, <1>5, <1>8 DEF Unfolds


\* A step that makes the rows of one order worth d more makes their sum d more.
LEMMA OneOrderChanges ==
  ASSUME TypeOK, TypeOK', NEW o \in Orders, NEW d \in Int,
         Booked(o)' = Booked(o) + d, \A x \in Orders \ {o} : Booked(x)' = Booked(x)
  PROVE  MapThenSumSet(Booked, Orders)' = MapThenSumSet(Booked, Orders) + d
<1>1. PICK h \in [SUBSET Orders -> Int] :
        Sums(h, entries, Orders) /\ MapThenSumSet(Booked, Orders) = h[Orders]
  BY BalanceUnfolds DEF Unfolds
<1>2. Unfolds'
  BY BalanceUnfolds, PTL
<1>3. PICK k \in [SUBSET Orders -> Int] :
        Sums(k, entries', Orders) /\ MapThenSumSet(Booked, Orders)' = k[Orders]
  BY <1>2 DEF Sums, Unfolds
<1>4. entries \in [Orders -> Int]
  BY EntriesAreIntegers
<1>5. entries' \in [Orders -> Int]
  <2>1. (entries \in [Orders -> Int])'
    BY EntriesAreIntegers, PTL
  <2>2. QED
    BY <2>1
<1>6. entries'[o] = entries[o] + d /\ \A x \in Orders \ {o} : entries'[x] = entries[x]
  BY DEF entries
<1>7. PICK f \in [Orders -> Int], g \in [Orders -> Int] : f = entries /\ g = entries'
  BY <1>4, <1>5
<1>8. Sums(h, f, Orders) /\ Sums(k, g, Orders) /\ IsFiniteSet(Orders)
  BY <1>1, <1>3, <1>7, PaymentsAssumption
<1>9. DiffersAt(f, g, Orders, o, d)
  BY <1>6, <1>7 DEF DiffersAt
<1>10. k[Orders] = h[Orders] + d
  BY <1>8, <1>9, OneTermChanges
<1>11. QED
  BY <1>1, <1>3, <1>10


WalletInv == BooksInv /\ WalletFollowsLedger

\* A step that writes no row and leaves the balance.
LEMMA BooksUntouched ==
  ASSUME WalletInv, BooksInv', UNCHANGED books
  PROVE  WalletInv'
<1>1. UNCHANGED <<walletBalance, ledger>>
  BY DEF books
<1>2. MapThenSumSet(Booked, Orders)' = MapThenSumSet(Booked, Orders)
  BY <1>1 DEF MapThenSumSet, MapThenFoldSet, Booked
<1>3. QED
  BY <1>1, <1>2 DEF WalletInv, WalletFollowsLedger

LEMMA OneMoreIsWorth ==
  ASSUME NEW n \in Nat, NEW each \in Nat
  PROVE  n * each \in Nat /\ (n + 1) * each = n * each + each
OBVIOUS

LEMMA WalletStep ==
  ASSUME WalletInv, [Next]_vars
  PROVE  WalletInv'
<1>1. BooksInv /\ BooksInv' /\ TypeOK /\ TypeOK'
  BY BooksStep DEF WalletInv, BooksInv
<1>2. ledger \in [Orders -> [Rows -> Nat]] /\ walletBalance \in Int
  BY <1>1 DEF TypeOK
<1>3. walletBalance = MapThenSumSet(Booked, Orders)
  BY DEF WalletInv, WalletFollowsLedger
<1>4. ASSUME NEW o \in Orders, NEW d \in Int, walletBalance' = walletBalance + d,
             Booked(o)' = Booked(o) + d, \A x \in Orders \ {o} : Booked(x)' = Booked(x)
      PROVE  WalletInv'
  BY <1>1, <1>3, <1>4, OneOrderChanges DEF WalletInv, WalletFollowsLedger
<1>5. ASSUME NEW t \in Tasks, CodWrite(t)
      PROVE  WalletInv'
  <2>1. task[t] \in Calling
    BY <1>1, <1>5, CallingCalls DEF CodWrite, Idle
  <2>2. PICK o \in Orders : o = task[t].order
    BY <2>1 DEF Calling
  <2>3. /\ ledger' = [ledger EXCEPT ![o] =
             PlusOne(ledger[o], {"COD_COLLECTION", "COMMISSION_DEDUCTION", "earning"})]
        /\ walletBalance' = walletBalance + (totalAmount(o) - driverEarning(o))
    BY <1>5, <2>2 DEF CodWrite
  <2>4. /\ ledger'[o]["COD_COLLECTION"] = ledger[o]["COD_COLLECTION"] + 1
        /\ ledger'[o]["earning"] = ledger[o]["earning"] + 1
        /\ ledger'[o]["compensation"] = ledger[o]["compensation"]
    BY <1>2, <2>3 DEF PlusOne, Rows
  <2>5. \A x \in Orders \ {o} : Booked(x)' = Booked(x)
    BY <1>2, <2>3 DEF Booked
  <2>6. Booked(o)' = Booked(o) + (totalAmount(o) - driverEarning(o))
    <3>1. /\ totalAmount(o) \in Nat /\ driverEarning(o) \in Nat /\ compensation(o) \in Nat
          /\ ledger[o]["COD_COLLECTION"] \in Nat /\ ledger[o]["earning"] \in Nat
          /\ ledger[o]["compensation"] \in Nat
      BY <1>2, AmountsAreNaturals DEF Rows
    <3>2. PICK total \in Nat, earned \in Nat, comp \in Nat :
            total = totalAmount(o) /\ earned = driverEarning(o) /\ comp = compensation(o)
      BY <3>1
    <3>3. /\ Booked(o) = ledger[o]["COD_COLLECTION"] * total - ledger[o]["earning"] * earned
                        + ledger[o]["compensation"] * comp
          /\ Booked(o)' = ledger'[o]["COD_COLLECTION"] * total - ledger'[o]["earning"] * earned
                         + ledger'[o]["compensation"] * comp
      BY <3>2 DEF Booked, totalAmount, driverEarning, compensation, deliveryFee
    <3>4. QED
      BY <2>4, <3>1, <3>2, <3>3, OneMoreIsWorth
  <2>7. totalAmount(o) - driverEarning(o) \in Int
    BY AmountsAreNaturals
  <2>8. QED
    BY <1>4, <2>3, <2>5, <2>6, <2>7
<1>6. ASSUME NEW t \in Tasks, CompWrite(t)
      PROVE  WalletInv'
  <2>1. task[t] \in Calling
    BY <1>1, <1>6, CallingCalls DEF CompWrite, Idle
  <2>2. PICK o \in Orders : o = task[t].order
    BY <2>1 DEF Calling
  <2>3. /\ ledger' = [ledger EXCEPT ![o] = PlusOne(ledger[o], {"compensation"})]
        /\ walletBalance' = walletBalance + compensation(o)
    BY <1>6, <2>2 DEF CompWrite
  <2>4. /\ ledger'[o]["COD_COLLECTION"] = ledger[o]["COD_COLLECTION"]
        /\ ledger'[o]["earning"] = ledger[o]["earning"]
        /\ ledger'[o]["compensation"] = ledger[o]["compensation"] + 1
    BY <1>2, <2>3 DEF PlusOne, Rows
  <2>5. \A x \in Orders \ {o} : Booked(x)' = Booked(x)
    BY <1>2, <2>3 DEF Booked
  <2>6. Booked(o)' = Booked(o) + compensation(o)
    <3>1. /\ totalAmount(o) \in Nat /\ driverEarning(o) \in Nat /\ compensation(o) \in Nat
          /\ ledger[o]["COD_COLLECTION"] \in Nat /\ ledger[o]["earning"] \in Nat
          /\ ledger[o]["compensation"] \in Nat
      BY <1>2, AmountsAreNaturals DEF Rows
    <3>2. PICK total \in Nat, earned \in Nat, comp \in Nat :
            total = totalAmount(o) /\ earned = driverEarning(o) /\ comp = compensation(o)
      BY <3>1
    <3>3. /\ Booked(o) = ledger[o]["COD_COLLECTION"] * total - ledger[o]["earning"] * earned
                        + ledger[o]["compensation"] * comp
          /\ Booked(o)' = ledger'[o]["COD_COLLECTION"] * total - ledger'[o]["earning"] * earned
                         + ledger'[o]["compensation"] * comp
      BY <3>2 DEF Booked, totalAmount, driverEarning, compensation, deliveryFee
    <3>4. QED
      BY <2>4, <3>1, <3>2, <3>3, OneMoreIsWorth
  <2>7. compensation(o) \in Int
    BY AmountsAreNaturals
  <2>8. QED
    BY <1>4, <2>3, <2>5, <2>6, <2>7
<1>7. CASE UNCHANGED books
  BY <1>1, <1>7, BooksUntouched
<1>8. QED
  BY <1>5, <1>6, <1>7 DEF Next, Request, Step, Move, Replay, MoveCommit, CodCheck, CompCheck, Fail, vars, books

(***************************************************************************)
(* For any number of racing, dying and repeated calls, and for every fee   *)
(* and commission rate, the balance of the driver is the sum of what the   *)
(* rows of its orders are worth.                                           *)
(***************************************************************************)
THEOREM WalletFollows == Spec => []WalletFollowsLedger
<1>1. Init => WalletInv
  <2> SUFFICES ASSUME Init
               PROVE  walletBalance = MapThenSumSet(Booked, Orders)
    BY BooksInit DEF WalletInv, WalletFollowsLedger
  <2>1. TypeOK
    BY BooksInit DEF BooksInv
  <2>2. PICK h \in [SUBSET Orders -> Int] :
          Sums(h, entries, Orders) /\ MapThenSumSet(Booked, Orders) = h[Orders]
    BY <2>1, BalanceUnfolds DEF Unfolds
  <2>3. PICK f \in [Orders -> Int] : f = entries
    BY <2>1, EntriesAreIntegers
  <2>4. \A o \in Orders : f[o] = 0
    <3> SUFFICES ASSUME NEW o \in Orders
                 PROVE  Booked(o) = 0
      BY <2>3 DEF entries
    <3>1. totalAmount(o) \in Nat /\ driverEarning(o) \in Nat /\ compensation(o) \in Nat
      BY AmountsAreNaturals
    <3>2. /\ ledger[o]["COD_COLLECTION"] = 0 /\ ledger[o]["earning"] = 0
          /\ ledger[o]["compensation"] = 0
      BY DEF Init, Rows
    <3>3. QED
      BY <3>1, <3>2 DEF Booked
  <2>5. h[Orders] = 0
    BY <2>2, <2>3, <2>4, SumOfNothing, PaymentsAssumption
  <2>6. QED
    BY <2>2, <2>5 DEF Init
<1>2. WalletInv => WalletFollowsLedger
  BY DEF WalletInv
<1>3. QED
  BY <1>1, <1>2, WalletStep, PTL DEF Spec

-----------------------------------------------------------------------------
(***************************************************************************)
(* One call at a time.  What the checks of a handler saw still holds when  *)
(* it writes, and no call moves an order on whose outcome is booked.       *)
(***************************************************************************)

Alone == \A t, u \in Tasks : t # u => task[t] = Idle \/ task[u] = Idle

\* An outcome that is booked is the one the order has, and is booked once.
OrderOnce(status, paid, rows) ==
  /\ paid <= 1 /\ rows["compensation"] <= 1
  /\ paid > 0 => status = "DELIVERED"
  /\ rows["compensation"] > 0 => status = "RETURNED"

CallSees(c, status, paid, rows) ==
  /\ c.pc = "move.commit" => canTransition(status, c.to)
  /\ c.pc \in {"cod.check", "cod.write"} => status = "DELIVERED"
  /\ c.pc \in {"comp.check", "comp.write"} => status = "RETURNED"
  /\ c.pc = "cod.write" => paid = 0
  /\ c.pc = "comp.write" => rows["compensation"] = 0

OnceInv ==
  /\ BooksInv
  /\ \A o \in Orders : OrderOnce(orderStatus[o], payments[o], ledger[o])
  /\ \A t \in Tasks, o \in Orders :
       task[t] # Idle /\ task[t].order = o
         => CallSees(task[t], orderStatus[o], payments[o], ledger[o])

LEMMA OutcomesAreFinal ==
  /\ ~ \E to : canTransition("DELIVERED", to)
  /\ ~ \E to : canTransition("RETURNED", to)
BY DEF canTransition, ORDER_TRANSITIONS, OrderStatus, FAILURE_STATUSES, TERMINAL_STATUSES

LEMMA OnceInit == Init => OnceInv
BY BooksInit DEF Init, OnceInv, OrderOnce, Rows, Idle

\* A step that books nothing and moves no order: only the call has to be looked at.
LEMMA OnceCall ==
  ASSUME NEW t0 \in Tasks, OnceInv, BooksInv', UNCHANGED <<orderStatus, books>>,
         \A u \in Tasks \ {t0} : task'[u] = task[u],
         \/ task'[t0] = Idle
         \/ \A o \in Orders : task'[t0].order = o
              => CallSees(task'[t0], orderStatus[o], payments[o], ledger[o])
  PROVE  OnceInv'
BY DEF OnceInv, books

LEMMA OthersStay ==
  ASSUME TypeOK, NEW t \in Tasks, Request(t) \/ Step(t) \/ Fail(t) \/ UNCHANGED vars
  PROVE  \A u \in Tasks \ {t} : task'[u] = task[u]
<1>1. task \in [Tasks -> {Idle} \cup Calling]
  BY DEF TypeOK
<1>2. CASE Request(t)
  BY <1>1, <1>2 DEF Request, Move, Replay
<1>3. CASE Step(t)
  BY <1>1, <1>3 DEF Step, MoveCommit, CodCheck, CodWrite, CompCheck, CompWrite, Ends, Goto
<1>4. CASE Fail(t) \/ UNCHANGED vars
  BY <1>1, <1>4 DEF Fail, Ends, vars
<1>5. QED
  BY <1>2, <1>3, <1>4

LEMMA OnceStep ==
  ASSUME OnceInv, Alone, [Next]_vars
  PROVE  OnceInv'
<1> SUFFICES ASSUME NEW t0 \in Tasks, Request(t0) \/ Step(t0) \/ Fail(t0) \/ UNCHANGED vars
             PROVE  OnceInv'
  <2>1. CASE UNCHANGED vars
    <3>1. BooksInv'
      BY BooksStep DEF OnceInv
    <3>2. QED
      BY <2>1, <3>1 DEF vars, OnceInv
  <2>2. QED
    BY <2>1 DEF Next
<1>0. \A u \in Tasks \ {t0} : task'[u] = task[u]
  BY OthersStay DEF OnceInv, BooksInv
<1>1. BooksInv /\ BooksInv' /\ TypeOK
  BY BooksStep DEF OnceInv, BooksInv
<1>2. /\ task \in [Tasks -> {Idle} \cup Calling]
      /\ orderStatus \in [Orders -> OrderStatus] /\ payments \in [Orders -> Nat]
      /\ ledger \in [Orders -> [Rows -> Nat]]
  BY <1>1 DEF TypeOK
<1>3. ASSUME NEW o \in Orders, NEW to \in Targets, Move(t0, o, to)
      PROVE  OnceInv'
  BY <1>1, <1>2, <1>3, <1>0, OnceCall DEF Move, CallSees
<1>4. ASSUME NEW o \in Orders, Replay(t0, o)
      PROVE  OnceInv'
  BY <1>1, <1>2, <1>4, <1>0, OnceCall DEF Replay, CallSees
<1>5. ASSUME Fail(t0)
      PROVE  OnceInv'
  BY <1>1, <1>2, <1>5, <1>0, OnceCall, CallMoves DEF Fail, Ends
<1>6. ASSUME MoveCommit(t0)
      PROVE  OnceInv'
  <2>1. task[t0] \in Calling /\ task[t0] # Idle
    BY <1>1, <1>6, CallingCalls DEF MoveCommit, Idle
  <2>2. PICK o \in Orders, to \in OrderStatus : o = task[t0].order /\ to = task[t0].to
    BY <2>1 DEF Calling
  <2>3. canTransition(orderStatus[o], to) /\ OrderOnce(orderStatus[o], payments[o], ledger[o])
    BY <1>6, <2>1, <2>2 DEF OnceInv, CallSees, MoveCommit
  <2>4. payments[o] = 0 /\ ledger[o]["compensation"] = 0
    BY <1>2, <2>3, OutcomesAreFinal DEF OrderOnce, Rows
  <2>5. /\ orderStatus' = [orderStatus EXCEPT ![o] = to] /\ UNCHANGED <<payments, ledger>>
        /\ \/ to = "DELIVERED" /\ Goto(t0, "cod.check")
           \/ to = "RETURNED" /\ Goto(t0, "comp.check")
           \/ Ends(t0)
    BY <1>6, <2>2 DEF MoveCommit, books
  <2>6. \A x \in Orders : OrderOnce(orderStatus'[x], payments'[x], ledger'[x])
    BY <1>2, <2>4, <2>5 DEF OnceInv, OrderOnce
  <2>7. \/ task'[t0] = Idle
        \/ task'[t0].order = o /\ CallSees(task'[t0], orderStatus'[o], payments'[o], ledger'[o])
    <3>1. CASE to = "DELIVERED" /\ Goto(t0, "cod.check")
      <4>1. task'[t0].pc = "cod.check" /\ task'[t0].order = o
        BY <1>1, <2>1, <2>2, <3>1, CallMoves
      <4>2. orderStatus'[o] = "DELIVERED"
        BY <1>2, <2>5, <3>1
      <4>3. QED
        BY <4>1, <4>2 DEF CallSees
    <3>2. CASE to = "RETURNED" /\ Goto(t0, "comp.check")
      <4>1. task'[t0].pc = "comp.check" /\ task'[t0].order = o
        BY <1>1, <2>1, <2>2, <3>2, CallMoves
      <4>2. orderStatus'[o] = "RETURNED"
        BY <1>2, <2>5, <3>2
      <4>3. QED
        BY <4>1, <4>2 DEF CallSees
    <3>3. CASE Ends(t0)
      BY <1>1, <2>1, <3>3, CallMoves
    <3>4. QED
      BY <2>5, <3>1, <3>2, <3>3
  <2>8. QED
    BY <1>0, <1>1, <2>1, <2>6, <2>7 DEF OnceInv, Alone
<1>7. ASSUME CodCheck(t0)
      PROVE  OnceInv'
  <2>1. task[t0] \in Calling /\ task[t0] # Idle
    BY <1>1, <1>7, CallingCalls DEF CodCheck, Idle
  <2>2. PICK o \in Orders : o = task[t0].order
    BY <2>1 DEF Calling
  <2>3. orderStatus[o] = "DELIVERED"
    BY <1>7, <2>1, <2>2 DEF OnceInv, CallSees, CodCheck
  <2>4. (payments[o] = 0 /\ Goto(t0, "cod.write")) \/ Ends(t0)
    BY <1>2, <1>7, <2>2 DEF CodCheck
  <2>5. \/ task'[t0] = Idle
        \/ task'[t0].order = o /\ CallSees(task'[t0], orderStatus[o], payments[o], ledger[o])
    BY <1>1, <2>1, <2>2, <2>3, <2>4, CallMoves DEF CallSees
  <2>6. QED
    BY <1>1, <1>7, <2>5, <1>0, OnceCall DEF CodCheck
<1>8. ASSUME CompCheck(t0)
      PROVE  OnceInv'
  <2>1. task[t0] \in Calling /\ task[t0] # Idle
    BY <1>1, <1>8, CallingCalls DEF CompCheck, Idle
  <2>2. PICK o \in Orders : o = task[t0].order
    BY <2>1 DEF Calling
  <2>3. orderStatus[o] = "RETURNED"
    BY <1>8, <2>1, <2>2 DEF OnceInv, CallSees, CompCheck
  <2>4. ledger[o]["earning"] \in Nat /\ ledger[o]["compensation"] \in Nat
    BY <1>2 DEF Rows
  <2>5. (ledger[o]["compensation"] = 0 /\ Goto(t0, "comp.write")) \/ Ends(t0)
    BY <1>8, <2>2, <2>4 DEF CompCheck, payouts
  <2>6. \/ task'[t0] = Idle
        \/ task'[t0].order = o /\ CallSees(task'[t0], orderStatus[o], payments[o], ledger[o])
    BY <1>1, <2>1, <2>2, <2>3, <2>5, CallMoves DEF CallSees
  <2>7. QED
    BY <1>1, <1>8, <2>6, <1>0, OnceCall DEF CompCheck
<1>9. ASSUME CodWrite(t0)
      PROVE  OnceInv'
  <2>1. task[t0] \in Calling /\ task[t0] # Idle
    BY <1>1, <1>9, CallingCalls DEF CodWrite, Idle
  <2>2. PICK o \in Orders : o = task[t0].order
    BY <2>1 DEF Calling
  <2>3. orderStatus[o] = "DELIVERED" /\ payments[o] = 0
    BY <1>9, <2>1, <2>2 DEF OnceInv, CallSees, CodWrite
  <2>4. /\ payments' = [payments EXCEPT ![o] = payments[o] + 1]
        /\ ledger' = [ledger EXCEPT ![o] =
             PlusOne(ledger[o], {"COD_COLLECTION", "COMMISSION_DEDUCTION", "earning"})]
        /\ UNCHANGED orderStatus
    BY <1>9, <2>2 DEF CodWrite
  <2>5. \A x \in Orders : OrderOnce(orderStatus'[x], payments'[x], ledger'[x])
    BY <1>2, <2>3, <2>4 DEF OnceInv, OrderOnce, PlusOne, Rows
  <2>6. task'[t0] = Idle
    BY <1>1, <1>9, <2>1, CallMoves DEF CodWrite
  <2>7. QED
    BY <1>0, <1>1, <2>1, <2>5, <2>6 DEF OnceInv, Alone
<1>10. ASSUME CompWrite(t0)
       PROVE  OnceInv'
  <2>1. task[t0] \in Calling /\ task[t0] # Idle
    BY <1>1, <1>10, CallingCalls DEF CompWrite, Idle
  <2>2. PICK o \in Orders : o = task[t0].order
    BY <2>1 DEF Calling
  <2>3. orderStatus[o] = "RETURNED" /\ ledger[o]["compensation"] = 0
    BY <1>10, <2>1, <2>2 DEF OnceInv, CallSees, CompWrite
  <2>4. /\ ledger' = [ledger EXCEPT ![o] = PlusOne(ledger[o], {"compensation"})]
        /\ UNCHANGED <<orderStatus, payments>>
    BY <1>10, <2>2 DEF CompWrite
  <2>5. \A x \in Orders : OrderOnce(orderStatus'[x], payments'[x], ledger'[x])
    BY <1>2, <2>3, <2>4 DEF OnceInv, OrderOnce, PlusOne, Rows
  <2>6. task'[t0] = Idle
    BY <1>1, <1>10, <2>1, CallMoves DEF CompWrite
  <2>7. QED
    BY <1>0, <1>1, <2>1, <2>5, <2>6 DEF OnceInv, Alone
<1>11. CASE UNCHANGED vars
  BY <1>1, <1>11 DEF vars, OnceInv
<1>12. QED
  BY <1>3, <1>4, <1>5, <1>6, <1>7, <1>8, <1>9, <1>10, <1>11 DEF Request, Step

LEMMA OnceIsOnce == OnceInv => CollectedOnce /\ PaidOutOnce
<1> SUFFICES ASSUME OnceInv, NEW o \in Orders
             PROVE  ledger[o]["COD_COLLECTION"] <= 1 /\ payouts(o) <= 1
  BY DEF CollectedOnce, PaidOutOnce
<1>1. /\ payments[o] \in Nat /\ ledger[o] \in [Rows -> Nat]
      /\ ledger[o]["COD_COLLECTION"] = payments[o] /\ ledger[o]["earning"] = payments[o]
  BY DEF OnceInv, BooksInv, TypeOK, PaymentsAreBooked
<1>2. OrderOnce(orderStatus[o], payments[o], ledger[o])
  BY DEF OnceInv
<1>3. ledger[o]["compensation"] \in Nat
  BY <1>1 DEF Rows
<1>4. QED
  BY <1>1, <1>2, <1>3 DEF OrderOnce, payouts

(***************************************************************************)
(* With one call at a time, whatever dies and however often events are     *)
(* delivered again, an order is collected once and paid out once.          *)
(***************************************************************************)
THEOREM SerialOnce ==
  ASSUME NEW CONSTANT t0, Tasks = {t0}
  PROVE  Spec => [](CollectedOnce /\ PaidOutOnce)
<1>1. OnceInv /\ [Next]_vars => OnceInv'
  BY OnceStep DEF Alone
<1>2. QED
  BY <1>1, OnceInit, OnceIsOnce, PTL DEF Spec

\* Until two calls are in progress at once, the books are those of one call at a time.
RacedInv == BooksInv /\ (raced \/ (Alone /\ OnceInv))

LEMMA WatchedSteps ==
  ASSUME [WatchedNext]_watched
  PROVE  [Next]_vars /\ ((UNCHANGED vars /\ raced' = raced) \/ Remembers)
BY DEF WatchedNext, watched, Next

LEMMA RacedStep ==
  ASSUME RacedInv, [WatchedNext]_watched
  PROVE  RacedInv'
<1>1. [Next]_vars /\ ((UNCHANGED vars /\ raced' = raced) \/ Remembers)
  BY WatchedSteps
<1>2. BooksInv'
  BY <1>1, BooksStep DEF RacedInv
<1>3. CASE Alone /\ OnceInv
  <2>1. OnceInv'
    BY <1>1, <1>3, OnceStep
  <2>2. raced' \/ Alone'
    BY <1>1, <1>3 DEF Remembers, Alone, vars
  <2>3. QED
    BY <1>2, <2>1, <2>2 DEF RacedInv
<1>4. CASE raced
  BY <1>1, <1>2, <1>4 DEF Remembers, RacedInv
<1>5. QED
  BY <1>3, <1>4 DEF RacedInv

(***************************************************************************)
(* For any number of calls, as long as no two have been in progress at     *)
(* once: a second payment or payout needs a race, and no death or repeated *)
(* event makes one.                                                        *)
(***************************************************************************)
THEOREM OnceUnlessRaced == WatchedSpec => []BookedOnceUnlessRaced
<1>1. WatchedInit => RacedInv
  BY OnceInit DEF WatchedInit, RacedInv, OnceInv, Alone, Init
<1>2. RacedInv => BookedOnceUnlessRaced
  BY OnceIsOnce DEF RacedInv, BookedOnceUnlessRaced
<1>3. QED
  BY <1>1, <1>2, RacedStep, PTL DEF WatchedSpec
=============================================================================
