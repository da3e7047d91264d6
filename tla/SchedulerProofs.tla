--------------------------- MODULE SchedulerProofs ---------------------------
(***************************************************************************)
(* Safety of the scheduler for every set of processes, boot order,         *)
(* priority and client program: Scheduler's invariants as theorems.        *)
(*                                                                         *)
(* The inductive invariant SchedInv is the conjunction of the type, of     *)
(* QueuesDisjoint, LinksMatchStates and NoAssertFails.  None of the three  *)
(* is inductive alone: an assertion holds because the states say who is    *)
(* linked, the states stay right because an element is linked once, and    *)
(* elements stay linked once because the assertions hold.                  *)
(*                                                                         *)
(* First, what the operators of PrioQueue return, for queues of every      *)
(* length and priorities of every value.                                   *)
(***************************************************************************)
EXTENDS Scheduler, SequenceTheorems, FiniteSetTheorems, TLAPS

(***************************************************************************)
(* A non-empty set of naturals has a least element.  It stands in for      *)
(* induction: the strict subset ordering on the intervals 0 .. x is well   *)
(* founded.                                                                *)
(***************************************************************************)
LEMMA LeastNat ==
  ASSUME NEW T \in SUBSET Nat, T # {}
  PROVE  \E x \in T : \A y \in T : x <= y
<1> DEFINE F == {0 .. x : x \in T}
<1>1. F \subseteq FiniteSubsetsOf(Nat)
  <2> SUFFICES ASSUME NEW x \in T  PROVE 0 .. x \in FiniteSubsetsOf(Nat)
    OBVIOUS
  <2>1. IsFiniteSet(0 .. x)
    BY FS_Interval
  <2> QED BY <2>1 DEF FiniteSubsetsOf
<1>2. F # {}
  OBVIOUS
<1>3. IsWellFoundedOn(StrictSubsetOrdering(Nat), FiniteSubsetsOf(Nat))
  BY FS_StrictSubsetOrderingWellFounded
<1>4. PICK X \in F : \A Y \in F : <<Y, X>> \notin StrictSubsetOrdering(Nat)
  <2> HIDE DEF F
  <2> QED BY <1>1, <1>2, <1>3, WFMin, Zenon
<1>5. PICK x \in T : X = 0 .. x
  OBVIOUS
<1>6. ASSUME NEW y \in T, y < x PROVE FALSE
  <2>1. 0 .. y \in F
    OBVIOUS
  <2>2. <<0 .. y, 0 .. x>> \in StrictSubsetOrdering(Nat)
    BY <1>6 DEF StrictSubsetOrdering
  <2> QED BY <1>4, <1>5, <2>1, <2>2
<1> QED BY <1>6

(* The minimum of a set of naturals, and remainders of the numbers that    *)
(* rings add and subtract.                                                 *)
LEMMA MinOfNats ==
  ASSUME NEW T \in SUBSET Nat, T # {}
  PROVE  Min(T) \in T /\ \A y \in T : Min(T) <= y
BY LeastNat DEF Min

LEMMA RemainderFits ==
  ASSUME NEW i \in Int, NEW n \in Nat \ {0}
  PROVE  i % n \in 0 .. n - 1
BY SMTT(30)

LEMMA ModOnce ==
  ASSUME NEW S \in Nat \ {0}, NEW x \in Nat, x < S
  PROVE  /\ x % S = x
         /\ (x + S) % S = x
         /\ (x - S) % S = x
<1>1. x % S = x
  BY SMTT(30)
<1>2. (x + S) % S = x
  BY SMTT(30)
<1>3. (x - S) % S = x
  BY SMTT(30)
<1> QED BY <1>1, <1>2, <1>3

(* r is q with p inserted at position k.                                   *)
InsertedAt(q, p, k, r) ==
  /\ Len(r) = Len(q) + 1
  /\ \A i \in 1 .. k - 1 : r[i] = q[i]
  /\ r[k] = p
  /\ \A i \in k .. Len(q) : r[i + 1] = q[i]

(* The elements of InsertAt, position by position.                         *)
LEMMA InsertAtFacts ==
  ASSUME NEW S, NEW q \in Seq(S), NEW p \in S, NEW k \in 1 .. Len(q) + 1
  PROVE  InsertAt(q, k, p) \in Seq(S) /\ InsertedAt(q, p, k, InsertAt(q, k, p))
<1> DEFINE A == SubSeq(q, 1, k - 1)
           C == SubSeq(q, k, Len(q))
           B == A \o <<p>>
<1>1. A \in Seq(S) /\ Len(A) = k - 1 /\ \A i \in 1 .. k - 1 : A[i] = q[i]
  OBVIOUS
<1>2. /\ C \in Seq(S) /\ Len(C) = Len(q) - k + 1
      /\ \A i \in 1 .. Len(q) - k + 1 : C[i] = q[k + i - 1]
  OBVIOUS
<1>3. InsertAt(q, k, p) = B \o C
  BY DEF InsertAt
<1>4. <<p>> \in Seq(S) /\ Len(<<p>>) = 1 /\ <<p>>[1] = p
  OBVIOUS
<1> HIDE DEF A, C
<1>5. /\ B \in Seq(S) /\ Len(B) = k /\ B[k] = p
      /\ \A i \in 1 .. k - 1 : B[i] = q[i]
  <2>1. /\ B \in Seq(S) /\ Len(B) = k
        /\ \A i \in 1 .. k : B[i] = IF i <= k - 1 THEN A[i] ELSE <<p>>[i - (k - 1)]
    BY <1>1, <1>4, ConcatProperties
  <2>2. B[k] = p
    BY <1>4, <2>1
  <2> QED BY <1>1, <2>1, <2>2
<1> HIDE DEF B
<1>6. /\ B \o C \in Seq(S) /\ Len(B \o C) = Len(q) + 1
      /\ \A i \in 1 .. Len(q) + 1 :
            (B \o C)[i] = IF i <= k THEN B[i] ELSE C[i - k]
  BY <1>2, <1>5, ConcatProperties
<1>7. \A i \in 1 .. k - 1 : (B \o C)[i] = q[i]
  BY <1>5, <1>6
<1>8. (B \o C)[k] = p
  BY <1>5, <1>6
<1>9. ASSUME NEW i \in k .. Len(q) PROVE (B \o C)[i + 1] = q[i]
  <2>1. i + 1 \in 1 .. Len(q) + 1 /\ ~ (i + 1 <= k)
    OBVIOUS
  <2>2. (i + 1) - k \in 1 .. Len(q) - k + 1 /\ k + ((i + 1) - k) - 1 = i
    OBVIOUS
  <2>3. (B \o C)[i + 1] = C[(i + 1) - k]
    BY <1>6, <2>1
  <2>4. C[(i + 1) - k] = q[i]
    BY <1>2, <2>2
  <2> QED BY <2>3, <2>4
<1>10. InsertedAt(q, p, k, B \o C)
  BY <1>6, <1>7, <1>8, <1>9 DEF InsertedAt
<1> QED BY <1>3, <1>6, <1>10

(* The walk of queue_add stops, at the first element that is not smaller.  *)
LEMMA LinkPosFacts ==
  ASSUME NEW S, NEW q \in Seq(S), NEW p \in S, NEW key \in [S -> Int]
  PROVE  /\ LinkPos(q, p, key) \in 1 .. Len(q) + 1
         /\ \A i \in 1 .. LinkPos(q, p, key) - 1 : key[q[i]] < key[p]
         /\ LinkPos(q, p, key) <= Len(q) => key[q[LinkPos(q, p, key)]] >= key[p]
<1> DEFINE T == {i \in 1 .. Len(q) + 1 : i <= Len(q) => key[q[i]] >= key[p]}
<1>1. T \in SUBSET Nat /\ Len(q) + 1 \in T /\ Len(q) \in Nat
  OBVIOUS
<1>2. PICK k \in T : \A y \in T : k <= y
  <2> HIDE DEF T
  <2> QED BY <1>1, LeastNat
<1>3. \A i \in 1 .. k - 1 : key[q[i]] < key[p]
  BY <1>1, <1>2
<1> QED BY <1>1, <1>2, <1>3 DEF LinkPos

(***************************************************************************)
(* queue_add, position by position.  The witness k abstracts from where    *)
(* the walk stops; the last two conjuncts are what it guarantees there.    *)
(***************************************************************************)
LEMMA QueueAddPositions ==
  ASSUME NEW S, NEW q \in Seq(S), NEW p \in S, NEW key \in [S -> Int]
  PROVE  \E k \in 1 .. Len(q) + 1 :
            /\ QueueAdd(q, p, key) \in Seq(S)
            /\ InsertedAt(q, p, k, QueueAdd(q, p, key))
            /\ \A i \in 1 .. k - 1 : key[q[i]] < key[p]
            /\ k <= Len(q) => key[q[k]] >= key[p]
<1> DEFINE k == LinkPos(q, p, key)
<1>1. /\ k \in 1 .. Len(q) + 1
      /\ \A i \in 1 .. k - 1 : key[q[i]] < key[p]
      /\ k <= Len(q) => key[q[k]] >= key[p]
  BY LinkPosFacts
<1>2. QueueAdd(q, p, key) = InsertAt(q, k, p)
  BY DEF QueueAdd
<1> HIDE DEF k
<1>3. /\ QueueAdd(q, p, key) \in Seq(S)
      /\ InsertedAt(q, p, k, QueueAdd(q, p, key))
  <2>1. k \in 1 .. Len(q) + 1
    BY <1>1
  <2> QED BY <1>2, <2>1, InsertAtFacts
<1> QED BY <1>1, <1>3

(* The new element and the old ones, and nothing twice.                    *)
LEMMA InsertedFacts ==
  ASSUME NEW S, NEW q \in Seq(S), NEW p \in S, NEW k \in 1 .. Len(q) + 1,
         NEW r \in Seq(S), InsertedAt(q, p, k, r)
  PROVE  /\ r # <<>>
         /\ \A x : Has(r, x) <=> x = p \/ Has(q, x)
         /\ NoRepeat(q) /\ ~ Has(q, p) => NoRepeat(r)
<1>1. /\ r \in Seq(S) /\ Len(r) = Len(q) + 1
      /\ \A i \in 1 .. k - 1 : r[i] = q[i]
      /\ r[k] = p
      /\ \A i \in k .. Len(q) : r[i + 1] = q[i]
  BY DEF InsertedAt
<1>2. Len(q) \in Nat /\ DOMAIN q = 1 .. Len(q) /\ DOMAIN r = 1 .. Len(q) + 1
  BY <1>1
(* The place in q of what r has at place i, and the other way round.       *)
<1>3. \A i \in 1 .. Len(q) + 1 :
         \/ i < k /\ i \in 1 .. Len(q) /\ r[i] = q[i]
         \/ i = k /\ r[i] = p
         \/ i > k /\ i - 1 \in 1 .. Len(q) /\ r[i] = q[i - 1]
  <2> SUFFICES ASSUME NEW i \in 1 .. Len(q) + 1, i > k
               PROVE  i - 1 \in 1 .. Len(q) /\ r[i] = q[i - 1]
    BY <1>1, <1>2
  <2>1. i - 1 \in k .. Len(q) /\ (i - 1) + 1 = i /\ i - 1 \in 1 .. Len(q)
    BY <1>2
  <2> QED BY <1>1, <2>1
<1>4. ASSUME NEW x, Has(r, x) PROVE x = p \/ Has(q, x)
  <2>1. PICK i \in 1 .. Len(q) + 1 : r[i] = x
    BY <1>2, <1>4 DEF Has
  <2> QED BY <1>2, <1>3, <2>1 DEF Has
<1>5. ASSUME NEW x, Has(q, x) PROVE Has(r, x)
  <2>1. PICK i \in 1 .. Len(q) : q[i] = x
    BY <1>2, <1>5 DEF Has
  <2>2. CASE i < k
    <3>1. i \in DOMAIN r /\ r[i] = x
      BY <1>1, <1>2, <2>1, <2>2
    <3> QED BY <3>1 DEF Has
  <2>3. CASE i >= k
    <3>1. i + 1 \in DOMAIN r /\ r[i + 1] = x
      BY <1>1, <1>2, <2>1, <2>3
    <3> QED BY <3>1 DEF Has
  <2> QED BY <1>1, <2>2, <2>3
<1>6. Has(r, p)
  BY <1>1, <1>2 DEF Has
<1>7. ASSUME NoRepeat(q), ~ Has(q, p) PROVE NoRepeat(r)
  <2>1. \A m \in 1 .. Len(q) : q[m] # p
    BY <1>2, <1>7 DEF Has
  <2>2. \A m, n \in 1 .. Len(q) : q[m] = q[n] => m = n
    BY <1>2, <1>7 DEF NoRepeat
  <2>3. ASSUME NEW i \in 1 .. Len(q) + 1, NEW j \in 1 .. Len(q) + 1,
               i < j, r[i] = r[j]
        PROVE  FALSE
    <3>1. CASE i < k
      <4>1. i \in 1 .. Len(q) /\ r[i] = q[i]
        BY <1>3, <3>1
      <4>2. CASE j < k
        <5>1. j \in 1 .. Len(q) /\ r[j] = q[j]
          BY <1>3, <4>2
        <5>2. j = i
          BY <2>2, <2>3, <4>1, <5>1
        <5> QED BY <2>3, <5>2
      <4>3. CASE j = k
        BY <1>1, <2>1, <2>3, <4>1, <4>3
      <4>4. CASE j > k
        <5>1. j - 1 \in 1 .. Len(q) /\ r[j] = q[j - 1]
          BY <1>3, <4>4
        <5>2. j - 1 = i
          BY <2>2, <2>3, <4>1, <5>1
        <5> QED BY <3>1, <4>4, <5>2
      <4> QED BY <4>2, <4>3, <4>4
    <3>2. CASE i >= k
      <4>1. j > k /\ j - 1 \in 1 .. Len(q) /\ r[j] = q[j - 1]
        BY <1>3, <2>3, <3>2
      <4>2. CASE i = k
        BY <1>1, <2>1, <2>3, <4>1, <4>2
      <4>3. CASE i > k
        <5>1. i - 1 \in 1 .. Len(q) /\ q[i - 1] = q[j - 1]
          BY <1>3, <2>3, <4>1, <4>3
        <5>2. i - 1 = j - 1
          BY <2>2, <4>1, <5>1
        <5> QED BY <2>3, <5>2
      <4> QED BY <3>2, <4>2, <4>3
    <3> QED BY <3>1, <3>2
  <2>4. \A i, j \in 1 .. Len(q) + 1 : r[i] = r[j] => ~ (i < j) /\ ~ (j < i)
    BY <2>3
  <2> QED BY <1>2, <2>4 DEF NoRepeat
<1>8. r # <<>>
  BY <1>1, <1>2
<1> QED BY <1>1, <1>4, <1>5, <1>6, <1>7, <1>8

LEMMA QueueAddFacts ==
  ASSUME NEW S, NEW q \in Seq(S), NEW p \in S, NEW key \in [S -> Int]
  PROVE  /\ QueueAdd(q, p, key) \in Seq(S)
         /\ QueueAdd(q, p, key) # <<>>
         /\ \A x : Has(QueueAdd(q, p, key), x) <=> x = p \/ Has(q, x)
         /\ NoRepeat(q) /\ ~ Has(q, p) => NoRepeat(QueueAdd(q, p, key))
<1> DEFINE r == QueueAdd(q, p, key)
<1>1. PICK k \in 1 .. Len(q) + 1 : r \in Seq(S) /\ InsertedAt(q, p, k, r)
  BY QueueAddPositions
<1> HIDE DEF r
<1>2. /\ r # <<>>
      /\ \A x : Has(r, x) <=> x = p \/ Has(q, x)
      /\ NoRepeat(q) /\ ~ Has(q, p) => NoRepeat(r)
  BY <1>1, InsertedFacts
<1> QED BY <1>1, <1>2 DEF r

(* An element inserted behind those that are not greater, and in front of  *)
(* one that is not smaller, keeps the ascending order.                     *)
LEMMA InsertedAscending ==
  ASSUME NEW S, NEW q \in Seq(S), NEW p \in S, NEW key \in [S -> Int],
         Ascending(q, key), NEW k \in 1 .. Len(q) + 1,
         NEW r \in Seq(S), InsertedAt(q, p, k, r),
         \A i \in 1 .. k - 1 : key[q[i]] <= key[p],
         k <= Len(q) => key[q[k]] >= key[p]
  PROVE  Ascending(r, key)
<1>1. /\ r \in Seq(S) /\ Len(r) = Len(q) + 1
      /\ \A i \in 1 .. k - 1 : r[i] = q[i]
      /\ r[k] = p
      /\ \A i \in k .. Len(q) : r[i + 1] = q[i]
      /\ \A i \in 1 .. k - 1 : key[q[i]] <= key[p]
      /\ k <= Len(q) => key[q[k]] >= key[p]
  BY DEF InsertedAt
<1>2. /\ Len(q) \in Nat /\ DOMAIN q = 1 .. Len(q) /\ DOMAIN r = 1 .. Len(q) + 1
      /\ key[p] \in Int /\ \A i \in 1 .. Len(q) : key[q[i]] \in Int
  BY <1>1
<1>3. ASSUME NEW i \in 1 .. Len(q), NEW j \in 1 .. Len(q), i <= j
      PROVE  key[q[i]] <= key[q[j]]
  <2>1. CASE i = j
    BY <1>2, <2>1
  <2>2. CASE i < j
    BY <1>2, <2>2 DEF Ascending
  <2> QED BY <1>3, <2>1, <2>2
<1>4. ASSUME NEW i \in 1 .. Len(q), i >= k PROVE key[q[i]] >= key[p]
  <2>1. k \in 1 .. Len(q) /\ key[q[k]] >= key[p]
    BY <1>1, <1>2, <1>4
  <2>2. key[q[k]] <= key[q[i]]
    BY <1>3, <1>4, <2>1
  <2> QED BY <1>2, <2>1, <2>2
<1>5. \A i \in 1 .. Len(q) + 1 :
         \/ i < k /\ i \in 1 .. Len(q) /\ r[i] = q[i] /\ key[q[i]] <= key[p]
         \/ i = k /\ r[i] = p
         \/ /\ i > k /\ i - 1 \in 1 .. Len(q) /\ i - 1 >= k
            /\ r[i] = q[i - 1] /\ key[q[i - 1]] >= key[p]
  <2> SUFFICES ASSUME NEW i \in 1 .. Len(q) + 1, i > k
               PROVE  /\ i - 1 \in 1 .. Len(q) /\ i - 1 >= k
                      /\ r[i] = q[i - 1] /\ key[q[i - 1]] >= key[p]
    BY <1>1, <1>2
  <2>1. /\ i - 1 \in k .. Len(q) /\ (i - 1) + 1 = i
        /\ i - 1 \in 1 .. Len(q) /\ i - 1 >= k
    BY <1>2
  <2> QED BY <1>1, <1>4, <2>1
<1>6. ASSUME NEW i \in 1 .. Len(q) + 1, NEW j \in 1 .. Len(q) + 1, i < j
      PROVE  key[r[i]] <= key[r[j]]
  <2>1. CASE i < k
    <3>1. i \in 1 .. Len(q) /\ r[i] = q[i] /\ key[q[i]] <= key[p]
      BY <1>5, <2>1
    <3>2. CASE j < k
      <4>1. j \in 1 .. Len(q) /\ r[j] = q[j]
        BY <1>5, <3>2
      <4> QED BY <1>3, <1>6, <3>1, <4>1
    <3>3. CASE j = k
      BY <1>1, <1>2, <3>1, <3>3
    <3>4. CASE j > k
      <4>1. j - 1 \in 1 .. Len(q) /\ r[j] = q[j - 1] /\ key[q[j - 1]] >= key[p]
        BY <1>5, <3>4
      <4> QED BY <1>2, <3>1, <4>1
    <3> QED BY <3>2, <3>3, <3>4
  <2>2. CASE i >= k
    <3>0. j > k
      BY <1>6, <2>2
    <3>1. /\ j - 1 \in 1 .. Len(q) /\ j - 1 >= k
          /\ r[j] = q[j - 1] /\ key[q[j - 1]] >= key[p]
      BY <1>5, <3>0
    <3>2. CASE i = k
      BY <1>1, <3>1, <3>2
    <3>3. CASE i > k
      <4>1. i - 1 \in 1 .. Len(q) /\ r[i] = q[i - 1] /\ i - 1 <= j - 1
        BY <1>5, <1>6, <3>3
      <4> QED BY <1>3, <3>1, <4>1
    <3> QED BY <2>2, <3>2, <3>3
  <2> QED BY <2>1, <2>2
<1>7. Ascending(r, key)
  BY <1>2, <1>6 DEF Ascending
<1> QED BY <1>7

(* queue_add keeps the queue in ascending order.                           *)
LEMMA QueueAddAscending ==
  ASSUME NEW S, NEW q \in Seq(S), NEW p \in S, NEW key \in [S -> Int],
         Ascending(q, key)
  PROVE  Ascending(QueueAdd(q, p, key), key)
<1>1. PICK k \in 1 .. Len(q) + 1 :
         /\ QueueAdd(q, p, key) \in Seq(S)
         /\ InsertedAt(q, p, k, QueueAdd(q, p, key))
         /\ \A i \in 1 .. k - 1 : key[q[i]] < key[p]
         /\ k <= Len(q) => key[q[k]] >= key[p]
  BY QueueAddPositions
<1>2. \A i \in 1 .. k - 1 : key[q[i]] <= key[p]
  <2> SUFFICES ASSUME NEW i \in 1 .. k - 1 PROVE key[q[i]] <= key[p]
    OBVIOUS
  <2>1. key[q[i]] \in Int /\ key[p] \in Int /\ key[q[i]] < key[p]
    BY <1>1
  <2> QED BY <2>1
<1> QED BY <1>1, <1>2, InsertedAscending

(* queue_out: all the elements but the top one, in the same order.         *)
LEMMA QueueOutFacts ==
  ASSUME NEW S, NEW q \in Seq(S), q # <<>>
  PROVE  /\ QueueTop(q) \in S
         /\ Has(q, QueueTop(q))
         /\ QueueOut(q) \in Seq(S)
         /\ \A x : Has(QueueOut(q), x) => Has(q, x)
         /\ \A x : Has(q, x) /\ x # QueueTop(q) => Has(QueueOut(q), x)
         /\ NoRepeat(q) => NoRepeat(QueueOut(q)) /\ ~ Has(QueueOut(q), QueueTop(q))
<1> DEFINE r == QueueOut(q)
           t == QueueTop(q)
<1>1. /\ Len(q) \in Nat \ {0} /\ DOMAIN q = 1 .. Len(q)
      /\ t = q[Len(q)] /\ t \in S
  BY DEF QueueTop, Last
<1>2. /\ r \in Seq(S) /\ DOMAIN r = 1 .. Len(q) - 1
      /\ \A i \in 1 .. Len(q) - 1 : r[i] = q[i]
  BY DEF QueueOut, Front
<1> HIDE DEF r, t
<1>3. /\ Has(q, t)
      /\ \A x : Has(r, x) => Has(q, x)
      /\ \A x : Has(q, x) /\ x # t => Has(r, x)
      /\ NoRepeat(q) => NoRepeat(r) /\ ~ Has(r, t)
  BY <1>1, <1>2 DEF Has, NoRepeat
<1> QED BY <1>1, <1>2, <1>3 DEF r, t

(* queue_out leaves an ascending queue, and takes the greatest element.    *)
LEMMA QueueOutAscending ==
  ASSUME NEW S, NEW q \in Seq(S), q # <<>>, NEW key \in [S -> Int],
         Ascending(q, key)
  PROVE  /\ Ascending(QueueOut(q), key)
         /\ \A x : Has(q, x) => key[x] <= key[QueueTop(q)]
<1>1. /\ Len(q) \in Nat \ {0} /\ DOMAIN q = 1 .. Len(q)
      /\ QueueTop(q) = q[Len(q)] /\ QueueTop(q) \in S
  BY DEF QueueTop, Last
<1>2. /\ QueueOut(q) \in Seq(S) /\ DOMAIN QueueOut(q) = 1 .. Len(q) - 1
      /\ \A i \in 1 .. Len(q) - 1 : QueueOut(q)[i] = q[i]
  BY DEF QueueOut, Front
<1>3. Ascending(QueueOut(q), key)
  <2> SUFFICES ASSUME NEW i \in 1 .. Len(q) - 1, NEW j \in 1 .. Len(q) - 1, i < j
               PROVE  key[QueueOut(q)[i]] <= key[QueueOut(q)[j]]
    BY <1>2 DEF Ascending
  <2>1. i \in DOMAIN q /\ j \in DOMAIN q
    BY <1>1
  <2>2. key[q[i]] <= key[q[j]]
    BY <2>1 DEF Ascending
  <2> QED BY <1>2, <2>2
<1>4. ASSUME NEW x, Has(q, x) PROVE key[x] <= key[QueueTop(q)]
  <2>1. PICK i \in 1 .. Len(q) : q[i] = x
    BY <1>1, <1>4 DEF Has
  <2>2. x \in S /\ key[x] \in Int
    BY <2>1
  <2> QED BY <1>1, <2>1, <2>2 DEF Ascending
<1> QED BY <1>3, <1>4

(***************************************************************************)
(* queue_del, of an element that is in the queue once or not at all.       *)
(***************************************************************************)
LEMMA QueueDelFacts ==
  ASSUME NEW S, NEW q \in Seq(S), NEW p, NoRepeat(q)
  PROVE  /\ QueueDel(q, p) \in Seq(S)
         /\ \A x : Has(QueueDel(q, p), x) <=> Has(q, x) /\ x # p
         /\ NoRepeat(QueueDel(q, p))
         /\ Has(q, p) => Len(QueueDel(q, p)) = Len(q) - 1
         /\ \A key \in [S -> Int] :
               Ascending(q, key) => Ascending(QueueDel(q, p), key)
<1>1. CASE ~ Has(q, p)
  <2>1. QueueDel(q, p) = q
    BY <1>1 DEF QueueDel, Has
  <2> QED BY <1>1, <2>1
<1>2. CASE Has(q, p)
  <2>0. PICK k \in 1 .. Len(q) :
           q[k] = p /\ k = CHOOSE i \in DOMAIN q : q[i] = p
    BY <1>2 DEF Has
  <2>1. Len(q) \in Nat /\ DOMAIN q = 1 .. Len(q) /\ k \in 1 .. Len(q) /\ q[k] = p
    BY <2>0
  <2> DEFINE r == QueueDel(q, p)
             A == SubSeq(q, 1, k - 1)
             C == SubSeq(q, k + 1, Len(q))
             at(i) == IF i < k THEN i ELSE i + 1
  <2>2. r = A \o C
    BY <1>2, <2>0 DEF QueueDel, RemoveAt, Has
  <2> HIDE DEF r
  <2>3. A \in Seq(S) /\ Len(A) = k - 1 /\ \A i \in 1 .. k - 1 : A[i] = q[i]
    BY <2>1
  <2>4. /\ C \in Seq(S) /\ Len(C) = Len(q) - k
        /\ \A i \in 1 .. Len(q) - k : C[i] = q[k + i]
    <3>1. k + 1 \in Int /\ Len(q) \in Int /\ \A i \in k + 1 .. Len(q) : q[i] \in S
      BY <2>1
    <3>2. /\ C \in Seq(S)
          /\ Len(C) = IF k + 1 <= Len(q) THEN Len(q) - (k + 1) + 1 ELSE 0
          /\ \A i \in 1 .. Len(q) - (k + 1) + 1 : C[i] = q[(k + 1) + i - 1]
      BY <3>1, SubSeqProperties
    <3> HIDE DEF C
    <3>3. Len(C) = Len(q) - k
      <4>1. CASE k < Len(q)
        <5>1. k + 1 <= Len(q) /\ Len(q) - (k + 1) + 1 = Len(q) - k
          BY <2>1, <4>1
        <5> QED BY <3>2, <5>1
      <4>2. CASE k = Len(q)
        <5>1. Len(q) < k + 1 /\ Len(q) - k = 0 /\ Len(q) \in Int /\ k \in Int
          BY <2>1, <4>2
        <5>2. C = <<>>
          BY <5>1, SubSeqEmpty DEF C
        <5> QED BY <5>1, <5>2
      <4> QED BY <4>1, <4>2
    <3>4. ASSUME NEW i \in 1 .. Len(q) - k PROVE C[i] = q[k + i]
      <4>1. i \in 1 .. Len(q) - (k + 1) + 1 /\ (k + 1) + i - 1 = k + i
        BY <2>1
      <4> QED BY <3>2, <4>1
    <3> QED BY <3>2, <3>3, <3>4
  <2> HIDE DEF A, C
  <2>5. /\ r \in Seq(S) /\ Len(r) = Len(q) - 1 /\ DOMAIN r = 1 .. Len(q) - 1
        /\ \A i \in 1 .. Len(q) - 1 :
              r[i] = IF i <= k - 1 THEN A[i] ELSE C[i - (k - 1)]
    <3>1. A \in Seq(S) /\ C \in Seq(S)
      BY <2>3, <2>4
    <3>2. /\ A \o C \in Seq(S) /\ Len(A \o C) = Len(A) + Len(C)
          /\ \A i \in 1 .. Len(A) + Len(C) :
                (A \o C)[i] = IF i <= Len(A) THEN A[i] ELSE C[i - Len(A)]
      BY <3>1, ConcatProperties
    <3>3. Len(A) = k - 1 /\ Len(A) + Len(C) = Len(q) - 1
      BY <2>1, <2>3, <2>4
    <3> QED BY <2>2, <3>2, <3>3
  <2>6. ASSUME NEW i \in 1 .. Len(q) - 1
        PROVE  at(i) \in 1 .. Len(q) /\ at(i) # k /\ r[i] = q[at(i)]
    <3>1. CASE i < k
      BY <2>1, <2>3, <2>5, <3>1
    <3>2. CASE i >= k
      <4>1. i - (k - 1) \in 1 .. Len(q) - k /\ k + (i - (k - 1)) = i + 1
        BY <2>1, <3>2
      <4>2. r[i] = q[i + 1]
        BY <2>1, <2>4, <2>5, <3>2, <4>1
      <4> QED BY <2>1, <3>2, <4>2
    <3> QED BY <2>1, <3>1, <3>2
  <2>7. \A i, j \in 1 .. Len(q) - 1 : i < j => at(i) < at(j)
    BY <2>1
  <2>8. ASSUME NEW i \in 1 .. Len(q), i # k
        PROVE  \E j \in 1 .. Len(q) - 1 : at(j) = i
    <3>1. CASE i < k
      <4>1. i \in 1 .. Len(q) - 1 /\ at(i) = i
        BY <2>1, <3>1
      <4> QED BY <4>1
    <3>2. CASE i > k
      <4>1. i - 1 \in 1 .. Len(q) - 1 /\ at(i - 1) = i
        BY <2>1, <3>2
      <4> QED BY <4>1
    <3> QED BY <2>1, <2>8, <3>1, <3>2
  <2> HIDE DEF at
  <2>9. ASSUME NEW x, Has(r, x) PROVE Has(q, x) /\ x # p
    <3>1. PICK i \in 1 .. Len(q) - 1 : r[i] = x
      BY <2>5, <2>9 DEF Has
    <3>2. at(i) \in DOMAIN q /\ at(i) # k /\ q[at(i)] = x
      BY <2>1, <2>6, <3>1
    <3> QED BY <2>1, <3>2 DEF Has, NoRepeat
  <2>10. ASSUME NEW x, Has(q, x), x # p PROVE Has(r, x)
    <3>1. PICK i \in 1 .. Len(q) : q[i] = x /\ i # k
      BY <2>1, <2>10 DEF Has
    <3>2. PICK j \in 1 .. Len(q) - 1 : at(j) = i
      BY <2>8, <3>1
    <3>3. j \in DOMAIN r /\ r[j] = x
      BY <2>5, <2>6, <3>1, <3>2
    <3> QED BY <3>3 DEF Has
  <2>11. NoRepeat(r)
    <3>1. ASSUME NEW i \in 1 .. Len(q) - 1, NEW j \in 1 .. Len(q) - 1,
                 i < j, r[i] = r[j]
          PROVE  FALSE
      <4>1. /\ at(i) \in 1 .. Len(q) /\ at(j) \in 1 .. Len(q)
            /\ q[at(i)] = q[at(j)] /\ at(i) < at(j)
        BY <2>6, <2>7, <3>1
      <4>2. at(i) = at(j)
        BY <2>1, <4>1 DEF NoRepeat
      <4> QED BY <4>1, <4>2
    <3>2. \A i, j \in 1 .. Len(q) - 1 : r[i] = r[j] => ~ (i < j) /\ ~ (j < i)
      BY <3>1
    <3> QED BY <2>1, <2>5, <3>2 DEF NoRepeat
  <2>12. ASSUME NEW key \in [S -> Int], Ascending(q, key)
         PROVE  Ascending(r, key)
    <3>1. ASSUME NEW i \in 1 .. Len(q) - 1, NEW j \in 1 .. Len(q) - 1, i < j
          PROVE  key[r[i]] <= key[r[j]]
      <4>1. at(i) \in 1 .. Len(q) /\ r[i] = q[at(i)]
        BY <2>6
      <4>2. at(j) \in 1 .. Len(q) /\ r[j] = q[at(j)]
        BY <2>6
      <4>3. at(i) < at(j)
        BY <2>7, <3>1
      <4>4. key[q[at(i)]] <= key[q[at(j)]]
        BY <2>1, <2>12, <4>1, <4>2, <4>3 DEF Ascending
      <4> QED BY <4>1, <4>2, <4>4
    <3> QED BY <2>5, <3>1 DEF Ascending
  <2> QED BY <2>5, <2>9, <2>10, <2>11, <2>12 DEF r
<1> QED BY <1>1, <1>2

-----------------------------------------------------------------------------
(* What the operations on one queue do to all the queues.  DisjointIn is   *)
(* QueuesDisjoint in the form the lemmas on queues speak of.               *)
DisjointIn(f) ==
  \A n \in Queues :
     /\ NoRepeat(f[n])
     /\ \A m \in Queues : \A x : Has(f[n], x) /\ Has(f[m], x) => n = m

(* Disjointness of queues, in terms of membership and of repetition.       *)
LEMMA DisjointEquiv ==
  ASSUME NEW f
  PROVE  DisjointIn(f) <=>
           \A n, m \in Queues : \A i \in DOMAIN f[n], j \in DOMAIN f[m] :
              f[n][i] = f[m][j] => n = m /\ i = j
<1>1. ASSUME DisjointIn(f), NEW n \in Queues, NEW m \in Queues,
             NEW i \in DOMAIN f[n], NEW j \in DOMAIN f[m], f[n][i] = f[m][j]
      PROVE  n = m /\ i = j
  <2>1. Has(f[n], f[n][i]) /\ Has(f[m], f[n][i])
    BY <1>1 DEF Has
  <2>2. n = m
    BY <1>1, <2>1 DEF DisjointIn
  <2> QED BY <1>1, <2>2 DEF DisjointIn, NoRepeat
<1>2. ASSUME \A n, m \in Queues : \A i \in DOMAIN f[n], j \in DOMAIN f[m] :
                f[n][i] = f[m][j] => n = m /\ i = j
      PROVE  DisjointIn(f)
  BY <1>2 DEF DisjointIn, NoRepeat, Has
<1> QED BY <1>1, <1>2

(* Linking a process that is on no queue.                                  *)
LEMMA AddTo ==
  ASSUME NEW f \in [Queues -> Seq(Procs)], DisjointIn(f),
         NEW n \in Queues, NEW p \in Procs, NEW key \in [Procs -> Int],
         \A m \in Queues : ~ Has(f[m], p)
  PROVE  /\ Link(f, n, p, key) \in [Queues -> Seq(Procs)]
         /\ DisjointIn(Link(f, n, p, key))
         /\ \A m \in Queues : \A x :
               Has(Link(f, n, p, key)[m], x) <=> Has(f[m], x) \/ (m = n /\ x = p)
<1> DEFINE g == Link(f, n, p, key)
<1>1. f[n] \in Seq(Procs) /\ NoRepeat(f[n]) /\ ~ Has(f[n], p)
  BY DEF DisjointIn
<1>2. /\ QueueAdd(f[n], p, key) \in Seq(Procs)
      /\ \A x : Has(QueueAdd(f[n], p, key), x) <=> x = p \/ Has(f[n], x)
      /\ NoRepeat(QueueAdd(f[n], p, key))
  BY <1>1, QueueAddFacts
<1>3. g[n] = QueueAdd(f[n], p, key) /\ \A m \in Queues : m # n => g[m] = f[m]
  BY DEF Link
<1>4. g \in [Queues -> Seq(Procs)]
  BY <1>2 DEF Link
<1> HIDE DEF g
<1>5. \A m \in Queues : \A x :
         Has(g[m], x) <=> Has(f[m], x) \/ (m = n /\ x = p)
  BY <1>2, <1>3
<1>6. \A m \in Queues : NoRepeat(g[m])
  BY <1>2, <1>3 DEF DisjointIn
<1>7. ASSUME NEW l \in Queues, NEW m \in Queues, NEW x, Has(g[l], x), Has(g[m], x)
      PROVE  l = m
  <2>1. CASE x = p
    BY <1>5, <1>7, <2>1
  <2>2. CASE x # p
    <3>1. Has(f[l], x) /\ Has(f[m], x)
      BY <1>5, <1>7, <2>2
    <3> QED BY <3>1 DEF DisjointIn
  <2> QED BY <2>1, <2>2
<1>8. DisjointIn(g)
  BY <1>6, <1>7 DEF DisjointIn
<1> QED BY <1>4, <1>5, <1>8 DEF g

(* Taking the top of a queue that is not empty.                            *)
LEMMA OutOf ==
  ASSUME NEW f \in [Queues -> Seq(Procs)], DisjointIn(f),
         NEW n \in Queues, f[n] # <<>>
  PROVE  /\ Pop(f, n) \in [Queues -> Seq(Procs)]
         /\ DisjointIn(Pop(f, n))
         /\ QueueTop(f[n]) \in Procs
         /\ Has(f[n], QueueTop(f[n]))
         /\ \A m \in Queues : \A x :
               Has(Pop(f, n)[m], x) <=> Has(f[m], x) /\ x # QueueTop(f[n])
<1> DEFINE t == QueueTop(f[n])
           g == Pop(f, n)
<1>1. f[n] \in Seq(Procs) /\ NoRepeat(f[n])
  BY DEF DisjointIn
<1>2. /\ t \in Procs /\ Has(f[n], t)
      /\ QueueOut(f[n]) \in Seq(Procs)
      /\ \A x : Has(QueueOut(f[n]), x) => Has(f[n], x)
      /\ \A x : Has(f[n], x) /\ x # t => Has(QueueOut(f[n]), x)
      /\ NoRepeat(QueueOut(f[n])) /\ ~ Has(QueueOut(f[n]), t)
  BY <1>1, QueueOutFacts
<1> HIDE DEF t
<1>3. g[n] = QueueOut(f[n]) /\ \A m \in Queues : m # n => g[m] = f[m]
  BY DEF Pop
<1>4. g \in [Queues -> Seq(Procs)]
  BY <1>2 DEF Pop
<1> HIDE DEF g
<1>5. \A m \in Queues : m # n => ~ Has(f[m], t)
  BY <1>2 DEF DisjointIn
<1>6. \A m \in Queues : \A x : Has(g[m], x) <=> Has(f[m], x) /\ x # t
  BY <1>2, <1>3, <1>5
<1>7. \A m \in Queues : NoRepeat(g[m])
  BY <1>2, <1>3 DEF DisjointIn
<1>8. DisjointIn(g)
  BY <1>6, <1>7 DEF DisjointIn
<1> QED BY <1>2, <1>4, <1>6, <1>8 DEF t, g

(* Unlinking a process from wherever it is.                                *)
LEMMA DelFrom ==
  ASSUME NEW f \in [Queues -> Seq(Procs)], DisjointIn(f), NEW p
  PROVE  /\ Unlink(f, p) \in [Queues -> Seq(Procs)]
         /\ DisjointIn(Unlink(f, p))
         /\ \A m \in Queues : \A x :
               Has(Unlink(f, p)[m], x) <=> Has(f[m], x) /\ x # p
<1> DEFINE g == Unlink(f, p)
<1>1. g = [m \in Queues |-> g[m]]
  BY DEF Unlink
<1>2. ASSUME NEW m \in Queues
      PROVE  /\ g[m] \in Seq(Procs)
             /\ \A x : Has(g[m], x) <=> Has(f[m], x) /\ x # p
             /\ NoRepeat(g[m])
  <2>1. f[m] \in Seq(Procs) /\ NoRepeat(f[m]) /\ g[m] = QueueDel(f[m], p)
    BY DEF DisjointIn, Unlink
  <2> QED BY <2>1, QueueDelFacts
<1> HIDE DEF g
<1>3. DisjointIn(g)
  BY <1>2 DEF DisjointIn
<1> QED BY <1>1, <1>2, <1>3 DEF g

(* The queues of scheduler.c are among the queues of any instance.         *)
LEMMA SchedulerQueuesExist ==
  /\ "activatable" \in Queues
  /\ "asleep" \in Queues
  /\ "blocked_io" \in Queues
  /\ "dead" \in Queues
BY SchedulerAssumption DEF SchedulerAssumption, SchedulerQueues

-----------------------------------------------------------------------------
(* The two ways to speak of the elements of a list.                        *)
LEMMA RangeHas == \A q, x : x \in Range(q) <=> Has(q, x)
BY DEF Range, Has

(* The queues after each of the first processes of a list has been linked, *)
(* in the form LinkEach computes them.                                     *)
StepsTo(f, list, key, g, k) ==
  /\ DOMAIN g = 0 .. k
  /\ g[0] = f
  /\ \A i \in 1 .. k : g[i] = Link(g[i - 1], "activatable", list[i], key)

StepsOf(f, list, key, g) ==
  [i \in 0 .. Len(list) |->
     IF i = 0 THEN f ELSE Link(g[i - 1], "activatable", list[i], key)]

(* g with one more step.                                                   *)
LongerBy(g, k, new) == [i \in 0 .. k |-> IF i = k THEN new ELSE g[i]]

(* There are such queues: the smallest number of steps for which there     *)
(* were none would be one more than a number for which there are.          *)
LEMMA StepsExist ==
  ASSUME NEW f, NEW list, NEW key, NEW n \in Nat
  PROVE  \E g : StepsTo(f, list, key, g, n)
<1> DEFINE B == {k \in Nat : ~ \E g : StepsTo(f, list, key, g, k)}
<1>1. SUFFICES ASSUME B # {} PROVE FALSE
  OBVIOUS
<1>2. PICK k \in B : \A j \in B : k <= j
  <2>1. B \in SUBSET Nat
    OBVIOUS
  <2> HIDE DEF B
  <2> QED BY <1>1, <2>1, LeastNat
<1>3. CASE k = 0
  <2>1. StepsTo(f, list, key, [i \in 0 .. 0 |-> f], 0)
    BY DEF StepsTo
  <2> QED BY <1>3, <2>1
<1>4. CASE k # 0
  <2>1. k - 1 \in Nat /\ k - 1 \notin B
    BY <1>2, <1>4
  <2>2. PICK g : StepsTo(f, list, key, g, k - 1)
    BY <2>1
  <2> DEFINE new == Link(g[k - 1], "activatable", list[k], key)
             h == LongerBy(g, k, new)
  <2>3. DOMAIN h = 0 .. k /\ \A i \in 0 .. k : h[i] = IF i = k THEN new ELSE g[i]
    BY DEF LongerBy
  <2>4. h[0] = f
    BY <1>4, <2>2, <2>3 DEF StepsTo
  <2>5. ASSUME NEW i \in 1 .. k PROVE h[i] = Link(h[i - 1], "activatable", list[i], key)
    <3>1. i - 1 \in 0 .. k /\ i - 1 # k /\ i \in 0 .. k /\ (i # k => i \in 1 .. k - 1)
      BY <2>1
    <3>2. h[i - 1] = g[i - 1]
      BY <2>3, <3>1
    <3>3. CASE i = k
      <4>1. h[i] = new
        BY <2>3, <3>1, <3>3
      <4> QED BY <3>2, <3>3, <4>1
    <3>4. CASE i # k
      <4>1. h[i] = g[i]
        BY <2>3, <3>1, <3>4
      <4>2. g[i] = Link(g[i - 1], "activatable", list[i], key)
        BY <2>2, <3>1, <3>4 DEF StepsTo
      <4> QED BY <3>2, <4>1, <4>2
    <3> QED BY <3>3, <3>4
  <2>6. StepsTo(f, list, key, h, k)
    <3> HIDE DEF h
    <3> QED BY <2>3, <2>4, <2>5 DEF StepsTo
  <2> QED BY <2>6, <1>2
<1> QED BY <1>3, <1>4

(* LinkEach, a recursive function, returns the last of them.               *)
LEMMA LinkEachSteps ==
  ASSUME NEW f, NEW list, NEW key, Len(list) \in Nat
  PROVE  \E g : /\ StepsTo(f, list, key, g, Len(list))
                /\ LinkEach(f, "activatable", list, key) = g[Len(list)]
<1> DEFINE c == CHOOSE g : g = StepsOf(f, list, key, g)
<1>1. LinkEach(f, "activatable", list, key) = c[Len(list)]
  BY DEF LinkEach, StepsOf
<1>2. PICK g : StepsTo(f, list, key, g, Len(list))
  BY StepsExist
<1>3. \E h : h = StepsOf(f, list, key, h)
  <2> DEFINE h == [i \in 0 .. Len(list) |-> g[i]]
  <2>1. ASSUME NEW i \in 0 .. Len(list)
        PROVE  h[i] = IF i = 0 THEN f ELSE Link(h[i - 1], "activatable", list[i], key)
    <3>1. CASE i = 0
      BY <1>2, <3>1 DEF StepsTo
    <3>2. CASE i # 0
      <4>1. i \in 1 .. Len(list) /\ i - 1 \in 0 .. Len(list)
        BY <3>2
      <4>2. g[i] = Link(g[i - 1], "activatable", list[i], key)
        BY <1>2, <4>1 DEF StepsTo
      <4> QED BY <3>2, <4>1, <4>2
    <3> QED BY <3>1, <3>2
  <2>2. h = StepsOf(f, list, key, h)
    BY <2>1, Zenon DEF StepsOf
  <2> QED BY <2>2
<1>4. c = StepsOf(f, list, key, c)
  BY <1>3
<1> HIDE DEF c
<1>5. StepsTo(f, list, key, c, Len(list))
  BY <1>4 DEF StepsTo, StepsOf
<1> QED BY <1>1, <1>5

(* h is f with the first k processes of the list in the activatable queue. *)
FirstLinked(f, list, h, k) ==
  /\ h \in [Queues -> Seq(Procs)] /\ DisjointIn(h)
  /\ \A m \in Queues : \A x :
        Has(h[m], x) <=> Has(f[m], x) \/ (m = "activatable" /\ \E i \in 1 .. k : list[i] = x)

(* One more.                                                               *)
LEMMA OneMoreLinked ==
  ASSUME NEW f, NEW list \in Seq(Procs), NoRepeat(list), NEW key \in [Procs -> Int],
         NEW k \in 1 .. Len(list), NEW h, FirstLinked(f, list, h, k - 1),
         \A m \in Queues : ~ Has(f[m], list[k])
  PROVE  FirstLinked(f, list, Link(h, "activatable", list[k], key), k)
<1> DEFINE p == list[k]
<1>1. h \in [Queues -> Seq(Procs)] /\ DisjointIn(h)
  BY DEF FirstLinked
<1>2. "activatable" \in Queues /\ p \in Procs /\ key \in [Procs -> Int]
  BY SchedulerQueuesExist
<1>3. \A i \in 1 .. k - 1 : list[i] # p
  <2>1. \A i \in 1 .. k - 1 : i \in DOMAIN list /\ k \in DOMAIN list /\ i # k
    OBVIOUS
  <2> QED BY <2>1 DEF NoRepeat
<1>4. \A m \in Queues : ~ Has(h[m], p)
  BY <1>3 DEF FirstLinked
<1>5. \A x : (\E i \in 1 .. k : list[i] = x) <=> (\E i \in 1 .. k - 1 : list[i] = x) \/ x = p
  <2>1. \A i : i \in 1 .. k <=> i \in 1 .. k - 1 \/ i = k
    OBVIOUS
  <2> QED BY <2>1
<1> HIDE DEF p
<1>6. /\ Link(h, "activatable", p, key) \in [Queues -> Seq(Procs)]
      /\ DisjointIn(Link(h, "activatable", p, key))
      /\ \A m \in Queues : \A x :
             Has(Link(h, "activatable", p, key)[m], x)
                 <=> Has(h[m], x) \/ (m = "activatable" /\ x = p)
  BY ONLY <1>1, <1>2, <1>4, AddTo, ZenonT(60)
<1> DEFINE r == Link(h, "activatable", p, key)
<1> HIDE DEF r
<1>7. FirstLinked(f, list, r, k)
  <2>1. \A m \in Queues : \A x :
           Has(r[m], x) <=> Has(f[m], x) \/ (m = "activatable" /\ \E i \in 1 .. k : list[i] = x)
    BY <1>5, <1>6 DEF FirstLinked, r
  <2> QED BY <1>6, <2>1 DEF FirstLinked, r
<1> QED BY <1>7 DEF r, p

(* Linking distinct processes that are linked nowhere, one after the other.*)
LEMMA LinkEachFacts ==
  ASSUME NEW f \in [Queues -> Seq(Procs)], DisjointIn(f),
         NEW list \in Seq(Procs), NoRepeat(list), NEW key \in [Procs -> Int],
         \A m \in Queues : \A i \in DOMAIN list : ~ Has(f[m], list[i])
  PROVE  LET h == LinkEach(f, "activatable", list, key) IN
         /\ h \in [Queues -> Seq(Procs)] /\ DisjointIn(h)
         /\ \A m \in Queues : \A x :
               Has(h[m], x) <=> Has(f[m], x) \/ (m = "activatable" /\ x \in Range(list))
<1>1. Len(list) \in Nat /\ DOMAIN list = 1 .. Len(list)
  OBVIOUS
<1>2. PICK g : /\ StepsTo(f, list, key, g, Len(list))
               /\ LinkEach(f, "activatable", list, key) = g[Len(list)]
  BY <1>1, LinkEachSteps
<1> DEFINE B == {k \in 0 .. Len(list) : ~ FirstLinked(f, list, g[k], k)}
<1>3. B = {}
  <2> SUFFICES ASSUME B # {} PROVE FALSE
    OBVIOUS
  <2>1. PICK k \in B : \A j \in B : k <= j
    <3>1. B \in SUBSET Nat
      OBVIOUS
    <3> HIDE DEF B
    <3> QED BY <3>1, LeastNat
  <2>2. CASE k = 0
    <3>1. g[0] = f
      BY <1>2 DEF StepsTo
    <3>2. FirstLinked(f, list, f, 0)
      BY DEF FirstLinked
    <3> QED BY <2>1, <2>2, <3>1, <3>2
  <2>3. CASE k # 0
    <3>1. k \in 1 .. Len(list) /\ k - 1 \in 0 .. Len(list) /\ k - 1 \notin B
      BY <1>1, <2>1, <2>3
    <3>2. FirstLinked(f, list, g[k - 1], k - 1)
      BY <3>1
    <3>3. g[k] = Link(g[k - 1], "activatable", list[k], key)
      BY <1>2, <3>1 DEF StepsTo
    <3>4. FirstLinked(f, list, Link(g[k - 1], "activatable", list[k], key), k)
      BY <1>1, <3>1, <3>2, OneMoreLinked
    <3> QED BY <2>1, <3>3, <3>4
  <2> QED BY <2>2, <2>3
<1>4. FirstLinked(f, list, g[Len(list)], Len(list))
  BY <1>1, <1>3
<1>5. \A x : x \in Range(list) <=> \E i \in 1 .. Len(list) : list[i] = x
  BY <1>1 DEF Range
<1> DEFINE h == g[Len(list)]
<1> HIDE DEF h
<1>6. /\ h \in [Queues -> Seq(Procs)] /\ DisjointIn(h)
      /\ \A m \in Queues : \A x :
            Has(h[m], x) <=> Has(f[m], x) \/ (m = "activatable" /\ x \in Range(list))
  BY <1>4, <1>5 DEF FirstLinked, h
<1> QED BY <1>2, <1>6 DEF h

-----------------------------------------------------------------------------
SchedInv == SchedTypeOK /\ QueuesDisjoint /\ LinksMatchStates /\ NoAssertFails

(* The shape in which the step lemmas use and establish the invariant.     *)
LEMMA Disjoint == QueuesDisjoint <=> DisjointIn(queue)
BY DisjointEquiv DEF QueuesDisjoint

(* The same in the next state.                                             *)
LEMMA DisjointNext == QueuesDisjoint' <=> DisjointIn(queue')
BY DisjointEquiv DEF QueuesDisjoint

(* Priorities are integers: what the lemmas about the queue need.          *)
LEMMA PrioIsInt ==
  ASSUME SchedInv
  PROVE  prio \in [Procs -> Int]
<1>1. prio \in [Procs -> 1 .. 256]
  BY DEF SchedInv, SchedTypeOK
<1> QED BY <1>1

(* The initial state: the boot processes are activatable, each once.       *)
LEMMA InitInv == SchedInit => SchedInv
<1> SUFFICES ASSUME SchedInit PROVE SchedInv
  OBVIOUS
<1>1. PICK q \in BootOrders :
         queue = [n \in Queues |-> IF n = "activatable" THEN q ELSE <<>>]
  BY DEF SchedInit
<1>2. Cardinality(Boot) \in Nat
  BY SchedulerAssumption, FS_Subset, FS_CardinalityType DEF SchedulerAssumption
<1>3. q \in Seq(Procs) /\ NoRepeat(q) /\ \A x : Has(q, x) <=> x \in Boot
  <2>1. /\ q \in [1 .. Cardinality(Boot) -> Boot] /\ Range(q) = Boot
        /\ \A i, j \in DOMAIN q : q[i] = q[j] => i = j
    BY DEF BootOrders, SetToSeqs, IsInjective
  <2>2. q \in Seq(Boot)
    BY <1>2, <2>1
  <2>3. q \in Seq(Procs)
    BY <1>2, <2>1, SchedulerAssumption DEF SchedulerAssumption
  <2>4. \A x : Has(q, x) <=> x \in Range(q)
    BY DEF Has, Range
  <2> QED BY <2>1, <2>3, <2>4 DEF NoRepeat
<1>4. <<>> \in Seq(Procs) /\ NoRepeat(<<>>) /\ \A x : ~ Has(<<>>, x)
  BY DEF NoRepeat, Has
<1>5. queue \in [Queues -> Seq(Procs)]
  BY <1>1, <1>3, <1>4
<1>6. \A n \in Queues : \A x : Has(queue[n], x) <=> n = "activatable" /\ x \in Boot
  BY <1>1, <1>3, <1>4
<1>7. DisjointIn(queue)
  <2>1. \A n \in Queues : NoRepeat(queue[n])
    BY <1>1, <1>3, <1>4
  <2> QED BY <1>6, <2>1 DEF DisjointIn
<1>8. SchedTypeOK
  <2>1. state \in [Procs -> States] /\ wake \in [Procs -> Int]
    BY DEF SchedInit, States
  <2>2. prio \in [Procs -> 1 .. 256]
    <3>1. \A p \in Boot : BootPrio[p] \in 1 .. 256
      BY SchedulerAssumption DEF SchedulerAssumption
    <3>2. 1 \in 1 .. 256
      OBVIOUS
    <3> QED BY <3>1, <3>2 DEF SchedInit
  <2>3. blocked_head \in [Procs -> Queues]
    BY SchedulerQueuesExist DEF SchedInit
  <2>4. /\ current \in Procs \cup {NoProc}
        /\ clock \in 0 .. MaxClock
        /\ phase \in Phases
        /\ halt \in Halts
    BY SchedulerAssumption DEF SchedInit, SchedulerAssumption, Phases, Halts
  <2> QED BY <1>5, <2>1, <2>2, <2>3, <2>4 DEF SchedTypeOK
<1>9. LinksMatchStates
  BY <1>6, SchedulerAssumption, SchedulerQueuesExist
  DEF LinksMatchStates, LinkMatchesState, SchedInit, SchedulerAssumption, In, Linked
<1>10. NoAssertFails
  BY DEF NoAssertFails, SchedInit
<1> QED BY <1>7, <1>8, <1>9, <1>10, Disjoint DEF SchedInv

-----------------------------------------------------------------------------
(* The steps.  Each says first who is linked where afterwards.             *)

(* The timer interrupt, in user mode or in the kernel, keeps SchedInv.     *)
LEMMA TickInv ==
  ASSUME SchedInv, Tick \/ TickInKernel \/ SetTimeOfDay
  PROVE  SchedInv'
<1>1. UNCHANGED <<procVars, queue, current, halt>> /\ phase' \in {phase, "awake"}
  BY DEF Tick, TickInKernel, TickCounted, SetTimeOfDay, CallScheduler
<1>2. clock' \in 0 .. MaxClock /\ phase' \in Phases
  BY <1>1, SchedulerAssumption
  DEF Tick, TickInKernel, TickCounted, SetTimeOfDay, NextTick, SchedInv, SchedTypeOK,
      SchedulerAssumption, Phases, CallScheduler
<1>3. SchedTypeOK'
  BY <1>1, <1>2 DEF SchedInv, SchedTypeOK, procVars
<1>4. QueuesDisjoint' /\ NoAssertFails'
  BY <1>1 DEF SchedInv, QueuesDisjoint, NoAssertFails
<1>5. LinksMatchStates'
  BY <1>1 DEF SchedInv, LinksMatchStates, LinkMatchesState, Linked, In, procVars
<1> QED BY <1>3, <1>4, <1>5 DEF SchedInv

(* wait_clock links a running process in the sleep queue only.             *)
LEMMA WaitClockInv ==
  ASSUME SchedInv, NEW ticks \in SleepTicks, current \in Sleepers, WaitClock(ticks)
  PROVE  SchedInv'
<1> USE SchedulerQueuesExist
<1>1. /\ current \in Procs /\ state[current] = "ACTIF" /\ current # Idle
      /\ \A n \in Queues : ~ Has(queue[n], current)
  BY SchedulerAssumption
  DEF SchedInv, SchedTypeOK, LinksMatchStates, LinkMatchesState, WaitClock, Running, Linked, In,
      SchedulerAssumption
<1>2. wake' \in [Procs -> Int] /\ state' = [state EXCEPT ![current] = "ASLEEP"]
  <2>1. clock \in Int /\ ticks \in Int /\ wake \in [Procs -> Int]
    BY SchedulerAssumption DEF SchedInv, SchedTypeOK, SchedulerAssumption
  <2>2. - (clock + ticks) \in Int
    BY <2>1
  <2> QED BY <2>1, <2>2 DEF WaitClock
<1>3. /\ queue' \in [Queues -> Seq(Procs)]
      /\ DisjointIn(queue')
      /\ \A m \in Queues : \A x :
            Has(queue'[m], x) <=> Has(queue[m], x) \/ (m = "asleep" /\ x = current)
  <2>1. queue' = Link(queue, "asleep", current, wake')
    BY DEF WaitClock
  <2>2. queue \in [Queues -> Seq(Procs)] /\ DisjointIn(queue)
    BY Disjoint DEF SchedInv, SchedTypeOK
  <2>3. "asleep" \in Queues /\ current \in Procs /\ wake' \in [Procs -> Int]
    BY <1>1, <1>2
  <2>4. \A m \in Queues : ~ Has(queue[m], current)
    BY <1>1
  <2>5. /\ Link(queue, "asleep", current, wake') \in [Queues -> Seq(Procs)]
        /\ DisjointIn(Link(queue, "asleep", current, wake'))
        /\ \A m \in Queues : \A x :
               Has(Link(queue, "asleep", current, wake')[m], x)
                   <=> Has(queue[m], x) \/ (m = "asleep" /\ x = current)
    BY ONLY <2>2, <2>3, <2>4, AddTo, ZenonT(60)
  <2> QED BY <2>1, <2>5
<1>4. halt' = halt /\ phase' = "awake" /\ UNCHANGED <<prio, blocked_head, current, clock>>
  BY <1>1 DEF WaitClock, AssertThat, Linked, In, CallScheduler
<1>5. SchedTypeOK'
  BY <1>2, <1>3, <1>4 DEF SchedInv, SchedTypeOK, States, Phases
<1>6. LinksMatchStates'
  BY <1>1, <1>2, <1>3, <1>4, SMTT(30) DEF SchedInv, SchedTypeOK, LinksMatchStates, LinkMatchesState, Linked, In
<1> QED BY <1>3, <1>4, <1>5, <1>6, DisjointNext DEF SchedInv, NoAssertFails

(* chprio moves a process inside the queue it is in, or not at all.        *)
LEMMA ChPrioInv ==
  ASSUME SchedInv, NEW p \in PrioTargets, NEW newprio \in Prios, ChPrio(p, newprio)
  PROVE  SchedInv'
<1> USE SchedulerQueuesExist
<1>1. /\ newprio \in 1 .. 256 /\ p \in Procs /\ prio' \in [Procs -> 1 .. 256]
      /\ prio' \in [Procs -> Int]
  <2>1. newprio \in 1 .. 256
    BY DEF ChPrio, ValidPrio
  <2>2. p \in Procs
    BY SchedulerAssumption DEF SchedulerAssumption
  <2>3. prio' \in [Procs -> 1 .. 256]
    BY <2>1 DEF SchedInv, SchedTypeOK, ChPrio
  <2> QED BY <2>1, <2>2, <2>3
<1>2. queue \in [Queues -> Seq(Procs)] /\ DisjointIn(queue)
  BY Disjoint DEF SchedInv, SchedTypeOK
<1>3. /\ queue' \in [Queues -> Seq(Procs)]
      /\ DisjointIn(queue')
      /\ \A m \in Queues : \A x : Has(queue'[m], x) <=> Has(queue[m], x)
      /\ halt' = halt
  <2>1. CASE state[p] = "ACTIVATABLE"
    <3> DEFINE g == Unlink(queue, p)
    <3>1. Has(queue["activatable"], p)
      BY <1>1, <2>1 DEF SchedInv, LinksMatchStates, LinkMatchesState, In
    <3>2. /\ g \in [Queues -> Seq(Procs)]
          /\ DisjointIn(g)
          /\ \A m \in Queues : \A x : Has(g[m], x) <=> Has(queue[m], x) /\ x # p
      BY <1>2, DelFrom
    <3>3. queue' = Link(g, "activatable", p, prio')
      BY <2>1 DEF ChPrio, ListOf
    <3>4. halt' = halt
      BY <2>1, <3>1 DEF ChPrio, AssertThat, Linked, In
    <3> HIDE DEF g
    <3>5. /\ queue' \in [Queues -> Seq(Procs)]
          /\ DisjointIn(queue')
          /\ \A m \in Queues : \A x :
                Has(queue'[m], x) <=> Has(g[m], x) \/ (m = "activatable" /\ x = p)
      <4>1. \A m \in Queues : ~ Has(g[m], p)
        BY <3>2
      <4>2. /\ Link(g, "activatable", p, prio') \in [Queues -> Seq(Procs)]
            /\ DisjointIn(Link(g, "activatable", p, prio'))
            /\ \A m \in Queues : \A x :
                   Has(Link(g, "activatable", p, prio')[m], x)
                       <=> Has(g[m], x) \/ (m = "activatable" /\ x = p)
        <5>1. /\ g \in [Queues -> Seq(Procs)] /\ DisjointIn(g)
              /\ p \in Procs /\ prio' \in [Procs -> Int]
          BY <1>1, <3>2
        <5>2. "activatable" \in Queues
          OBVIOUS
        <5> QED BY ONLY <4>1, <5>1, <5>2, AddTo, ZenonT(60)
      <4> QED BY <3>3, <4>2
    <3>6. \A m \in Queues : Has(queue[m], p) => m = "activatable"
      BY <1>2, <3>1 DEF DisjointIn
    <3> QED BY <3>1, <3>2, <3>4, <3>5, <3>6
  <2>2. CASE state[p] # "ACTIVATABLE"
    <3>1. UNCHANGED <<queue, halt>>
      BY <1>1, <2>2 DEF ChPrio, SchedInv, LinksMatchStates, LinkMatchesState
    <3> QED BY <1>2, <3>1
  <2> QED BY <2>1, <2>2
<1>4. /\ UNCHANGED <<state, wake, blocked_head, current, clock>>
      /\ phase' \in {phase, "awake"}
  BY DEF ChPrio, CallScheduler
<1>5. SchedTypeOK'
  BY <1>1, <1>3, <1>4 DEF SchedInv, SchedTypeOK, Phases
<1>6. LinksMatchStates'
  BY <1>3, <1>4 DEF SchedInv, LinksMatchStates, LinkMatchesState, Linked, In
<1> QED BY <1>3, <1>5, <1>6, DisjointNext DEF SchedInv, NoAssertFails

(* The wake-up loop moves a process from one queue to another.             *)
LEMMA AwakeInv ==
  ASSUME SchedInv, AwakeOne \/ AwakeDone
  PROVE  SchedInv'
<1> USE SchedulerQueuesExist
<1>1. queue \in [Queues -> Seq(Procs)] /\ DisjointIn(queue)
  BY Disjoint DEF SchedInv, SchedTypeOK
<1>2. CASE AwakeOne
  <2> DEFINE t == QueueTop(queue["asleep"])
             g == Pop(queue, "asleep")
  <2>1. queue["asleep"] # <<>>
    BY <1>2 DEF AwakeOne, Due
  <2>2. /\ g \in [Queues -> Seq(Procs)] /\ DisjointIn(g)
        /\ t \in Procs /\ Has(queue["asleep"], t)
        /\ \A m \in Queues : \A x : Has(g[m], x) <=> Has(queue[m], x) /\ x # t
    BY <1>1, <2>1, OutOf
  <2>3. queue' = Link(g, "activatable", t, prio)
    BY <1>2 DEF AwakeOne
  <2>4. prio \in [Procs -> Int]
    BY PrioIsInt
  <2>5. state[t] = "ASLEEP"
    BY <2>2 DEF SchedInv, LinksMatchStates, LinkMatchesState, In
  <2> HIDE DEF g, t
  <2>6. /\ queue' \in [Queues -> Seq(Procs)] /\ DisjointIn(queue')
        /\ \A m \in Queues : \A x :
              Has(queue'[m], x) <=> Has(g[m], x) \/ (m = "activatable" /\ x = t)
    <3>1. \A m \in Queues : ~ Has(g[m], t)
      BY <2>2
    <3>2. /\ Link(g, "activatable", t, prio) \in [Queues -> Seq(Procs)]
          /\ DisjointIn(Link(g, "activatable", t, prio))
          /\ \A m \in Queues : \A x :
                 Has(Link(g, "activatable", t, prio)[m], x)
                     <=> Has(g[m], x) \/ (m = "activatable" /\ x = t)
      <4>1. g \in [Queues -> Seq(Procs)] /\ DisjointIn(g) /\ t \in Procs
        BY <2>2
      <4>2. "activatable" \in Queues
        OBVIOUS
      <4> QED BY ONLY <2>4, <3>1, <4>1, <4>2, AddTo, ZenonT(60)
    <3> QED BY <2>3, <3>2
  <2>7. UNCHANGED <<procVars, current, clock, phase, halt>>
    BY <1>2 DEF AwakeOne
  <2>8. SchedTypeOK'
    BY <2>6, <2>7 DEF SchedInv, SchedTypeOK, procVars
  <2>9. \A m \in Queues : \A x :
           Has(queue'[m], x) <=> \/ Has(queue[m], x) /\ x # t
                                 \/ m = "activatable" /\ x = t
    BY <2>2, <2>6
  <2>10. LinksMatchStates'
    BY <2>2, <2>5, <2>7, <2>9 DEF SchedInv, LinksMatchStates, LinkMatchesState, Linked, In, procVars
  <2> QED BY <2>6, <2>7, <2>8, <2>10, DisjointNext DEF SchedInv, NoAssertFails
<1>3. CASE AwakeDone
  <2>1. /\ UNCHANGED <<procVars, queue, current, clock, halt>>
        /\ phase = "awake" /\ phase' \in {"switch", "reap"}
    BY <1>3 DEF AwakeDone
  <2>2. SchedTypeOK' /\ LinksMatchStates'
    BY <2>1 DEF SchedInv, SchedTypeOK, LinksMatchStates, LinkMatchesState, Linked, In, procVars, Phases
  <2> QED BY <2>1, <2>2 DEF SchedInv, QueuesDisjoint, NoAssertFails
<1> QED BY <1>2, <1>3

(* The process at the top of the activatable queue, and the queues without *)
(* it.                                                                     *)
LEMMA DispatchFacts ==
  ASSUME SchedInv, First \/ Preempt \/ Leave
  PROVE  /\ Pop(queue, "activatable") \in [Queues -> Seq(Procs)]
         /\ DisjointIn(Pop(queue, "activatable"))
         /\ Top \in Procs /\ Has(queue["activatable"], Top)
         /\ \A m \in Queues : \A x :
               Has(Pop(queue, "activatable")[m], x) <=> Has(queue[m], x) /\ x # Top
         /\ state[Top] \in {"ACTIVATABLE", "ASLEEP"}
<1>1. /\ queue \in [Queues -> Seq(Procs)] /\ DisjointIn(queue)
      /\ queue["activatable"] # <<>> /\ "activatable" \in Queues
  BY Disjoint, SchedulerQueuesExist
  DEF SchedInv, SchedTypeOK, First, Preempt, Leave, AtSwitch
<1>2. /\ Pop(queue, "activatable") \in [Queues -> Seq(Procs)]
      /\ DisjointIn(Pop(queue, "activatable"))
      /\ Top \in Procs /\ Has(queue["activatable"], Top)
      /\ \A m \in Queues : \A x :
            Has(Pop(queue, "activatable")[m], x) <=> Has(queue[m], x) /\ x # Top
  BY ONLY <1>1, OutOf DEF Top
<1>3. state[Top] \in {"ACTIVATABLE", "ASLEEP"}
  BY <1>1, <1>2 DEF SchedInv, LinksMatchStates, LinkMatchesState, In, Linked
<1> QED BY <1>2, <1>3

(* The current process goes back among the activatable ones.               *)
LEMMA PreemptFacts ==
  ASSUME SchedInv, Preempt
  PROVE  /\ queue' \in [Queues -> Seq(Procs)]
         /\ DisjointIn(queue')
         /\ \A m \in Queues : \A x :
               Has(queue'[m], x) <=> \/ Has(queue[m], x) /\ x # Top
                                     \/ m = "activatable" /\ x = current
         /\ current \in Procs /\ state[current] = "ACTIF" /\ Top # current
         /\ \A m \in Queues : ~ Has(queue[m], current)
         /\ halt' = halt
<1> DEFINE g == Pop(queue, "activatable")
<1>1. /\ g \in [Queues -> Seq(Procs)] /\ DisjointIn(g)
      /\ Top \in Procs /\ Has(queue["activatable"], Top)
      /\ \A m \in Queues : \A x : Has(g[m], x) <=> Has(queue[m], x) /\ x # Top
  BY DispatchFacts
<1>2. /\ current \in Procs /\ state[current] = "ACTIF"
      /\ \A m \in Queues : ~ Has(queue[m], current)
  BY DEF Preempt, SchedInv, SchedTypeOK, LinksMatchStates, LinkMatchesState, Linked, In
<1>3. Top # current
  BY <1>1, <1>2, SchedulerQueuesExist
<1>4. halt' = halt
  BY <1>2 DEF Preempt, AssertThat, Linked, In
<1>5. queue' = Link(g, "activatable", current, prio)
  BY DEF Preempt, Dispatch
<1>6. prio \in [Procs -> Int] /\ \A m \in Queues : ~ Has(g[m], current)
  BY <1>1, <1>2, PrioIsInt
<1> HIDE DEF g
<1>7. /\ Link(g, "activatable", current, prio) \in [Queues -> Seq(Procs)]
      /\ DisjointIn(Link(g, "activatable", current, prio))
      /\ \A m \in Queues : \A x :
             Has(Link(g, "activatable", current, prio)[m], x)
                 <=> Has(g[m], x) \/ (m = "activatable" /\ x = current)
  <2>1. g \in [Queues -> Seq(Procs)] /\ DisjointIn(g) /\ current \in Procs
    BY <1>1, <1>2
  <2>2. "activatable" \in Queues
    BY SchedulerQueuesExist
  <2> QED BY ONLY <1>6, <2>1, <2>2, AddTo, ZenonT(60)
<1> QED BY <1>1, <1>2, <1>3, <1>4, <1>5, <1>7

(* The preempted process is put back, the one dispatched is taken out.     *)
LEMMA PreemptInv ==
  ASSUME SchedInv, Preempt
  PROVE  SchedInv'
<1>1. /\ queue' \in [Queues -> Seq(Procs)]
      /\ DisjointIn(queue')
      /\ \A m \in Queues : \A x :
            Has(queue'[m], x) <=> \/ Has(queue[m], x) /\ x # Top
                                  \/ m = "activatable" /\ x = current
      /\ current \in Procs /\ state[current] = "ACTIF" /\ Top # current
      /\ \A m \in Queues : ~ Has(queue[m], current)
      /\ halt' = halt
  BY PreemptFacts
<1>2. Top \in Procs /\ Has(queue["activatable"], Top) /\ Idle \in Procs
  BY DispatchFacts, SchedulerAssumption DEF SchedulerAssumption
<1>3. /\ current' = Top /\ phase' = "user"
      /\ UNCHANGED <<prio, wake, blocked_head, clock>>
      /\ state' = [state EXCEPT ![current] = "ACTIVATABLE", ![Top] = "ACTIF"]
  BY DEF Preempt, Dispatch
<1>4. state \in [Procs -> States]
  BY DEF SchedInv, SchedTypeOK
<1>5. SchedTypeOK'
  BY <1>1, <1>2, <1>3 DEF SchedInv, SchedTypeOK, States, Phases
<1>6. \A p \in Procs : state'[p] = IF p = Top THEN "ACTIF"
                                   ELSE IF p = current THEN "ACTIVATABLE" ELSE state[p]
  BY <1>1, <1>2, <1>3, <1>4
<1>7. LinksMatchStates'
  <2>1. ASSUME NEW p \in Procs PROVE LinkMatchesState(p)'
    <3>1. CASE p = Top
      <4>1. state'[p] = "ACTIF" /\ p = current'
        BY <1>2, <1>3, <1>6, <3>1
      <4>2. \A m \in Queues : ~ Has(queue'[m], p)
        BY <1>1, <3>1
      <4> QED BY <4>1, <4>2, SchedulerQueuesExist DEF LinkMatchesState, Linked, In
    <3>2. CASE p = current
      <4>1. state'[p] = "ACTIVATABLE"
        BY <1>1, <1>6, <3>2
      <4>2. \A m \in Queues : Has(queue'[m], p) <=> m = "activatable"
        BY <1>1, <3>2
      <4> QED BY <4>1, <4>2, SchedulerQueuesExist DEF LinkMatchesState, Linked, In
    <3>3. CASE p # Top /\ p # current
      BY <1>1, <1>2, <1>3, <1>6, <3>3, SchedulerQueuesExist
      DEF SchedInv, LinksMatchStates, LinkMatchesState, Linked, In
    <3> QED BY <3>1, <3>2, <3>3
  <2>2. state'[current'] = "ACTIF"
    BY <1>2, <1>3, <1>6
  <2>3. state'[Idle] \in {"ACTIF", "ACTIVATABLE"}
    BY <1>2, <1>6 DEF SchedInv, LinksMatchStates, LinkMatchesState
  <2>4. current' # NoProc => phase' = "user"
    BY <1>3
  <2> QED BY <2>1, <2>2, <2>3, <2>4 DEF LinksMatchStates
<1> QED BY <1>1, <1>5, <1>7, DisjointNext DEF SchedInv, NoAssertFails

(* The current process, if any, is asleep and stays where it is.           *)
LEMMA LeaveInv ==
  ASSUME SchedInv, First \/ Leave
  PROVE  SchedInv'
<1>1. /\ Pop(queue, "activatable") \in [Queues -> Seq(Procs)]
      /\ DisjointIn(Pop(queue, "activatable"))
      /\ Top \in Procs /\ Has(queue["activatable"], Top)
      /\ \A m \in Queues : \A x :
            Has(Pop(queue, "activatable")[m], x) <=> Has(queue[m], x) /\ x # Top
  BY DispatchFacts
<1>2. queue' = Pop(queue, "activatable")
  BY DEF First, Leave, Dispatch
<1>3. /\ current' = Top /\ phase' = "user" /\ halt' = halt
      /\ UNCHANGED <<prio, wake, blocked_head, clock>>
      /\ state' = [state EXCEPT ![Top] = "ACTIF"]
  BY DEF First, Leave, Dispatch
<1>4. state \in [Procs -> States]
  BY DEF SchedInv, SchedTypeOK
<1>5. SchedTypeOK'
  BY <1>1, <1>2, <1>3 DEF SchedInv, SchedTypeOK, States, Phases
<1>6. \A p \in Procs : state'[p] = IF p = Top THEN "ACTIF" ELSE state[p]
  BY <1>1, <1>3, <1>4
<1>7. \A p \in Procs : state[p] # "ACTIF"
  BY SchedulerAssumption
  DEF SchedInv, LinksMatchStates, LinkMatchesState, First, Leave, SchedulerAssumption
<1>8. \A m \in Queues : \A x : Has(queue'[m], x) <=> Has(queue[m], x) /\ x # Top
  BY <1>1, <1>2
<1>9. LinksMatchStates'
  <2>1. ASSUME NEW p \in Procs PROVE LinkMatchesState(p)'
    <3>1. CASE p = Top
      <4>1. state'[p] = "ACTIF" /\ p = current'
        BY <1>1, <1>3, <1>6, <3>1
      <4>2. \A m \in Queues : ~ Has(queue'[m], p)
        BY <1>8, <3>1
      <4> QED BY <4>1, <4>2, SchedulerQueuesExist DEF LinkMatchesState, Linked, In
    <3>2. CASE p # Top
      BY <1>3, <1>6, <1>7, <1>8, <3>2, SchedulerQueuesExist
      DEF SchedInv, LinksMatchStates, LinkMatchesState, Linked, In
    <3> QED BY <3>1, <3>2
  <2>2. state'[current'] = "ACTIF"
    BY <1>1, <1>3, <1>6
  <2>3. state'[Idle] \in {"ACTIF", "ACTIVATABLE"}
    BY <1>6, SchedulerAssumption DEF SchedInv, LinksMatchStates, LinkMatchesState, SchedulerAssumption
  <2>4. current' # NoProc => phase' = "user"
    BY <1>3
  <2> QED BY <2>1, <2>2, <2>3, <2>4 DEF LinksMatchStates
<1> QED BY <1>1, <1>2, <1>3, <1>5, <1>9, DisjointNext DEF SchedInv, NoAssertFails

(* Nobody is ready but the current process: if it slept, the idle process  *)
(* would be ready.                                                         *)
LEMMA StayInv ==
  ASSUME SchedInv, Stay
  PROVE  SchedInv'
<1>1. /\ UNCHANGED <<procVars, queue, current, clock, halt>> /\ phase' = "user"
      /\ queue["activatable"] = <<>> \/ (current # NoProc /\ state[current] = "ACTIF")
  BY DEF Stay, procVars
<1>2. Idle \in Procs /\ "activatable" \in Queues
  BY SchedulerAssumption, SchedulerQueuesExist DEF SchedulerAssumption
<1>3. ASSUME current # NoProc PROVE state[current] = "ACTIF"
  <2>1. CASE queue["activatable"] = <<>>
    <3>1. ~ In(Idle, "activatable")
      BY <2>1 DEF In, Has
    <3> QED BY <1>2, <3>1 DEF SchedInv, LinksMatchStates, LinkMatchesState
  <2> QED BY <1>1, <1>3, <2>1
<1>4. SchedTypeOK'
  BY <1>1 DEF SchedInv, SchedTypeOK, procVars, Phases
<1>5. LinksMatchStates'
  BY <1>1, <1>3 DEF SchedInv, LinksMatchStates, LinkMatchesState, Linked, In, procVars
<1> QED BY <1>1, <1>4, <1>5 DEF SchedInv, QueuesDisjoint, NoAssertFails

-----------------------------------------------------------------------------
(* SchedInv depends on the variables of the scheduler only.                *)
LEMMA StutterInv ==
  ASSUME SchedInv, UNCHANGED schedVars
  PROVE  SchedInv'
BY DEF SchedInv, SchedTypeOK, QueuesDisjoint, LinksMatchStates, LinkMatchesState, NoAssertFails,
       Linked, In, schedVars

(* The inductive invariant: every step of the scheduler, of its clients and*)
(* of the timer keeps the conjunction of the four safety invariants.       *)
THEOREM SchedInvariant == SchedSpec => []SchedInv
<1>1. SchedInit => SchedInv
  BY InitInv
<1>2. SchedInv /\ [SchedNext]_schedVars => SchedInv'
  <2> SUFFICES ASSUME SchedInv, [SchedNext]_schedVars PROVE SchedInv'
    OBVIOUS
  <2>1. CASE Tick \/ TickInKernel
    BY <2>1, TickInv
  <2>2. CASE SchedulerCall
    BY <2>2, TickInv, WaitClockInv, ChPrioInv DEF SchedulerCall
  <2>3. CASE SchedulerStep
    BY <2>3, AwakeInv, PreemptInv, LeaveInv, StayInv, DispatchFacts DEF SchedulerStep
  <2>4. CASE UNCHANGED schedVars
    BY <2>4, StutterInv
  <2> QED BY <2>1, <2>2, <2>3, <2>4 DEF SchedNext
<1> QED BY <1>1, <1>2, PTL DEF SchedSpec

(* The state is what the type invariant says, whatever the clients do.     *)
THEOREM SchedTypeCorrect == SchedSpec => []SchedTypeOK
<1>1. SchedInv => SchedTypeOK
  BY DEF SchedInv
<1> QED BY <1>1, SchedInvariant, PTL

(* No process is ever linked in two queues, or twice in one.               *)
THEOREM SchedDisjoint == SchedSpec => []QueuesDisjoint
<1>1. SchedInv => QueuesDisjoint
  BY DEF SchedInv
<1> QED BY <1>1, SchedInvariant, PTL

(* No assertion of queue.h fails in any run of the scheduler.              *)
THEOREM SchedNoAssert == SchedSpec => []NoAssertFails
<1>1. SchedInv => NoAssertFails
  BY DEF SchedInv
<1> QED BY <1>1, SchedInvariant, PTL

(* The states and the links of all processes agree, inside scheduler() too.*)
THEOREM SchedLinksMatch == SchedSpec => []LinksMatchStates
<1>1. SchedInv => LinksMatchStates
  BY DEF SchedInv
<1> QED BY <1>1, SchedInvariant, PTL

(* Every live process runs or is linked somewhere, and never both.         *)
THEOREM SchedNoProcessLost == SchedSpec => []NoProcessLost
<1>1. SchedInv => NoProcessLost
  <2> SUFFICES ASSUME SchedInv, phase = "user", NEW p \in Procs, Alive(p)
               PROVE  p = current <=> ~ Linked(p)
    BY DEF NoProcessLost
  <2>1. state[p] \in {"ACTIF", "ACTIVATABLE", "ASLEEP"} /\ p # NoProc
    BY SchedulerAssumption
    DEF SchedInv, LinksMatchStates, LinkMatchesState, Alive, SchedulerAssumption
  <2>2. ASSUME p = current PROVE ~ Linked(p)
    BY <2>1, <2>2 DEF SchedInv, LinksMatchStates, LinkMatchesState
  <2>3. ASSUME p # current PROVE Linked(p)
    BY <2>1, <2>3, SchedulerQueuesExist
    DEF SchedInv, LinksMatchStates, LinkMatchesState, Linked
  <2> QED BY <2>2, <2>3
<1> QED BY <1>1, SchedInvariant, PTL

-----------------------------------------------------------------------------
(***************************************************************************)
(* The process that runs has the highest priority.  The argument: the      *)
(* activatable queue is in ascending order at every step, so its top is    *)
(* its maximum, and the dispatch compares the current process with the     *)
(* top.  A woken sleeper is in that queue marked ASLEEP, and chprio would  *)
(* leave it where it stands: the theorem is about clients that do not call *)
(* chprio on a process that sleeps.                                        *)
(***************************************************************************)
CurrentIsHighest ==
  phase = "user" /\ current # NoProc =>
    \A p \in Procs : In(p, "activatable") => prio[p] <= prio[current]

PrioInv ==
  /\ Ascending(queue["activatable"], prio)
  /\ \A p \in Procs : state[p] = "ASLEEP" => p \in Sleepers
  /\ CurrentIsHighest

(* The order depends on the priorities of the elements alone.              *)
LEMMA AscendingSame ==
  ASSUME NEW q, NEW key, NEW other, Ascending(q, key),
         \A x : Has(q, x) => key[x] = other[x]
  PROVE  Ascending(q, other)
<1>1. \A i \in DOMAIN q : key[q[i]] = other[q[i]]
  BY DEF Has
<1> QED BY <1>1 DEF Ascending

(* The boot processes are in ascending order.                              *)
LEMMA PrioInit == SchedInit => PrioInv
<1> SUFFICES ASSUME SchedInit PROVE PrioInv
  OBVIOUS
<1>1. PICK q \in BootOrders :
         queue = [n \in Queues |-> IF n = "activatable" THEN q ELSE <<>>]
  BY DEF SchedInit
<1>2. queue["activatable"] = q /\ Ascending(q, BootPrio)
  BY <1>1, SchedulerQueuesExist DEF BootOrders
<1>3. \A x : Has(q, x) => x \in Boot
  BY DEF BootOrders, Has, Range
<1>4. \A x \in Boot : BootPrio[x] = prio[x]
  BY SchedulerAssumption DEF SchedInit, SchedulerAssumption
<1>5. Ascending(q, prio)
  BY <1>2, <1>3, <1>4, AscendingSame
<1> QED BY <1>2, <1>5 DEF PrioInv, CurrentIsHighest, SchedInit

(* The steps that leave the activatable queue as it is, or add to it on    *)
(* the way through scheduler().                                            *)
LEMMA PrioCalls ==
  ASSUME SchedInv, PrioInv,
         \/ Tick \/ TickInKernel \/ SetTimeOfDay
         \/ current \in Sleepers /\ \E ticks \in SleepTicks : WaitClock(ticks)
         \/ AwakeDone
         \/ UNCHANGED schedVars
  PROVE  PrioInv'
<1>1. queue'["activatable"] = queue["activatable"] /\ prio' = prio
  BY SchedulerQueuesExist
  DEF Tick, TickInKernel, TickCounted, SetTimeOfDay, WaitClock, AwakeDone, schedVars, procVars,
      Link, SchedInv, SchedTypeOK
<1>2. \A p \in Procs : state'[p] = "ASLEEP" => p \in Sleepers
  BY DEF Tick, TickInKernel, TickCounted, SetTimeOfDay, WaitClock, AwakeDone, schedVars, procVars,
         PrioInv, SchedInv, SchedTypeOK
<1>3. CurrentIsHighest'
  <2>1. phase' = "user" => phase = "user" /\ current' = current
    BY DEF Tick, TickInKernel, TickCounted, SetTimeOfDay, WaitClock, AwakeDone, CallScheduler, schedVars
  <2> QED BY <1>1, <2>1 DEF PrioInv, CurrentIsHighest, In
<1> QED BY <1>1, <1>2, <1>3 DEF PrioInv

(* What the invariant says of the queue of activatable processes.          *)
LEMMA ActivatableQueue ==
  ASSUME SchedInv
  PROVE  /\ "activatable" \in Queues
         /\ queue["activatable"] \in Seq(Procs) /\ NoRepeat(queue["activatable"])
         /\ prio \in [Procs -> Int]
BY SchedulerQueuesExist, Disjoint, PrioIsInt
DEF SchedInv, SchedTypeOK, DisjointIn

(* A woken process is put at its place among the activatable ones.         *)
LEMMA PrioAwakeOne ==
  ASSUME SchedInv, PrioInv, AwakeOne
  PROVE  PrioInv'
<1> DEFINE q == queue["activatable"]
           t == QueueTop(queue["asleep"])
<1>1. /\ queue["asleep"] \in Seq(Procs) /\ queue["asleep"] # <<>>
      /\ queue \in [Queues -> Seq(Procs)]
  BY SchedulerQueuesExist DEF SchedInv, SchedTypeOK, AwakeOne, Due
<1>2. t \in Procs
  BY <1>1, QueueOutFacts
<1>3. queue'["activatable"] = QueueAdd(q, t, prio)
  BY <1>1, SchedulerQueuesExist DEF AwakeOne, Link, Pop
<1>4. Ascending(QueueAdd(q, t, prio), prio)
  <2>1. q \in Seq(Procs) /\ prio \in [Procs -> Int] /\ Ascending(q, prio)
    BY ActivatableQueue DEF PrioInv
  <2> QED BY <1>2, <2>1, QueueAddAscending
<1>5. UNCHANGED <<state, prio, current, phase>> /\ phase = "awake"
  BY DEF AwakeOne, procVars
<1> QED BY <1>3, <1>4, <1>5 DEF PrioInv, CurrentIsHighest

(* chprio puts an activatable process at the place of its new priority, and*)
(* calls scheduler() whenever the order of the running process may change. *)
LEMMA PrioChPrio ==
  ASSUME SchedInv, PrioInv, Sleepers \cap PrioTargets = {},
         NEW p \in PrioTargets, NEW newprio \in Prios, ChPrio(p, newprio)
  PROVE  PrioInv'
<1> DEFINE q == queue["activatable"]
<1>1. /\ q \in Seq(Procs) /\ NoRepeat(q) /\ prio \in [Procs -> Int] /\ Ascending(q, prio)
      /\ p \in Procs /\ "activatable" \in Queues /\ queue \in [Queues -> Seq(Procs)]
  BY ActivatableQueue, SchedulerAssumption
  DEF PrioInv, SchedulerAssumption, SchedInv, SchedTypeOK
<1>2. /\ prio' = [prio EXCEPT ![p] = newprio] /\ newprio \in Int
      /\ UNCHANGED <<state, current>>
  BY SchedulerAssumption DEF ChPrio, SchedulerAssumption
<1>3. prio' \in [Procs -> Int] /\ \A x : x # p /\ x \in Procs => prio'[x] = prio[x]
  BY <1>1, <1>2
<1>4. state[p] \in {"ACTIF", "ACTIVATABLE"}
  BY <1>1 DEF ChPrio, Alive, SchedInv, LinksMatchStates, LinkMatchesState, PrioInv
<1>5. phase' = "awake"
  BY <1>4 DEF ChPrio, CallScheduler
<1>6. ASSUME NEW s \in Seq(Procs), Ascending(s, prio), ~ Has(s, p)
      PROVE  Ascending(s, prio')
  <2>1. \A x : Has(s, x) => x \in Procs /\ x # p
    BY <1>6 DEF Has
  <2>2. \A x : Has(s, x) => prio[x] = prio'[x]
    BY <1>3, <2>1
  <2> QED BY <1>6, <2>2, AscendingSame
<1>7. Ascending(queue'["activatable"], prio')
  <2>1. CASE state[p] = "ACTIVATABLE"
    <3> DEFINE s == QueueDel(q, p)
    <3>1. s \in Seq(Procs) /\ Ascending(s, prio) /\ ~ Has(s, p)
      BY <1>1, QueueDelFacts
    <3>2. Ascending(s, prio')
      BY <1>6, <3>1
    <3>3. Ascending(QueueAdd(s, p, prio'), prio')
      BY ONLY <1>1, <1>3, <3>1, <3>2, QueueAddAscending
    <3>4. queue'["activatable"] = QueueAdd(s, p, prio')
      BY <1>1, <2>1 DEF ChPrio, Link, Unlink, ListOf
    <3> QED BY <3>3, <3>4
  <2>2. CASE state[p] = "ACTIF"
    <3>1. queue' = queue /\ ~ Has(q, p)
      BY <1>1, <2>2
      DEF ChPrio, SchedInv, LinksMatchStates, LinkMatchesState, Linked, In
    <3> QED BY <1>1, <1>6, <3>1
  <2> QED BY <1>4, <2>1, <2>2
<1> QED BY <1>2, <1>5, <1>7 DEF PrioInv, CurrentIsHighest

(* The process that is dispatched is the top, which no other exceeds.      *)
LEMMA PrioDispatch ==
  ASSUME SchedInv, PrioInv, First \/ Preempt \/ Leave
  PROVE  PrioInv'
<1> DEFINE q == queue["activatable"]
<1>1. /\ q \in Seq(Procs) /\ NoRepeat(q) /\ prio \in [Procs -> Int] /\ Ascending(q, prio)
      /\ "activatable" \in Queues /\ queue \in [Queues -> Seq(Procs)] /\ q # <<>>
  BY ActivatableQueue
  DEF PrioInv, SchedInv, SchedTypeOK, First, Preempt, Leave, AtSwitch
<1>2. /\ Ascending(QueueOut(q), prio) /\ QueueOut(q) \in Seq(Procs)
      /\ \A x : Has(q, x) => prio[x] <= prio[Top]
      /\ \A x : Has(QueueOut(q), x) => Has(q, x)
  BY <1>1, QueueOutAscending, QueueOutFacts DEF Top
<1>3. Top \in Procs
  BY DispatchFacts
<1>4. /\ current' = Top /\ phase' = "user" /\ prio' = prio
      /\ state \in [Procs -> States]
  BY DEF First, Preempt, Leave, Dispatch, SchedInv, SchedTypeOK
<1>5. CASE Preempt
  <2>1. /\ current \in Procs /\ prio[Top] >= prio[current]
        /\ queue'["activatable"] = QueueAdd(QueueOut(q), current, prio)
    <3>1. current \in Procs
      BY <1>5, PreemptFacts
    <3>2. prio[Top] >= prio[current]
      BY <1>5 DEF Preempt
    <3>3. queue' = Link(Pop(queue, "activatable"), "activatable", current, prio)
      BY <1>5 DEF Preempt, Dispatch
    <3> QED BY <1>1, <3>1, <3>2, <3>3 DEF Link, Pop
  <2>2. Ascending(QueueAdd(QueueOut(q), current, prio), prio)
    BY <1>1, <1>2, <2>1, QueueAddAscending
  <2>3. \A x : Has(queue'["activatable"], x) => x = current \/ Has(q, x)
    BY <1>1, <1>2, <2>1, QueueAddFacts
  <2>4. \A x : Has(queue'["activatable"], x) => prio[x] <= prio[Top]
    BY <1>1, <1>2, <1>3, <2>1, <2>3
  <2>5. \A p \in Procs : state'[p] = "ASLEEP" => state[p] = "ASLEEP"
    BY <1>4, <1>5 DEF Preempt
  <2> QED BY <1>4, <2>1, <2>2, <2>4, <2>5 DEF PrioInv, CurrentIsHighest, In
<1>6. CASE First \/ Leave
  <2>1. queue'["activatable"] = QueueOut(q)
    BY <1>1, <1>6 DEF First, Leave, Dispatch, Pop
  <2>2. \A p \in Procs : state'[p] = "ASLEEP" => state[p] = "ASLEEP"
    BY <1>4, <1>6 DEF First, Leave
  <2> QED BY <1>2, <1>4, <2>1, <2>2 DEF PrioInv, CurrentIsHighest, In
<1> QED BY <1>3, <1>5, <1>6

(* A process that stays has a higher priority than the top.                *)
LEMMA PrioStay ==
  ASSUME SchedInv, PrioInv, Stay
  PROVE  PrioInv'
<1> DEFINE q == queue["activatable"]
<1>1. q \in Seq(Procs) /\ prio \in [Procs -> Int] /\ Ascending(q, prio)
  BY ActivatableQueue DEF PrioInv
<1>2. UNCHANGED <<state, prio, queue, current>>
  BY DEF Stay, procVars
<1>3. ASSUME NEW p \in Procs, In(p, "activatable"), current # NoProc
      PROVE  prio[p] <= prio[current]
  <2>1. q # <<>>
    BY <1>3 DEF In, Has
  <2>2. prio[Top] < prio[current]
    BY <2>1 DEF Stay
  <2>3. prio[p] <= prio[Top]
    BY <1>1, <1>3, <2>1, QueueOutAscending DEF Top, In
  <2>4. prio[p] \in Int /\ prio[Top] \in Int /\ prio[current] \in Int
    BY <1>1, <1>3, <2>1, QueueOutFacts DEF Top, SchedInv, SchedTypeOK
  <2> QED BY <2>2, <2>3, <2>4
<1> QED BY <1>1, <1>2, <1>3 DEF PrioInv, CurrentIsHighest, In

(* No process waits while one of lower priority runs, as long as no client *)
(* changes the priority of a process that calls wait_clock.                *)
THEOREM SchedHighestPriority ==
  ASSUME Sleepers \cap PrioTargets = {}
  PROVE  SchedSpec => []HighestPriorityRuns
<1>1. SchedInit => PrioInv
  BY PrioInit
<1>2. SchedInv /\ PrioInv /\ [SchedNext]_schedVars => PrioInv'
  <2> SUFFICES ASSUME SchedInv, PrioInv, [SchedNext]_schedVars PROVE PrioInv'
    OBVIOUS
  <2>1. CASE Tick \/ TickInKernel \/ UNCHANGED schedVars
    BY <2>1, PrioCalls
  <2>2. CASE SchedulerCall
    BY <2>2, PrioCalls, PrioChPrio DEF SchedulerCall
  <2>3. CASE SchedulerStep
    BY <2>3, PrioCalls, PrioAwakeOne, PrioDispatch, PrioStay DEF SchedulerStep
  <2> QED BY <2>1, <2>2, <2>3 DEF SchedNext
<1>3. SchedInv /\ PrioInv => HighestPriorityRuns
  <2> SUFFICES ASSUME SchedInv, PrioInv, phase = "user", current # NoProc
               PROVE  /\ \A p \in Procs : state[p] = "ACTIF" <=> p = current
                      /\ \A p \in Procs : In(p, "activatable") => prio[p] <= prio[current]
    BY DEF HighestPriorityRuns
  <2>1. \A p \in Procs : state[p] = "ACTIF" <=> p = current
    BY DEF SchedInv, LinksMatchStates, LinkMatchesState
  <2> QED BY <2>1 DEF PrioInv, CurrentIsHighest
<1> QED BY <1>1, <1>2, <1>3, SchedInvariant, PTL DEF SchedSpec
-----------------------------------------------------------------------------
(***************************************************************************)
(* No sleeper is left behind.  The argument: the sleep queue is ascending  *)
(* in wake, the negative of the time, so that the wake-up loop may stop at *)
(* the first process that is not due.  A wake of 0 stands for an empty     *)
(* queue in the code; it comes only of wait_clock(0) at time 0, and the    *)
(* theorem is about clients that do not ask for 0 ticks.                   *)
(***************************************************************************)
SleepInv ==
  /\ Ascending(queue["asleep"], wake)
  /\ \A p \in Procs : In(p, "asleep") => wake[p] < 0

(* What SchedInv says of the sleep queue.                                  *)
LEMMA SleepQueue ==
  ASSUME SchedInv
  PROVE  /\ "asleep" \in Queues /\ queue["asleep"] \in Seq(Procs)
         /\ queue \in [Queues -> Seq(Procs)] /\ wake \in [Procs -> Int]
BY SchedulerQueuesExist DEF SchedInv, SchedTypeOK

(* The steps that leave the sleep queue as it is: chprio unlinks nobody    *)
(* from it, as it looks at the state first.                                *)
LEMMA SleepSame ==
  ASSUME SchedInv, SleepInv,
         \/ Tick \/ TickInKernel \/ SetTimeOfDay \/ AwakeDone
         \/ First \/ Preempt \/ Leave \/ Stay
         \/ \E p \in PrioTargets, newprio \in Prios : ChPrio(p, newprio)
         \/ UNCHANGED schedVars
  PROVE  SleepInv'
<1>1. wake' = wake
  BY DEF Tick, TickInKernel, TickCounted, SetTimeOfDay, AwakeDone, First, Preempt, Leave, Stay,
         Dispatch, ChPrio, schedVars, procVars
<1>2. queue'["asleep"] = queue["asleep"]
  <2>1. CASE \/ Tick \/ TickInKernel \/ SetTimeOfDay \/ AwakeDone \/ Stay \/ UNCHANGED schedVars
    BY <2>1 DEF Tick, TickInKernel, TickCounted, SetTimeOfDay, AwakeDone, Stay, schedVars
  <2>2. CASE First \/ Preempt \/ Leave
    BY <2>2, SleepQueue DEF First, Preempt, Leave, Dispatch, Pop, Link
  <2>3. ASSUME NEW p \in PrioTargets, NEW newprio \in Prios, ChPrio(p, newprio)
        PROVE  queue'["asleep"] = queue["asleep"]
    <3>1. p \in Procs
      BY SchedulerAssumption DEF SchedulerAssumption
    <3>2. CASE queue' = queue
      BY <3>2
    <3>3. CASE queue' # queue
      <4>1. state[p] = "ACTIVATABLE"
        BY <2>3, <3>1, <3>3 DEF ChPrio, SchedInv, LinksMatchStates, LinkMatchesState
      <4>2. ~ Has(queue["asleep"], p)
        BY <3>1, <4>1 DEF SchedInv, LinksMatchStates, LinkMatchesState, In
      <4>3. queue' = Link(Unlink(queue, p), "activatable", p, prio')
        BY <2>3, <3>3, <4>1 DEF ChPrio, ListOf
      <4> QED BY <4>2, <4>3, SleepQueue DEF Link, Unlink, QueueDel
    <3> QED BY <3>2, <3>3
  <2> QED BY <2>1, <2>2, <2>3
<1> QED BY <1>1, <1>2 DEF SleepInv, In

(* A sleeper is put at the place of its wake time.                         *)
LEMMA SleepWaitClock ==
  ASSUME SchedInv, SleepInv, 0 \notin SleepTicks, NEW ticks \in SleepTicks, WaitClock(ticks)
  PROVE  SleepInv'
<1> DEFINE q == queue["asleep"]
           t == - (clock + ticks)
<1>1. /\ q \in Seq(Procs) /\ wake \in [Procs -> Int] /\ Ascending(q, wake)
      /\ "asleep" \in Queues /\ queue \in [Queues -> Seq(Procs)]
  BY SleepQueue DEF SleepInv
<1>2. current \in Procs /\ ~ Has(q, current)
  BY <1>1 DEF WaitClock, Running, SchedInv, SchedTypeOK, LinksMatchStates, LinkMatchesState, In, Linked
<1>3. t \in Int /\ t < 0
  BY SchedulerAssumption DEF SchedulerAssumption, SchedInv, SchedTypeOK
<1>4. /\ wake' = [wake EXCEPT ![current] = t]
      /\ queue'["asleep"] = QueueAdd(q, current, wake')
  BY <1>1 DEF WaitClock, Link
<1> HIDE DEF t
<1>5. /\ wake' \in [Procs -> Int] /\ wake'[current] = t
      /\ \A x \in Procs : x # current => wake'[x] = wake[x]
  BY <1>1, <1>2, <1>3, <1>4
<1>6. \A x : Has(q, x) => x \in Procs /\ x # current
  BY <1>1, <1>2 DEF Has
<1>7. Ascending(q, wake')
  <2>1. \A x : Has(q, x) => wake[x] = wake'[x]
    BY <1>5, <1>6
  <2> QED BY <1>1, <2>1, AscendingSame
<1>8. Ascending(QueueAdd(q, current, wake'), wake')
  BY ONLY <1>1, <1>2, <1>5, <1>7, QueueAddAscending
<1>9. \A x : Has(QueueAdd(q, current, wake'), x) <=> x = current \/ Has(q, x)
  BY ONLY <1>1, <1>2, <1>5, QueueAddFacts
<1>10. \A p \in Procs : Has(queue'["asleep"], p) => wake'[p] < 0
  BY <1>3, <1>4, <1>5, <1>9 DEF SleepInv, In
<1> QED BY <1>4, <1>8, <1>10 DEF SleepInv, In

(* The loop takes the top.                                                 *)
LEMMA SleepAwakeOne ==
  ASSUME SchedInv, SleepInv, AwakeOne
  PROVE  SleepInv'
<1> DEFINE q == queue["asleep"]
<1>1. /\ q \in Seq(Procs) /\ wake \in [Procs -> Int] /\ Ascending(q, wake) /\ q # <<>>
      /\ "asleep" \in Queues /\ queue \in [Queues -> Seq(Procs)]
  BY SleepQueue DEF SleepInv, AwakeOne, Due
<1>2. wake' = wake /\ queue'["asleep"] = QueueOut(q)
  BY <1>1 DEF AwakeOne, procVars, Link, Pop
<1>3. Ascending(QueueOut(q), wake)
  BY <1>1, QueueOutAscending
<1>4. \A x : Has(QueueOut(q), x) => Has(q, x)
  BY <1>1, QueueOutFacts
<1> QED BY <1>2, <1>3, <1>4 DEF SleepInv, In

(* When the wake-up loop ends, nobody it should have woken is still in the *)
(* sleep queue (awake_sleeping_process), as long as no client sleeps for 0 *)
(* ticks.                                                                  *)
THEOREM SchedNoneOverslept ==
  ASSUME 0 \notin SleepTicks
  PROVE  SchedSpec => NoneOverslept
<1> DEFINE Woken == AwakeDone => \A p \in Procs : In(p, "asleep") => clock <= - wake[p]
<1>1. SchedInit => SleepInv
  BY SchedulerQueuesExist DEF SchedInit, SleepInv, In, Has, Ascending
<1>2. SchedInv /\ SleepInv /\ [SchedNext]_schedVars => SleepInv'
  <2> SUFFICES ASSUME SchedInv, SleepInv, [SchedNext]_schedVars PROVE SleepInv'
    OBVIOUS
  <2> QED BY SleepSame, SleepWaitClock, SleepAwakeOne DEF SchedNext, SchedulerCall, SchedulerStep
<1>3. SchedInv /\ SleepInv => Woken
  <2> SUFFICES ASSUME SchedInv, SleepInv, AwakeDone, NEW p \in Procs, In(p, "asleep")
               PROVE  clock <= - wake[p]
    OBVIOUS
  <2> DEFINE q == queue["asleep"]
             t == QueueTop(q)
  <2>1. /\ q \in Seq(Procs) /\ q # <<>> /\ Has(q, p) /\ wake \in [Procs -> Int]
        /\ Ascending(q, wake)
    BY SleepQueue DEF SleepInv, In, Has
  <2>2. t \in Procs /\ Has(q, t) /\ wake[p] <= wake[t]
    BY <2>1, QueueOutFacts, QueueOutAscending
  <2>3. wake[t] < 0 /\ wake[t] \in Int /\ wake[p] \in Int /\ clock \in Int
    BY <2>1, <2>2, SchedulerAssumption DEF SleepInv, In, SchedInv, SchedTypeOK, SchedulerAssumption
  <2>4. ~ (clock > - wake[t])
    BY <2>1, <2>3 DEF AwakeDone, Due
  <2> QED BY <2>2, <2>3, <2>4
<1>4. SchedSpec => [][Woken]_schedVars
  BY <1>1, <1>2, <1>3, SchedInvariant, PTL DEF SchedSpec
<1> QED BY <1>4 DEF NoneOverslept
=============================================================================
