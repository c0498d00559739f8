----------------------------- MODULE CacheProofs -----------------------------
(***************************************************************************)
(* Theorems about Cache, for any keys, callbacks, sizes, quota and width   *)
(* of size_t, and about FastFIFO, the list it keeps its free entries in.   *)
(***************************************************************************)
EXTENDS Cache, FastFIFO, FiniteSetTheorems, SequenceTheorems, WellFoundedInduction, TLAPS

(***************************************************************************)
(* The inductive invariant                                                 *)
(***************************************************************************)

\* What holds as long as the program is not broken, also after an occupied key has
\* been reserved: the counters are right, the list leads to entries, and no callback
\* has been called twice.
CountersAreExact ==
    \A k \in Keys : holds[k] = IF k \in Present THEN cacheMap[k].refCount ELSE 0

ListLeadsToEntries ==
    /\ Range(freeList) \subseteq Present
    /\ \A k \in Present : cacheMap[k].freeListRef => k \in Range(freeList)

CalledAtMostOnce ==
    /\ \A c \in waiting : called[c] = 0
    /\ \A c \in Callbacks : called[c] <= 1

Intact == CountersAreExact /\ ListLeadsToEntries /\ CalledAtMostOnce

\* The reserver of a slot still has its reference.
ReservedIsReferenced ==
    \A k \in Present : cacheMap[k].isReserved => cacheMap[k].refCount > 0

ListIsExact ==
    /\ IsInjective(freeList)
    /\ Range(freeList) = {k \in Present : cacheMap[k].refCount = 0}
    /\ \A k \in Present : cacheMap[k].freeListRef <=> cacheMap[k].refCount = 0
    /\ \A k \in Range(freeList) : ~cacheMap[k].isReserved

Reserved == {k \in Present : cacheMap[k].isReserved}

QueueOf(k) == cacheMap[k].queue

\* The callbacks in the queues of the reserved slots are the waiting ones, each in
\* one place.
QueuesHoldWaiting ==
    /\ \A k \in Reserved : IsInjective(QueueOf(k)) /\ Range(QueueOf(k)) \subseteq waiting
    /\ \A k, x \in Reserved : k # x => Range(QueueOf(k)) \cap Range(QueueOf(x)) = {}
    /\ \A c \in waiting : \E k \in Reserved : c \in Range(QueueOf(k))

\* What holds beyond that until an occupied key is reserved.
Proper == ReservedIsReferenced /\ ListIsExact /\ QueuesHoldWaiting

Inv ==
    /\ TypeOK
    /\ ~broken => Intact
    /\ ProperUse => ~broken /\ Proper

(***************************************************************************)
(* Induction over the naturals, stated with sets                           *)
(***************************************************************************)

\* A non-empty set of naturals has a least element.
LEMMA LeastNatural ==
  ASSUME NEW T \in SUBSET Nat, T # {}
  PROVE  \E n \in T : \A m \in T : n <= m
<1> DEFINE R == OpToRel(<, Nat)
<1>1. IsWellFoundedOn(R, Nat)
  BY NatLessThanWellFounded, Zenon
<1>2. \A m, n \in Nat : m < n => <<m, n>> \in R
  BY DEF OpToRel
<1> HIDE DEF R
<1>3. PICK n \in T : \A m \in T : ~(<<m, n>> \in R)
  BY <1>1, WFMin
<1>4. \A m \in T : ~(m < n)
  BY <1>2, <1>3, Zenon
<1>5. \A m \in T : n <= m
  BY <1>4
<1>6. QED
  BY <1>5

\* A set that holds 0 and, with each number below N, the next one, holds 0 .. N.
LEMMA Induction ==
  ASSUME NEW N \in Nat, NEW S, 0 \in S, \A n \in 1 .. N : n - 1 \in S => n \in S
  PROVE  0 .. N \subseteq S
<1> DEFINE T == {n \in 0 .. N : n \notin S}
<1>1. SUFFICES ASSUME T # {} PROVE FALSE
  OBVIOUS
<1>2. T \in SUBSET Nat
  OBVIOUS
<1> HIDE DEF T
<1>3. PICK n \in T : \A m \in T : n <= m
  BY <1>1, <1>2, LeastNatural
<1>4. QED
  BY <1>3 DEF T

(***************************************************************************)
(* What cleanup computes                                                   *)
(***************************************************************************)

\* f is the function of the partial sums of z.
IsSum(f, N, z) ==
    /\ f \in [0 .. N -> Nat]
    /\ f[0] = 0
    /\ \A n \in 1 .. N : f[n] = f[n - 1] + z[n]

\* Every sequence of sizes has partial sums.
LEMMA SumExists ==
  ASSUME NEW N \in Nat, NEW z \in [1 .. N -> Nat]
  PROVE  \E f : IsSum(f, N, z)
<1> DEFINE S == {n \in 0 .. N : \E f : IsSum(f, n, z)}
<1>1. 0 \in S
  <2> DEFINE f == [m \in 0 .. 0 |-> 0]
  <2>1. IsSum(f, 0, z)
    BY DEF IsSum
  <2>2. QED
    BY <2>1
<1>2. ASSUME NEW n \in 1 .. N, n - 1 \in S
      PROVE  n \in S
  <2>1. PICK f : IsSum(f, n - 1, z)
    BY <1>2
  <2> DEFINE g == [m \in 0 .. n |-> IF m = n THEN f[n - 1] + z[n] ELSE f[m]]
  <2>2. f[n - 1] \in Nat /\ z[n] \in Nat /\ \A m \in 0 .. n - 1 : f[m] \in Nat
    BY <2>1 DEF IsSum
  <2>3. g \in [0 .. n -> Nat]
    BY <2>2
  <2>4. g[0] = 0
    BY <2>1 DEF IsSum
  <2>5. ASSUME NEW m \in 1 .. n
        PROVE  g[m] = g[m - 1] + z[m]
    <3>1. g[m - 1] = f[m - 1]
      OBVIOUS
    <3>2. CASE m = n
      BY <3>1, <3>2
    <3>3. CASE m # n
      <4>1. m \in 1 .. n - 1 /\ g[m] = f[m]
        BY <3>3
      <4>2. f[m] = f[m - 1] + z[m]
        BY <2>1, <4>1 DEF IsSum
      <4>3. QED
        BY <3>1, <4>1, <4>2
    <3>4. QED
      BY <3>2, <3>3
  <2>6. IsSum(g, n, z)
    BY <2>3, <2>4, <2>5 DEF IsSum
  <2>7. QED
    BY <2>6
<1> HIDE DEF S
<1>3. 0 .. N \subseteq S
  BY <1>1, <1>2, Induction
<1>4. QED
  BY <1>3 DEF S

\* spaceFreed is the sum of the sizes of the entries that were popped: the
\* recursive definition means what the loop of cleanup adds up.
LEMMA SpaceFreedIsSum ==
  ASSUME NEW list \in Seq(Keys),
         \A n \in 1 .. Len(list) : cacheMap[list[n]].size \in Nat
  PROVE  IsSum(SpaceFreed(list), Len(list), [n \in 1 .. Len(list) |-> cacheMap[list[n]].size])
<1> DEFINE N == Len(list)
           z == [n \in 1 .. N |-> cacheMap[list[n]].size]
           Def(f) == f = [n \in 0 .. N |-> IF n = 0 THEN 0 ELSE f[n - 1] + cacheMap[list[n]].size]
           F == SpaceFreed(list)
<1>1. N \in Nat /\ z \in [1 .. N -> Nat]
  OBVIOUS
<1>2. PICK f : IsSum(f, N, z)
  <2> HIDE DEF N, z
  <2>1. QED
    BY <1>1, SumExists
<1>3. Def(f)
  <2>1. f \in [0 .. N -> Nat]
    BY <1>2 DEF IsSum
  <2>2. \A n \in 0 .. N : f[n] = IF n = 0 THEN 0 ELSE f[n - 1] + cacheMap[list[n]].size
    BY <1>1, <1>2 DEF IsSum
  <2>3. QED
    BY <2>1, <2>2
<1>4. F = CHOOSE g : Def(g)
  BY DEF SpaceFreed
<1>5. Def(F)
  <2> HIDE DEF Def, F
  <2>1. QED
    BY <1>3, <1>4, Zenon
<1>6. \A n \in 0 .. N : F[n] = IF n = 0 THEN 0 ELSE F[n - 1] + cacheMap[list[n]].size
  <2> HIDE DEF F
  <2>1. QED
    BY <1>5
<1>7. \A n \in 0 .. N : F[n] \in Nat
  <2> DEFINE S == {n \in 0 .. N : F[n] \in Nat}
  <2> HIDE DEF F
  <2>1. 0 \in S
    BY <1>1, <1>6
  <2>2. \A n \in 1 .. N : n - 1 \in S => n \in S
    BY <1>1, <1>6
  <2> HIDE DEF S, N
  <2>3. 0 .. N \subseteq S
    BY <1>1, <2>1, <2>2, Induction
  <2>4. QED
    BY <2>3 DEF S
<1>8. F \in [0 .. N -> Nat]
  <2> HIDE DEF F
  <2>1. QED
    BY <1>5, <1>7
<1>9. QED
  <2> HIDE DEF F
  <2>1. F[0] = 0 /\ \A n \in 1 .. N : F[n] = F[n - 1] + z[n]
    BY <1>1, <1>6
  <2>2. IsSum(F, N, z)
    BY <1>8, <2>1 DEF IsSum
  <2>3. QED
    BY <2>2 DEF F

\* cleanup pops some number of entries of the list: all of them, or the fewest
\* that free the space it was asked for.
LEMMA CleanupCountExists ==
  ASSUME NEW list \in Seq(Keys), NEW space \in Nat,
         \A n \in 1 .. Len(list) : cacheMap[list[n]].size \in Nat
  PROVE  /\ CleanupCount(list, space) \in 0 .. Len(list)
         /\ \/ SpaceFreed(list)[CleanupCount(list, space)] >= space
            \/ CleanupCount(list, space) = Len(list)
<1> DEFINE N == Len(list)
           F == SpaceFreed(list)
           Enough(n) == F[n] >= space \/ n = N
           T == {n \in 0 .. N : Enough(n)}
           Right(n) == Enough(n) /\ \A m \in 0 .. n - 1 : F[m] < space
<1>1. F \in [0 .. N -> Nat] /\ N \in Nat
  BY SpaceFreedIsSum DEF IsSum
<1>2. T \in SUBSET Nat /\ N \in T
  BY <1>1
<1> HIDE DEF F, N
<1>3. PICK n \in T : \A m \in T : n <= m
  <2> HIDE DEF T
  <2>1. QED
    BY <1>2, LeastNatural
<1>4. n \in 0 .. N /\ Enough(n)
  OBVIOUS
<1>5. \A m \in 0 .. n - 1 : F[m] < space
  <2> TAKE m \in 0 .. n - 1
  <2>1. m \in 0 .. N /\ m \notin T
    BY <1>1, <1>3, <1>4
  <2>2. F[m] \in Nat
    BY <1>1, <2>1
  <2>3. QED
    BY <2>1, <2>2
<1>6. Right(n)
  BY <1>4, <1>5
<1>7. CleanupCount(list, space) = CHOOSE p \in 0 .. N : Right(p)
  BY DEF CleanupCount, F, N
<1>8. CleanupCount(list, space) \in 0 .. N /\ Right(CleanupCount(list, space))
  <2> HIDE DEF Right
  <2>1. QED
    BY <1>4, <1>6, <1>7, Zenon
<1>9. QED
  BY <1>8 DEF F, N

(***************************************************************************)
(* The free list and the queues                                            *)
(***************************************************************************)

\* The node that freeListRef points to is a place where the key is.
LEMMA ListPositionIs ==
  ASSUME TypeOK, NEW k \in Range(freeList)
  PROVE  ListPosition(k) \in 1 .. Len(freeList) /\ freeList[ListPosition(k)] = k
<1> DEFINE N == Len(freeList)
           Places == {p \in 1 .. N : freeList[p] = k}
           T == {N - p : p \in Places}
           Right(p) == freeList[p] = k /\ \A q \in DOMAIN freeList : freeList[q] = k => q <= p
<1>1. N \in Nat /\ DOMAIN freeList = 1 .. N
  BY DEF TypeOK
<1>2. PICK p0 \in DOMAIN freeList : freeList[p0] = k
  BY DEF Range
<1> HIDE DEF N
<1>3. N - p0 \in T /\ T \in SUBSET Nat
  BY <1>1, <1>2
<1>4. PICK n \in T : \A m \in T : n <= m
  <2> HIDE DEF T
  <2>1. QED
    BY <1>3, LeastNatural
<1>5. PICK p \in Places : n = N - p
  OBVIOUS
<1>6. \A q \in Places : q <= p
  <2> TAKE q \in Places
  <2>1. N - p <= N - q
    BY <1>4, <1>5
  <2>2. QED
    BY <1>1, <1>5, <2>1
<1>7. p \in DOMAIN freeList /\ Right(p)
  BY <1>1, <1>6
<1>8. ListPosition(k) = CHOOSE q \in DOMAIN freeList : Right(q)
  BY DEF ListPosition
<1>9. ListPosition(k) \in DOMAIN freeList /\ Right(ListPosition(k))
  <2> HIDE DEF Right
  <2>1. QED
    BY <1>7, <1>8, Zenon
<1>10. QED
  BY <1>1, <1>9 DEF N

\* removeNode takes one node off the list and leaves the others; a list without
\* repetitions stays without, and loses the key.
LEMMA RemoveNodeRemoves ==
  ASSUME TypeOK, NEW p \in 1 .. Len(freeList)
  PROVE  /\ RemoveNode(p) \in Seq(Keys)
         /\ Range(RemoveNode(p)) \subseteq Range(freeList)
         /\ Range(freeList) \ {freeList[p]} \subseteq Range(RemoveNode(p))
         /\ IsInjective(freeList) =>
               /\ IsInjective(RemoveNode(p))
               /\ Range(RemoveNode(p)) = Range(freeList) \ {freeList[p]}
<1> DEFINE N == Len(freeList)
           R == RemoveNode(p)
           Old(i) == IF i < p THEN i ELSE i + 1
<1>1. N \in Nat \ {0} /\ DOMAIN freeList = 1 .. N /\ \A i \in 1 .. N : freeList[i] \in Keys
  BY DEF TypeOK
<1>2. DOMAIN R = 1 .. N - 1 /\ \A i \in 1 .. N - 1 : R[i] = freeList[Old(i)]
  BY DEF RemoveNode
<1>3. \A i \in 1 .. N - 1 : Old(i) \in 1 .. N \ {p}
  BY <1>1
<1>4. \A i, j \in 1 .. N - 1 : Old(i) = Old(j) => i = j
  BY <1>1
<1>5. \A j \in 1 .. N \ {p} : \E i \in 1 .. N - 1 : Old(i) = j
  <2> TAKE j \in 1 .. N \ {p}
  <2>1. CASE j < p
    BY <1>1, <2>1
  <2>2. CASE j > p
    <3>1. j - 1 \in 1 .. N - 1 /\ Old(j - 1) = j
      BY <1>1, <2>2
    <3>2. QED
      BY <3>1
  <2>3. QED
    BY <1>1, <2>1, <2>2
<1>6. R \in Seq(Keys)
  BY <1>1 DEF RemoveNode
<1> HIDE DEF R, N, Old
<1>7. ASSUME IsInjective(freeList) PROVE IsInjective(R)
  BY <1>1, <1>2, <1>3, <1>4, <1>7 DEF IsInjective
<1>8. ASSUME NEW x \in Range(R)
      PROVE  x \in Range(freeList) /\ (IsInjective(freeList) => x # freeList[p])
  <2>1. PICK i \in 1 .. N - 1 : R[i] = x
    BY <1>2 DEF Range
  <2>2. Old(i) \in 1 .. N \ {p} /\ freeList[Old(i)] = x
    BY <1>2, <1>3, <2>1
  <2>3. IsInjective(freeList) => x # freeList[p]
    BY <1>1, <2>2 DEF IsInjective, N
  <2>4. QED
    BY <1>1, <2>2, <2>3 DEF Range
<1>9. ASSUME NEW x \in Range(freeList) \ {freeList[p]}
      PROVE  x \in Range(R)
  <2>1. PICK j \in 1 .. N : freeList[j] = x
    BY <1>1 DEF Range
  <2>2. j # p
    BY <2>1
  <2>3. PICK i \in 1 .. N - 1 : Old(i) = j
    BY <1>5, <2>1, <2>2
  <2>4. R[i] = x
    BY <1>2, <2>1, <2>3
  <2>5. QED
    BY <1>2, <2>4 DEF Range
<1>10. QED
  BY <1>6, <1>7, <1>8, <1>9 DEF R

\* Appending something new keeps a sequence free of repetitions.
LEMMA InjectiveAppend ==
  ASSUME NEW S, NEW q \in Seq(S), NEW e \in S
  PROVE  /\ Append(q, e) \in Seq(S)
         /\ Range(Append(q, e)) = Range(q) \cup {e}
         /\ IsInjective(q) /\ e \notin Range(q) => IsInjective(Append(q, e))
<1> DEFINE N == Len(q)
           a == Append(q, e)
<1>1. N \in Nat /\ DOMAIN q = 1 .. N
  OBVIOUS
<1>2. a \in Seq(S) /\ DOMAIN a = 1 .. N + 1 /\ a[N + 1] = e /\ \A i \in 1 .. N : a[i] = q[i]
  OBVIOUS
<1> HIDE DEF a, N
<1>3. ASSUME NEW x
      PROVE  x \in Range(a) <=> x \in Range(q) \cup {e}
  <2>1. ASSUME x \in Range(a) PROVE x \in Range(q) \cup {e}
    <3>1. PICK i \in 1 .. N + 1 : a[i] = x
      BY <1>2, <2>1 DEF Range
    <3>2. CASE i = N + 1
      BY <1>2, <3>1, <3>2
    <3>3. CASE i \in 1 .. N
      <4>1. q[i] = x /\ i \in DOMAIN q
        BY <1>1, <1>2, <3>1, <3>3
      <4>2. QED
        BY <4>1 DEF Range
    <3>4. QED
      BY <1>1, <3>2, <3>3
  <2>2. ASSUME x = e PROVE x \in Range(a)
    <3>1. N + 1 \in DOMAIN a /\ a[N + 1] = x
      BY <1>1, <1>2, <2>2
    <3>2. QED
      BY <3>1 DEF Range
  <2>3. ASSUME x \in Range(q) PROVE x \in Range(a)
    <3>1. PICK i \in 1 .. N : q[i] = x
      BY <1>1, <2>3 DEF Range
    <3>2. i \in DOMAIN a /\ a[i] = x
      BY <1>1, <1>2, <3>1
    <3>3. QED
      BY <3>2 DEF Range
  <2>4. QED
    BY <2>1, <2>2, <2>3
<1>4. ASSUME IsInjective(q), e \notin Range(q)
      PROVE  IsInjective(a)
  <2>1. \A i \in 1 .. N : q[i] # e
    BY <1>1, <1>4 DEF Range
  <2>2. \A i, j \in 1 .. N : q[i] = q[j] => i = j
    BY <1>1, <1>4 DEF IsInjective
  <2>3. \A i \in 1 .. N + 1 : i = N + 1 \/ i \in 1 .. N
    BY <1>1
  <2>4. \A i, j \in 1 .. N + 1 : a[i] = a[j] => i = j
    BY <1>2, <2>1, <2>2, <2>3
  <2>5. QED
    BY <1>2, <2>4 DEF IsInjective
<1>5. QED
  BY <1>2, <1>3, <1>4 DEF a

\* Popping the first n keys leaves the others, and nothing of those that were popped
\* unless one of them is in the list a second time.
LEMMA PopLeaves ==
  ASSUME NEW S, NEW q \in Seq(S), NEW n \in 0 .. Len(q)
  PROVE  /\ SubSeq(q, n + 1, Len(q)) \in Seq(S)
         /\ IsInjective(q) => IsInjective(SubSeq(q, n + 1, Len(q)))
         /\ (\A i \in 1 .. n : \A j \in DOMAIN q \ {i} : q[j] # q[i]) =>
               Range(SubSeq(q, n + 1, Len(q))) = Range(q) \ {q[i] : i \in 1 .. n}
<1> DEFINE N == Len(q)
           r == SubSeq(q, n + 1, N)
<1>1. N \in Nat /\ DOMAIN q = 1 .. N
  OBVIOUS
<1>2. r \in Seq(S) /\ Len(r) = N - n
  OBVIOUS
<1>3. DOMAIN r = 1 .. N - n /\ \A i \in 1 .. N - n : r[i] = q[n + i]
  <2>1. \A i \in 1 .. Len(r) : r[i] = q[(n + 1) + i - 1]
    OBVIOUS
  <2>2. \A i \in 1 .. N - n : (n + 1) + i - 1 = n + i
    BY <1>1
  <2> HIDE DEF r, N
  <2>3. QED
    BY <1>2, <2>1, <2>2
<1> HIDE DEF r, N
<1>4. n \in 0 .. N
  BY DEF N
<1>5. ASSUME IsInjective(q) PROVE IsInjective(r)
  <2>1. \A i \in 1 .. N - n : n + i \in 1 .. N
    BY <1>1, <1>4
  <2>2. \A i, j \in 1 .. N - n : r[i] = r[j] => n + i = n + j
    BY <1>1, <1>3, <1>5, <2>1 DEF IsInjective
  <2>3. \A i, j \in 1 .. N - n : r[i] = r[j] => i = j
    BY <1>1, <1>4, <2>2
  <2>4. QED
    BY <1>3, <2>3 DEF IsInjective
<1>6. ASSUME \A i \in 1 .. n : \A j \in DOMAIN q \ {i} : q[j] # q[i], NEW x
      PROVE  x \in Range(r) <=> x \in Range(q) \ {q[i] : i \in 1 .. n}
  <2>1. ASSUME x \in Range(r) PROVE x \in Range(q) /\ \A i \in 1 .. n : q[i] # x
    <3>1. PICK j \in 1 .. N - n : r[j] = x
      BY <1>3, <2>1 DEF Range
    <3>2. n + j \in DOMAIN q /\ q[n + j] = x
      BY <1>1, <1>3, <1>4, <3>1
    <3>3. \A i \in 1 .. n : n + j \in DOMAIN q \ {i}
      BY <1>1, <1>4, <3>2
    <3>4. QED
      BY <1>6, <3>2, <3>3 DEF Range
  <2>2. ASSUME x \in Range(q), \A i \in 1 .. n : q[i] # x PROVE x \in Range(r)
    <3>1. PICK j \in 1 .. N : q[j] = x
      BY <1>1, <2>2 DEF Range
    <3>2. j - n \in 1 .. N - n /\ n + (j - n) = j
      BY <1>1, <1>4, <2>2, <3>1
    <3>3. j - n \in DOMAIN r /\ r[j - n] = x
      BY <1>3, <3>1, <3>2
    <3>4. QED
      BY <3>3 DEF Range
  <2>3. QED
    BY <2>1, <2>2
<1>7. QED
  BY <1>2, <1>5, <1>6 DEF r, N

\* In a queue without repetitions a callback has one place, and elsewhere none.
LEMMA PlacesInQueue ==
  ASSUME NEW q \in Seq(Callbacks), NEW c
  PROVE  /\ Cardinality({i \in DOMAIN q : q[i] = c}) \in Nat
         /\ c \notin Range(q) => Cardinality({i \in DOMAIN q : q[i] = c}) = 0
         /\ IsInjective(q) /\ c \in Range(q) => Cardinality({i \in DOMAIN q : q[i] = c}) = 1
<1> DEFINE I == {i \in DOMAIN q : q[i] = c}
<1>1. Cardinality(I) \in Nat
  <2>1. IsFiniteSet(1 .. Len(q))
    BY FS_Interval
  <2>2. I \subseteq 1 .. Len(q)
    OBVIOUS
  <2>3. QED
    BY <2>1, <2>2, FS_Subset, FS_CardinalityType
<1>2. ASSUME c \notin Range(q) PROVE Cardinality(I) = 0
  <2>1. I = {}
    BY <1>2 DEF Range
  <2>2. QED
    BY <2>1, FS_EmptySet
<1>3. ASSUME IsInjective(q), c \in Range(q) PROVE Cardinality(I) = 1
  <2>1. PICK i \in DOMAIN q : q[i] = c
    BY <1>3 DEF Range
  <2>2. I = {i}
    BY <1>3, <2>1 DEF IsInjective
  <2>3. QED
    BY <2>2, FS_Singleton
<1>4. QED
  BY <1>1, <1>2, <1>3

(***************************************************************************)
(* The operations in one form: what each changes                           *)
(***************************************************************************)

\* What is true of an entry that is present.
LEMMA EntryFacts ==
  ASSUME TypeOK, NEW k \in Present
  PROVE  /\ k \in Keys
         /\ cacheMap[k] \in Entry
         /\ cacheMap[k].refCount \in Nat
         /\ cacheMap[k].size \in Nat
         /\ cacheMap[k].isReserved \in BOOLEAN
         /\ cacheMap[k].freeListRef \in BOOLEAN
         /\ cacheMap[k].queue \in Seq(Callbacks)
BY DEF TypeOK, Present, Entry

\* An entry's record is replaced and nothing else of the map changes.
Changed(k, entry) ==
    /\ k \in Present
    /\ entry \in Entry
    /\ Present' = Present
    /\ cacheMap'[k] = entry
    /\ \A x \in Present \ {k} : cacheMap'[x] = cacheMap[x]

LEMMA ChangedIsTyped ==
  ASSUME TypeOK, NEW k, NEW entry, Changed(k, entry)
  PROVE  DOMAIN cacheMap' \subseteq Keys /\ \A x \in DOMAIN cacheMap' : cacheMap'[x] \in Entry
BY EntryFacts DEF Changed, Present

\* put and reserve of an absent key: whoever made the entry holds its reference.
Inserted(k, entry) ==
    /\ k \notin Present
    /\ entry \in Entry /\ entry.refCount = 1 /\ ~entry.freeListRef /\ entry.queue = <<>>
    /\ Present' = Present \cup {k}
    /\ cacheMap'[k] = entry
    /\ \A x \in Present : cacheMap'[x] = cacheMap[x]
    /\ holds' = [holds EXCEPT ![k] = 1]
    /\ currentSize' \in 0 .. SizeMod - 1
    /\ UNCHANGED <<freeList, waiting, called, filledSlot, misuses, broken>>

LEMMA PutNewInserts ==
  ASSUME TypeOK, NEW k \in Keys, NEW size \in Sizes, putNew(k, size)
  PROVE  Inserted(k, FilledEntry(size))
<1>1. FilledEntry(size) \in Entry
  BY SizesAssumption DEF FilledEntry, Entry
<1>2. currentSize' \in 0 .. SizeMod - 1
  BY SizesAssumption, QuotaAssumption DEF putNew, TypeOK
<1>3. QED
  BY <1>1, <1>2 DEF putNew, FilledEntry, Inserted, Insert, Present

LEMMA ReserveNewInserts ==
  ASSUME TypeOK, NEW k \in Keys, reserveNew(k)
  PROVE  Inserted(k, ReservedEntry)
<1>1. ReservedEntry \in Entry
  BY DEF ReservedEntry, Entry
<1>2. currentSize' \in 0 .. SizeMod - 1
  BY DEF reserveNew, TypeOK
<1>3. QED
  BY <1>1, <1>2 DEF reserveNew, ReservedEntry, Inserted, Insert, Present

\* put and cancelReservation of a reserved key: the queue is called, and put hands out
\* w references.
Answered(k, w, entry) ==
    /\ k \in Reserved
    /\ w \in Nat
    /\ Changed(k, entry)
    /\ entry.refCount = cacheMap[k].refCount + w
    /\ entry.freeListRef = cacheMap[k].freeListRef
    /\ ~entry.isReserved
    /\ holds' = [holds EXCEPT ![k] = @ + w]
    /\ CallQueue(k)
    /\ filledSlot' \in BOOLEAN
    /\ UNCHANGED <<freeList, currentSize, misuses>>

LEMMA PutReservedAnswers ==
  ASSUME TypeOK, NEW k \in Keys, NEW size \in Sizes, putReserved(k, size)
  PROVE  \E w, entry : Answered(k, w, entry)
<1> DEFINE w == Len(cacheMap[k].queue)
           entry == [cacheMap[k] EXCEPT !.hasData = TRUE, !.size = size,
                                        !.refCount = @ + w, !.isReserved = FALSE]
<1>1. k \in Present /\ cacheMap[k].isReserved
  BY DEF putReserved
<1>2. w \in Nat /\ cacheMap[k] \in Entry /\ size \in Nat
  BY <1>1, EntryFacts, SizesAssumption
<1>3. entry \in Entry
  <2>1. cacheMap[k].refCount + w \in Nat
    BY <1>2 DEF Entry
  <2> HIDE DEF w
  <2>2. QED
    BY <1>2, <2>1 DEF Entry
<1>4. /\ entry.refCount = cacheMap[k].refCount + w
      /\ entry.freeListRef = cacheMap[k].freeListRef
      /\ ~entry.isReserved
  BY <1>2 DEF Entry
<1>5. Changed(k, entry)
  BY <1>1, <1>3 DEF putReserved, Changed, Present
<1>6. /\ holds' = [holds EXCEPT ![k] = @ + w]
      /\ CallQueue(k)
      /\ filledSlot' = TRUE
      /\ UNCHANGED <<freeList, currentSize, misuses>>
  BY DEF putReserved
<1>7. k \in Reserved
  BY <1>1 DEF Reserved
<1> HIDE DEF w, entry
<1>8. QED
  BY <1>2, <1>4, <1>5, <1>6, <1>7 DEF Answered

LEMMA CancelReservationAnswers ==
  ASSUME TypeOK, NEW k \in Keys, cancelReservation(k)
  PROVE  \E w, entry : Answered(k, w, entry)
<1> DEFINE entry == [cacheMap[k] EXCEPT !.isReserved = FALSE]
<1>1. k \in Present /\ cacheMap[k].isReserved
  BY DEF cancelReservation
<1>2. cacheMap[k] \in Entry /\ cacheMap[k].refCount \in Nat
  BY <1>1, EntryFacts
<1>3. entry \in Entry
  BY <1>2 DEF Entry
<1>4. /\ entry.refCount = cacheMap[k].refCount + 0
      /\ entry.freeListRef = cacheMap[k].freeListRef
      /\ ~entry.isReserved
  BY <1>2 DEF Entry
<1>5. Changed(k, entry)
  BY <1>1, <1>3 DEF cancelReservation, Changed, Present
<1>6. holds' = [holds EXCEPT ![k] = @ + 0]
  <2>1. holds' = holds /\ holds \in [Keys -> Nat]
    BY DEF cancelReservation, TypeOK
  <2>2. QED
    BY <2>1
<1>7. filledSlot' \in BOOLEAN /\ CallQueue(k) /\ UNCHANGED <<freeList, currentSize, misuses>>
  BY DEF cancelReservation, TypeOK
<1>8. k \in Reserved
  BY <1>1 DEF Reserved
<1> HIDE DEF entry
<1>9. QED
  BY <1>4, <1>5, <1>6, <1>7, <1>8 DEF Answered

\* get of a reserved key: a callback comes last in its queue.
Queued(k, c, entry) ==
    /\ k \in Reserved /\ c \notin waiting
    /\ Changed(k, entry)
    /\ entry.queue = Append(QueueOf(k), c)
    /\ entry.refCount = cacheMap[k].refCount
    /\ entry.isReserved = cacheMap[k].isReserved
    /\ entry.freeListRef = cacheMap[k].freeListRef
    /\ waiting' = waiting \cup {c}
    /\ called' = [called EXCEPT ![c] = 0]
    /\ UNCHANGED <<freeList, currentSize, holds, filledSlot, misuses, broken>>

LEMMA GetReservedQueues ==
  ASSUME TypeOK, NEW k \in Keys, NEW c \in Callbacks, getReserved(k, c)
  PROVE  \E entry : Queued(k, c, entry)
<1> DEFINE q == QueueOf(k)
           entry == [cacheMap[k] EXCEPT !.queue = Append(q, c)]
<1>1. k \in Present /\ cacheMap[k].isReserved /\ c \notin waiting
  BY DEF getReserved
<1>2. cacheMap[k] \in Entry /\ q \in Seq(Callbacks)
  BY <1>1, EntryFacts DEF QueueOf
<1>3. Append(q, c) \in Seq(Callbacks)
  BY <1>2
<1>4. /\ entry \in Entry
      /\ entry.queue = Append(q, c)
      /\ entry.refCount = cacheMap[k].refCount
      /\ entry.isReserved = cacheMap[k].isReserved
      /\ entry.freeListRef = cacheMap[k].freeListRef
  <2> HIDE DEF q
  <2>1. QED
    BY <1>2, <1>3 DEF Entry
<1>5. Changed(k, entry)
  BY <1>1, <1>4 DEF getReserved, Changed, Present, QueueOf
<1>6. /\ waiting' = waiting \cup {c}
      /\ called' = [called EXCEPT ![c] = 0]
      /\ UNCHANGED <<freeList, currentSize, holds, filledSlot, misuses, broken>>
  BY DEF getReserved
<1>7. k \in Reserved
  BY <1>1 DEF Reserved
<1> HIDE DEF entry
<1>8. QED
  BY <1>1, <1>4, <1>5, <1>6, <1>7 DEF Queued

\* get of an occupied key: the entry leaves the free list if it was there.
Taken(k, entry) ==
    /\ ~cacheMap[k].isReserved
    /\ Changed(k, entry)
    /\ entry.refCount = cacheMap[k].refCount + 1
    /\ ~entry.isReserved /\ ~entry.freeListRef
    /\ freeList' = IF cacheMap[k].freeListRef THEN RemoveNode(ListPosition(k)) ELSE freeList
    /\ holds' = [holds EXCEPT ![k] = @ + 1]
    /\ UNCHANGED <<currentSize, waiting, called, filledSlot, misuses, broken>>

LEMMA GetOccupiedTakes ==
  ASSUME TypeOK, NEW k \in Keys, getOccupied(k)
  PROVE  \E entry : Taken(k, entry)
<1> DEFINE entry == [cacheMap[k] EXCEPT !.refCount = @ + 1, !.freeListRef = FALSE]
<1>1. k \in Present /\ ~cacheMap[k].isReserved
  BY DEF getOccupied
<1>2. cacheMap[k] \in Entry /\ cacheMap[k].refCount \in Nat
  BY <1>1, EntryFacts
<1>3. /\ entry \in Entry
      /\ entry.refCount = cacheMap[k].refCount + 1
      /\ ~entry.isReserved /\ ~entry.freeListRef
  <2>1. cacheMap[k].refCount + 1 \in Nat
    BY <1>2
  <2>2. QED
    BY <1>1, <1>2, <2>1 DEF Entry
<1>4. Changed(k, entry)
  BY <1>1, <1>3 DEF getOccupied, Changed, Present
<1>5. /\ freeList' = IF cacheMap[k].freeListRef THEN RemoveNode(ListPosition(k)) ELSE freeList
      /\ holds' = [holds EXCEPT ![k] = @ + 1]
      /\ UNCHANGED <<currentSize, waiting, called, filledSlot, misuses, broken>>
  BY DEF getOccupied
<1> HIDE DEF entry
<1>6. QED
  BY <1>1, <1>3, <1>4, <1>5 DEF Taken

\* doneWith: the entry is released, and cleanup pops n keys of the list, which may
\* now end with this one.
Released(k, list, n, released) ==
    /\ k \in Present /\ (~cacheMap[k].isReserved \/ ~ProperUse) /\ holds[k] > 0
    /\ cacheMap[k].refCount \in Nat /\ cacheMap[k].refCount = holds[k]
    /\ list = IF cacheMap[k].refCount = 1 THEN Append(freeList, k) ELSE freeList
    /\ list \in Seq(Keys)
    /\ Range(list) = IF cacheMap[k].refCount = 1 THEN Range(freeList) \cup {k} ELSE Range(freeList)
    /\ Range(list) \subseteq Present
    /\ n \in 0 .. Len(list)
    /\ released[k] \in Entry
    /\ released[k].refCount = cacheMap[k].refCount - 1
    /\ released[k].isReserved = cacheMap[k].isReserved
    /\ released[k].freeListRef = (cacheMap[k].freeListRef \/ cacheMap[k].refCount = 1)
    /\ released[k].queue = cacheMap[k].queue
    /\ \A x \in Present \ {k} : released[x] = cacheMap[x]
    /\ Present' = Present \ {list[i] : i \in 1 .. n}
    /\ \A x \in Present' : cacheMap'[x] = released[x]
    /\ freeList' = SubSeq(list, n + 1, Len(list))
    /\ currentSize' \in 0 .. SizeMod - 1
    /\ holds' = [holds EXCEPT ![k] = @ - 1]
    /\ broken' = CannotErase(list, n, [x \in Present |-> released[x].refCount])
    /\ UNCHANGED <<waiting, called, filledSlot, misuses>>

LEMMA DoneWithReleases ==
  ASSUME TypeOK, Intact, NEW k \in Keys, doneWith(k)
  PROVE  \E list, n, released : Released(k, list, n, released)
<1> DEFINE last == cacheMap[k].refCount = 1
           list == IF last THEN Append(freeList, k) ELSE freeList
           n == IF currentSize > sizeQuota
                   THEN CleanupCount(list, currentSize - sizeQuota) ELSE 0
           released == [cacheMap EXCEPT ![k].refCount = @ - 1,
                                        ![k].freeListRef = @ \/ last]
<1>1. /\ k \in Present /\ (~cacheMap[k].isReserved \/ ~ProperUse) /\ holds[k] > 0
      /\ holds' = [holds EXCEPT ![k] = @ - 1]
      /\ UNCHANGED <<waiting, called, filledSlot, misuses>>
  BY DEF doneWith, ProperUse, TypeOK
<1>2. /\ cacheMap' = Restrict(released, Present \ {list[i] : i \in 1 .. n})
      /\ freeList' = SubSeq(list, n + 1, Len(list))
      /\ currentSize' = SizeAfterFreeing(SpaceFreed(list)[n])
      /\ broken' = CannotErase(list, n, [x \in Present |-> released[x].refCount])
  BY DEF doneWith
<1>3. cacheMap[k] \in Entry /\ cacheMap[k].refCount \in Nat /\ cacheMap[k].refCount = holds[k]
  BY <1>1, EntryFacts DEF Intact, CountersAreExact
<1>4. freeList \in Seq(Keys) /\ Range(freeList) \subseteq Present
  BY DEF TypeOK, Intact, ListLeadsToEntries
<1>5. /\ list \in Seq(Keys)
      /\ Range(list) = IF last THEN Range(freeList) \cup {k} ELSE Range(freeList)
  <2>1. CASE last
    <3>1. list = Append(freeList, k)
      BY <2>1
    <3>2. list \in Seq(Keys) /\ Range(list) = Range(freeList) \cup {k}
      BY <3>1, <1>4, InjectiveAppend
    <3>3. QED
      BY <2>1, <3>2
  <2>2. CASE ~last
    BY <1>4, <2>2
  <2>3. QED
    BY <2>1, <2>2
<1> HIDE DEF list, n
<1>7. Range(list) \subseteq Present
  BY <1>1, <1>4, <1>5
<1>8. \A i \in 1 .. Len(list) : cacheMap[list[i]].size \in Nat
  <2>1. \A i \in 1 .. Len(list) : list[i] \in Range(list)
    BY <1>5 DEF Range
  <2>2. QED
    BY <1>7, <2>1, EntryFacts
<1>9. currentSize \in Nat /\ sizeQuota \in Nat /\ SizeMod \in Nat \ {0}
  BY QuotaAssumption DEF TypeOK
<1>10. n \in 0 .. Len(list)
  <2>1. CASE currentSize > sizeQuota
    <3>1. currentSize - sizeQuota \in Nat
      BY <1>9, <2>1
    <3>2. QED
      BY <1>5, <1>8, <2>1, <3>1, CleanupCountExists DEF n
  <2>2. CASE ~(currentSize > sizeQuota)
    BY <1>5, <2>2 DEF n
  <2>3. QED
    BY <2>1, <2>2
<1>11. currentSize' \in 0 .. SizeMod - 1
  <2>1. SpaceFreed(list)[n] \in Nat
    BY <1>5, <1>8, <1>10, SpaceFreedIsSum DEF IsSum
  <2>2. currentSize' = (currentSize - SpaceFreed(list)[n]) % SizeMod
    BY <1>2 DEF SizeAfterFreeing
  <2>3. QED
    BY <1>9, <2>1, <2>2
<1>12. /\ released[k] \in Entry
       /\ released[k].refCount = cacheMap[k].refCount - 1
       /\ released[k].isReserved = cacheMap[k].isReserved
       /\ released[k].freeListRef = (cacheMap[k].freeListRef \/ last)
       /\ released[k].queue = cacheMap[k].queue
  <2>1. released[k] = [cacheMap[k] EXCEPT !.refCount = @ - 1, !.freeListRef = @ \/ last]
    BY <1>1 DEF Present
  <2>2. cacheMap[k].refCount - 1 \in Nat
    BY <1>1, <1>3
  <2>3. (cacheMap[k].freeListRef \/ last) \in BOOLEAN
    OBVIOUS
  <2> HIDE DEF last, released
  <2>4. QED
    BY <1>3, <2>1, <2>2, <2>3 DEF Entry
<1>13. DOMAIN released = Present /\ \A x \in Present \ {k} : released[x] = cacheMap[x]
  BY <1>1 DEF Present
<1> HIDE DEF released
<1>14. /\ Present' = Present \ {list[i] : i \in 1 .. n}
       /\ \A x \in Present' : cacheMap'[x] = released[x]
  BY <1>2 DEF Restrict, Present
<1>15. list = IF last THEN Append(freeList, k) ELSE freeList
  BY DEF list
<1>16. Released(k, list, n, released)
  BY <1>1, <1>2, <1>3, <1>5, <1>7, <1>10, <1>11, <1>12, <1>13, <1>14, <1>15 DEF Released
<1>17. QED
  BY <1>16

(***************************************************************************)
(* Whatever clients do: types, counters, and where the list leads          *)
(***************************************************************************)

LEMMA InsertKeeps ==
  ASSUME TypeOK, Intact, NEW k \in Keys, NEW entry, Inserted(k, entry)
  PROVE  TypeOK' /\ Intact'
<1>1. TypeOK'
  <2>1. holds' \in [Keys -> Nat]
    BY DEF TypeOK, Inserted
  <2>2. \A x \in Present' : x \in Keys /\ cacheMap'[x] \in Entry
    BY EntryFacts DEF Inserted
  <2>3. QED
    BY <2>1, <2>2 DEF TypeOK, Present, Inserted
<1>2. CountersAreExact'
  <2>1. \A x \in Keys : holds'[x] = IF x = k THEN 1 ELSE holds[x]
    BY DEF TypeOK, Inserted
  <2>2. QED
    BY <2>1 DEF Intact, CountersAreExact, Inserted
<1>3. ListLeadsToEntries'
  BY DEF Intact, ListLeadsToEntries, Inserted
<1>4. CalledAtMostOnce'
  BY DEF Intact, CalledAtMostOnce, Inserted
<1>5. QED
  BY <1>1, <1>2, <1>3, <1>4 DEF Intact

\* As long as no callback is called that has been deleted, those that are called
\* were waiting, and are called for the first time.
LEMMA AnswerKeeps ==
  ASSUME TypeOK, Intact, NEW k, NEW w, NEW entry, Answered(k, w, entry)
  PROVE  TypeOK' /\ (~broken' => Intact')
<1> DEFINE q == QueueOf(k)
           Calls(c) == Cardinality({i \in DOMAIN q : q[i] = c})
<1>1. k \in Present /\ k \in Keys /\ q \in Seq(Callbacks)
  BY EntryFacts DEF Answered, Reserved, QueueOf
<1>2. /\ called' = [c \in Callbacks |-> called[c] + Calls(c)]
      /\ waiting' = waiting \ Range(q)
      /\ broken' = \E c \in Callbacks : Calls(c) > IF c \in waiting THEN 1 ELSE 0
  BY DEF Answered, CallQueue, QueueOf
<1>3. \A c : Calls(c) \in Nat /\ (c \notin Range(q) => Calls(c) = 0)
  BY <1>1, PlacesInQueue
<1>4. \A c \in Callbacks : called[c] \in Nat
  BY DEF TypeOK
<1> HIDE DEF Calls, q
<1>5. TypeOK'
  <2>1. called' \in [Callbacks -> Nat]
    BY <1>2, <1>3, <1>4
  <2>2. broken' \in BOOLEAN /\ waiting' \in SUBSET Callbacks
    BY <1>2 DEF TypeOK
  <2>3. holds' \in [Keys -> Nat]
    BY <1>1 DEF TypeOK, Answered
  <2>4. DOMAIN cacheMap' \subseteq Keys /\ \A x \in DOMAIN cacheMap' : cacheMap'[x] \in Entry
    BY ChangedIsTyped DEF Answered
  <2>5. QED
    BY <2>1, <2>2, <2>3, <2>4 DEF TypeOK, Answered
<1>6. CountersAreExact'
  <2>1. \A x \in Keys : holds'[x] = IF x = k THEN holds[k] + w ELSE holds[x]
    BY DEF TypeOK, Answered
  <2>2. QED
    BY <1>1, <2>1 DEF Intact, CountersAreExact, Changed, Answered
<1>7. ListLeadsToEntries'
  BY DEF Intact, ListLeadsToEntries, Changed, Answered
<1>8. ASSUME ~broken' PROVE CalledAtMostOnce'
  <2>1. ASSUME NEW c \in Callbacks
        PROVE  /\ called'[c] <= 1
               /\ c \in waiting' => called'[c] = 0
    <3>1. called'[c] = called[c] + Calls(c)
      BY <1>2
    <3>2. ~(Calls(c) > IF c \in waiting THEN 1 ELSE 0)
      BY <1>2, <1>8
    <3>3. /\ called[c] <= 1
          /\ c \in waiting => called[c] = 0
          /\ c \in waiting' => c \in waiting /\ Calls(c) = 0
      BY <1>2, <1>3 DEF Intact, CalledAtMostOnce
    <3>4. QED
      BY <1>3, <1>4, <3>1, <3>2, <3>3
  <2>2. waiting' \subseteq Callbacks
    BY <1>2 DEF TypeOK
  <2>3. QED
    BY <2>1, <2>2 DEF CalledAtMostOnce
<1>9. QED
  BY <1>5, <1>6, <1>7, <1>8 DEF Intact

LEMMA QueueKeeps ==
  ASSUME TypeOK, Intact, NEW k \in Keys, NEW c \in Callbacks, NEW entry, Queued(k, c, entry)
  PROVE  TypeOK' /\ Intact'
<1>1. TypeOK'
  <2>1. called' \in [Callbacks -> Nat] /\ waiting' \in SUBSET Callbacks
    BY DEF TypeOK, Queued
  <2>2. DOMAIN cacheMap' \subseteq Keys /\ \A x \in DOMAIN cacheMap' : cacheMap'[x] \in Entry
    BY ChangedIsTyped DEF Queued
  <2>3. QED
    BY <2>1, <2>2 DEF TypeOK, Queued
<1>2. CountersAreExact' /\ ListLeadsToEntries'
  BY DEF Intact, CountersAreExact, ListLeadsToEntries, Changed, Queued
<1>3. CalledAtMostOnce'
  <2>1. \A y \in Callbacks : called'[y] = IF y = c THEN 0 ELSE called[y]
    BY DEF TypeOK, Queued
  <2>2. QED
    BY <2>1 DEF Intact, CalledAtMostOnce, Queued, TypeOK
<1>4. QED
  BY <1>1, <1>2, <1>3 DEF Intact

LEMMA TakeKeeps ==
  ASSUME TypeOK, Intact, NEW k \in Keys, NEW entry, Taken(k, entry)
  PROVE  TypeOK' /\ Intact'
<1>1. k \in Present
  BY DEF Taken, Changed
<1>2. /\ freeList' \in Seq(Keys)
      /\ Range(freeList') \subseteq Range(freeList)
      /\ Range(freeList) \ {k} \subseteq Range(freeList')
  <2>1. CASE cacheMap[k].freeListRef
    <3>1. k \in Range(freeList)
      BY <1>1, <2>1 DEF Intact, ListLeadsToEntries
    <3>2. ListPosition(k) \in 1 .. Len(freeList) /\ freeList[ListPosition(k)] = k
      BY <3>1, ListPositionIs
    <3>3. QED
      BY <2>1, <3>2, RemoveNodeRemoves DEF Taken
  <2>2. CASE ~cacheMap[k].freeListRef
    BY <2>2 DEF Taken, TypeOK
  <2>3. QED
    BY <2>1, <2>2
<1>3. TypeOK'
  <2>1. holds' \in [Keys -> Nat]
    BY DEF TypeOK, Taken
  <2>2. DOMAIN cacheMap' \subseteq Keys /\ \A x \in DOMAIN cacheMap' : cacheMap'[x] \in Entry
    BY ChangedIsTyped DEF Taken
  <2>3. QED
    BY <1>2, <2>1, <2>2 DEF TypeOK, Taken
<1>4. CountersAreExact'
  <2>1. \A x \in Keys : holds'[x] = IF x = k THEN holds[k] + 1 ELSE holds[x]
    BY DEF TypeOK, Taken
  <2>2. QED
    BY <1>1, <2>1 DEF Intact, CountersAreExact, Changed, Taken
<1>5. ListLeadsToEntries'
  BY <1>2 DEF Intact, ListLeadsToEntries, Changed, Taken
<1>6. CalledAtMostOnce'
  BY DEF Intact, CalledAtMostOnce, Taken
<1>7. QED
  BY <1>3, <1>4, <1>5, <1>6 DEF Intact

\* What cleanup may erase: unreferenced entries that are in the list once.
LEMMA ErasedAreFree ==
  ASSUME TypeOK, NEW k, NEW list, NEW n, NEW released, Released(k, list, n, released), ~broken'
  PROVE  /\ Range(freeList') = Range(list) \ {list[i] : i \in 1 .. n}
         /\ \A i \in 1 .. n : list[i] \in Present /\ released[list[i]].refCount = 0
<1>1. list \in Seq(Keys) /\ n \in 0 .. Len(list) /\ freeList' = SubSeq(list, n + 1, Len(list))
  BY DEF Released
<1>2. \A i \in 1 .. n : list[i] \in Present
  <2>1. \A i \in 1 .. n : i \in DOMAIN list
    BY <1>1
  <2>2. QED
    BY <2>1 DEF Released, Range
<1>3. /\ \A i \in 1 .. n : [x \in Present |-> released[x].refCount][list[i]] = 0
      /\ \A i \in 1 .. n : \A j \in DOMAIN list \ {i} : list[j] # list[i]
  BY DEF Released, CannotErase
<1>4. \A i \in 1 .. n : released[list[i]].refCount = 0
  BY <1>2, <1>3
<1>5. Range(freeList') = Range(list) \ {list[i] : i \in 1 .. n}
  <2>1. \A i \in 1 .. n : \A j \in DOMAIN list \ {i} : list[j] # list[i]
    BY <1>3
  <2>2. (\A i \in 1 .. n : \A j \in DOMAIN list \ {i} : list[j] # list[i]) =>
           Range(SubSeq(list, n + 1, Len(list))) = Range(list) \ {list[i] : i \in 1 .. n}
    BY <1>1, PopLeaves
  <2>3. QED
    BY <1>1, <2>1, <2>2
<1>6. QED
  BY <1>2, <1>4, <1>5

LEMMA ReleaseKeeps ==
  ASSUME TypeOK, Intact, NEW k \in Keys, NEW list, NEW n, NEW released,
         Released(k, list, n, released)
  PROVE  TypeOK' /\ (~broken' => Intact')
<1>1. TypeOK'
  <2>1. holds' \in [Keys -> Nat]
    <3>1. holds \in [Keys -> Nat] /\ holds[k] - 1 \in Nat
      BY DEF TypeOK, Released
    <3>2. QED
      BY <3>1 DEF Released
  <2>2. \A x \in Present' : x \in Keys /\ cacheMap'[x] \in Entry
    BY EntryFacts DEF Released
  <2>3. freeList' \in Seq(Keys)
    BY PopLeaves DEF Released
  <2>4. broken' \in BOOLEAN
    BY DEF Released, CannotErase
  <2>5. QED
    BY <2>1, <2>2, <2>3, <2>4 DEF TypeOK, Present, Released
<1>2. ASSUME ~broken' PROVE Intact'
  <2>1. /\ Range(freeList') = Range(list) \ {list[i] : i \in 1 .. n}
        /\ \A i \in 1 .. n : list[i] \in Present /\ released[list[i]].refCount = 0
    BY <1>2, ErasedAreFree
  <2>2. CountersAreExact'
    <3>1. \A x \in Keys : holds'[x] = IF x = k THEN holds[k] - 1 ELSE holds[x]
      BY DEF TypeOK, Released
    <3>2. \A x \in Present : holds'[x] = released[x].refCount
      BY <3>1, EntryFacts DEF Intact, CountersAreExact, Released
    <3>3. \A x \in Keys \ Present : holds'[x] = 0
      BY <3>1 DEF Intact, CountersAreExact, Released
    <3>4. \A x \in Keys : x \in Present' => holds'[x] = cacheMap'[x].refCount
      BY <3>2 DEF Released
    <3>5. ASSUME NEW x \in Keys, x \notin Present' PROVE holds'[x] = 0
      <4>1. CASE x \notin Present
        BY <3>3, <4>1
      <4>2. CASE x \in Present
        <5>1. x \in {list[i] : i \in 1 .. n}
          BY <3>5, <4>2 DEF Released
        <5>2. PICK i \in 1 .. n : x = list[i]
          BY <5>1
        <5>3. released[x].refCount = 0
          BY <2>1, <5>2
        <5>4. QED
          BY <3>2, <4>2, <5>3
      <4>3. QED
        BY <4>1, <4>2
    <3>6. QED
      BY <3>4, <3>5 DEF CountersAreExact
  <2>3. ListLeadsToEntries'
    <3>1. Range(freeList') \subseteq Present'
      BY <2>1 DEF Released
    <3>2. ASSUME NEW x \in Present', cacheMap'[x].freeListRef
          PROVE  x \in Range(list)
      <4>1. x \in Present /\ cacheMap'[x] = released[x]
        BY DEF Released
      <4>2. CASE x = k
        <5>1. cacheMap[k].freeListRef \/ cacheMap[k].refCount = 1
          BY <3>2, <4>1, <4>2 DEF Released
        <5>2. QED
          BY <4>1, <4>2, <5>1 DEF Intact, ListLeadsToEntries, Released
      <4>3. CASE x # k
        BY <3>2, <4>1, <4>3 DEF Intact, ListLeadsToEntries, Released
      <4>4. QED
        BY <4>2, <4>3
    <3>3. QED
      BY <2>1, <3>1, <3>2 DEF ListLeadsToEntries, Released
  <2>4. CalledAtMostOnce'
    BY DEF Intact, CalledAtMostOnce, Released
  <2>5. QED
    BY <2>2, <2>3, <2>4 DEF Intact
<1>3. QED
  BY <1>1, <1>2

LEMMA ReserveOccupiedKeeps ==
  ASSUME TypeOK, Intact, NEW k \in Keys, reserveOccupied(k)
  PROVE  TypeOK' /\ Intact'
<1> DEFINE entry == [cacheMap[k] EXCEPT !.isReserved = TRUE]
<1>1. k \in Present /\ cacheMap[k] \in Entry
  BY EntryFacts DEF reserveOccupied
<1>2. /\ entry \in Entry
      /\ entry.refCount = cacheMap[k].refCount
      /\ entry.freeListRef = cacheMap[k].freeListRef
  BY <1>1 DEF Entry
<1>3. Changed(k, entry)
  BY <1>1, <1>2 DEF reserveOccupied, Changed, Present
<1> HIDE DEF entry
<1>4. /\ misuses < MaxMisuses /\ misuses' = misuses + 1
      /\ UNCHANGED <<freeList, currentSize, holds, waiting, called, filledSlot, broken>>
  BY DEF reserveOccupied
<1>5. TypeOK'
  <2>1. misuses' \in 0 .. MaxMisuses
    BY <1>4, MaxMisusesAssumption DEF TypeOK
  <2>2. DOMAIN cacheMap' \subseteq Keys /\ \A x \in DOMAIN cacheMap' : cacheMap'[x] \in Entry
    BY <1>3, ChangedIsTyped
  <2>3. QED
    BY <1>4, <2>1, <2>2 DEF TypeOK
<1>6. Intact'
  BY <1>2, <1>3, <1>4
  DEF Intact, CountersAreExact, ListLeadsToEntries, CalledAtMostOnce, Changed
<1>7. QED
  BY <1>5, <1>6

LEMMA DestroyKeeps ==
  ASSUME TypeOK, Intact, destroy
  PROVE  TypeOK' /\ Intact'
<1>1. Present' = {} /\ freeList' = <<>> /\ waiting' = {} /\ called' = called
  BY DEF destroy, Present
<1>2. TypeOK'
  <2>1. freeList' \in Seq(Keys) /\ currentSize' \in 0 .. SizeMod - 1
    BY <1>1, QuotaAssumption DEF destroy
  <2>2. misuses' \in 0 .. MaxMisuses
    BY MaxMisusesAssumption DEF destroy
  <2>3. holds' \in [Keys -> Nat] /\ called' \in [Callbacks -> Nat] /\ broken' \in BOOLEAN
    BY <1>1 DEF destroy, TypeOK
  <2>4. QED
    BY <1>1, <2>1, <2>2, <2>3 DEF destroy, TypeOK, Present
<1>3. Intact'
  BY <1>1 DEF destroy, Intact, CountersAreExact, ListLeadsToEntries, CalledAtMostOnce, Range
<1>4. QED
  BY <1>2, <1>3

(***************************************************************************)
(* As long as no occupied key is reserved                                  *)
(***************************************************************************)

LEMMA InsertStep ==
  ASSUME TypeOK, Proper, NEW k \in Keys, NEW entry, Inserted(k, entry)
  PROVE  Proper'
<1>1. ReservedIsReferenced'
  BY DEF Proper, ReservedIsReferenced, Inserted
<1>2. ListIsExact'
  <2>1. {x \in Present' : cacheMap'[x].refCount = 0} = {x \in Present : cacheMap[x].refCount = 0}
    BY DEF Inserted
  <2>2. \A x \in Present' : cacheMap'[x].freeListRef <=> cacheMap'[x].refCount = 0
    BY DEF Proper, ListIsExact, Inserted
  <2>3. \A x \in Range(freeList) : x \in Present /\ ~cacheMap'[x].isReserved
    BY DEF Proper, ListIsExact, Inserted
  <2>4. QED
    BY <2>1, <2>2, <2>3 DEF Proper, ListIsExact, Inserted
<1>3. QueuesHoldWaiting'
  <2>1. \A x \in Reserved : x \in Reserved' /\ QueueOf(x)' = QueueOf(x)
    BY DEF Reserved, QueueOf, Inserted
  <2>2. \A x \in Reserved' : x \in Reserved \/ (x = k /\ cacheMap'[x].queue = <<>>)
    BY DEF Reserved, Inserted
  <2>3. Range(<<>>) = {} /\ IsInjective(<<>>)
    BY DEF Range, IsInjective
  <2>4. waiting' = waiting
    BY DEF Inserted
  <2>5. QED
    BY <2>1, <2>2, <2>3, <2>4 DEF Proper, QueuesHoldWaiting, QueueOf
<1>4. QED
  BY <1>1, <1>2, <1>3 DEF Proper

\* Every callback that waited in the slot is called, and none that did not.
LEMMA AnswerStep ==
  ASSUME TypeOK, Proper, NEW k, NEW w, NEW entry, Answered(k, w, entry)
  PROVE  Proper' /\ ~broken'
<1>1. k \in Reserved /\ k \in Present /\ k \in Keys /\ cacheMap[k].refCount \in Nat
  BY EntryFacts DEF Answered, Reserved
<1>2. cacheMap[k].refCount > 0
  BY <1>1 DEF Proper, ReservedIsReferenced, Reserved
<1>3. QueueOf(k) \in Seq(Callbacks) /\ IsInjective(QueueOf(k)) /\ Range(QueueOf(k)) \subseteq waiting
  BY <1>1, EntryFacts DEF Proper, QueuesHoldWaiting, QueueOf
<1>4. waiting' = waiting \ Range(QueueOf(k))
  BY DEF Answered, CallQueue, QueueOf
<1>5. ~broken'
  <2> DEFINE Calls(c) == Cardinality({i \in DOMAIN QueueOf(k) : QueueOf(k)[i] = c})
  <2>1. broken' = \E c \in Callbacks : Calls(c) > IF c \in waiting THEN 1 ELSE 0
    BY DEF Answered, CallQueue, QueueOf
  <2>2. \A c : Calls(c) = IF c \in Range(QueueOf(k)) THEN 1 ELSE 0
    BY <1>3, PlacesInQueue
  <2> HIDE DEF Calls
  <2>3. QED
    BY <1>3, <2>1, <2>2
<1>6. ReservedIsReferenced'
  BY DEF Proper, ReservedIsReferenced, Changed, Answered
<1>7. ListIsExact'
  <2>1. cacheMap'[k].refCount > 0 /\ ~cacheMap'[k].isReserved
    BY <1>1, <1>2 DEF Changed, Answered
  <2>2. {x \in Present' : cacheMap'[x].refCount = 0} = {x \in Present : cacheMap[x].refCount = 0}
    BY <1>2, <2>1 DEF Changed, Answered
  <2>3. \A x \in Present' : cacheMap'[x].freeListRef <=> cacheMap'[x].refCount = 0
    BY <1>1, <1>2, <2>1 DEF Proper, ListIsExact, Changed, Answered
  <2>4. \A x \in Range(freeList) : x \in Present /\ ~cacheMap'[x].isReserved
    BY <2>1 DEF Proper, ListIsExact, Changed, Answered
  <2>5. QED
    BY <2>2, <2>3, <2>4 DEF Proper, ListIsExact, Answered
<1>8. QueuesHoldWaiting'
  <2>1. Reserved' = Reserved \ {k} /\ \A x \in Reserved \ {k} : QueueOf(x)' = QueueOf(x)
    BY DEF Reserved, QueueOf, Changed, Answered
  <2>2. \A x \in Reserved' : IsInjective(QueueOf(x))' /\ Range(QueueOf(x))' \subseteq waiting'
    BY <1>1, <1>4, <2>1 DEF Proper, QueuesHoldWaiting
  <2>3. \A x, y \in Reserved' : x # y => Range(QueueOf(x))' \cap Range(QueueOf(y))' = {}
    BY <2>1 DEF Proper, QueuesHoldWaiting
  <2>4. \A c \in waiting' : \E x \in Reserved' : c \in Range(QueueOf(x))'
    BY <1>4, <2>1 DEF Proper, QueuesHoldWaiting
  <2>5. QED
    BY <2>2, <2>3, <2>4 DEF QueuesHoldWaiting
<1>9. QED
  BY <1>5, <1>6, <1>7, <1>8 DEF Proper

\* The callback waits at a place of its own.
LEMMA QueueStep ==
  ASSUME TypeOK, Proper, NEW k \in Keys, NEW c \in Callbacks, NEW entry, Queued(k, c, entry)
  PROVE  Proper'
<1> DEFINE q == QueueOf(k)
<1>1. k \in Reserved /\ k \in Present /\ c \notin waiting /\ q \in Seq(Callbacks)
  BY EntryFacts DEF Queued, Reserved, QueueOf
<1>2. /\ Present' = Present
      /\ \A x \in Present : /\ cacheMap'[x].refCount = cacheMap[x].refCount
                            /\ cacheMap'[x].isReserved = cacheMap[x].isReserved
                            /\ cacheMap'[x].freeListRef = cacheMap[x].freeListRef
  BY DEF Changed, Queued
<1>3. waiting' = waiting \cup {c} /\ freeList' = freeList
  BY DEF Queued
<1>4. ReservedIsReferenced'
  BY <1>2 DEF Proper, ReservedIsReferenced
<1>5. ListIsExact'
  <2>1. {x \in Present' : cacheMap'[x].refCount = 0} = {x \in Present : cacheMap[x].refCount = 0}
    BY <1>2
  <2>2. \A x \in Present' : cacheMap'[x].freeListRef <=> cacheMap'[x].refCount = 0
    BY <1>2 DEF Proper, ListIsExact
  <2>3. \A x \in Range(freeList) : x \in Present /\ ~cacheMap'[x].isReserved
    BY <1>2 DEF Proper, ListIsExact
  <2>4. QED
    BY <1>3, <2>1, <2>2, <2>3 DEF Proper, ListIsExact
<1>6. QueuesHoldWaiting'
  <2>1. Reserved' = Reserved
    BY <1>2 DEF Reserved
  <2>2. /\ cacheMap'[k].queue = Append(q, c)
        /\ \A x \in Reserved \ {k} : QueueOf(x)' = QueueOf(x)
    BY DEF Reserved, QueueOf, Changed, Queued
  <2>3. IsInjective(q) /\ Range(q) \subseteq waiting
    BY <1>1 DEF Proper, QueuesHoldWaiting
  <2>4. c \notin Range(q)
    BY <1>1, <2>3
  <2>5. Range(Append(q, c)) = Range(q) \cup {c} /\ IsInjective(Append(q, c))
    BY <1>1, <2>3, <2>4, InjectiveAppend
  <2>6. \A x \in Reserved \ {k} : c \notin Range(QueueOf(x))
    BY <1>1 DEF Proper, QueuesHoldWaiting
  <2>7. \A x \in Reserved' : IsInjective(QueueOf(x))' /\ Range(QueueOf(x))' \subseteq waiting'
    BY <1>3, <2>1, <2>2, <2>3, <2>5 DEF Proper, QueuesHoldWaiting, QueueOf
  <2>8. \A x, y \in Reserved' : x # y => Range(QueueOf(x))' \cap Range(QueueOf(y))' = {}
    <3>1. \A x \in Reserved \ {k} : Range(cacheMap'[x].queue) = Range(QueueOf(x))
      BY <2>2 DEF QueueOf
    <3>2. \A x, y \in Reserved : x # y => Range(QueueOf(x)) \cap Range(QueueOf(y)) = {}
      BY DEF Proper, QueuesHoldWaiting
    <3>3. Range(cacheMap'[k].queue) = Range(QueueOf(k)) \cup {c}
      BY <2>2, <2>5
    <3>4. \A x, y \in Reserved : x # y => Range(cacheMap'[x].queue) \cap Range(cacheMap'[y].queue) = {}
      BY <2>6, <3>1, <3>2, <3>3
    <3>5. QED
      BY <2>1, <3>4 DEF QueueOf
  <2>9. \A y \in waiting' : \E x \in Reserved' : y \in Range(QueueOf(x))'
    <3> TAKE y \in waiting'
    <3>1. CASE y = c
      <4>1. y \in Range(cacheMap'[k].queue)
        BY <2>2, <2>5, <3>1
      <4>2. QED
        BY <1>1, <2>1, <4>1 DEF QueueOf
    <3>2. CASE y # c
      <4>1. PICK x \in Reserved : y \in Range(QueueOf(x))
        BY <1>3, <3>2 DEF Proper, QueuesHoldWaiting
      <4>2. y \in Range(cacheMap'[x].queue)
        BY <2>2, <2>5, <4>1 DEF QueueOf
      <4>3. QED
        BY <2>1, <4>2 DEF QueueOf
    <3>3. QED
      BY <3>1, <3>2
  <2>10. QED
    BY <2>7, <2>8, <2>9 DEF QueuesHoldWaiting
<1>7. QED
  BY <1>4, <1>5, <1>6 DEF Proper

\* The queues and the callbacks after a step that leaves the reserved slots alone.
LEMMA QueuesUnchanged ==
  ASSUME Proper, waiting' = waiting, Reserved' = Reserved,
         \A x \in Reserved : cacheMap'[x].queue = cacheMap[x].queue
  PROVE  QueuesHoldWaiting'
BY DEF Proper, QueuesHoldWaiting, QueueOf

LEMMA TakeStep ==
  ASSUME TypeOK, Proper, NEW k \in Keys, NEW entry, Taken(k, entry)
  PROVE  Proper'
<1>1. k \in Present /\ ~cacheMap[k].isReserved /\ cacheMap[k].refCount \in Nat
  BY EntryFacts DEF Taken, Changed
<1>2. IsInjective(freeList') /\ Range(freeList') = Range(freeList) \ {k}
  <2>1. IsInjective(freeList) /\ (cacheMap[k].freeListRef <=> k \in Range(freeList))
    BY <1>1 DEF Proper, ListIsExact
  <2>2. CASE cacheMap[k].freeListRef
    <3>1. ListPosition(k) \in 1 .. Len(freeList) /\ freeList[ListPosition(k)] = k
      BY <2>1, <2>2, ListPositionIs
    <3>2. QED
      BY <2>1, <2>2, <3>1, RemoveNodeRemoves DEF Taken
  <2>3. CASE ~cacheMap[k].freeListRef
    BY <2>1, <2>3 DEF Taken
  <2>4. QED
    BY <2>2, <2>3
<1>3. ReservedIsReferenced'
  BY DEF Proper, ReservedIsReferenced, Changed, Taken
<1>4. ListIsExact'
  <2>1. cacheMap'[k].refCount > 0 /\ ~cacheMap'[k].freeListRef
    BY <1>1 DEF Changed, Taken
  <2>2. {x \in Present' : cacheMap'[x].refCount = 0} = {x \in Present : cacheMap[x].refCount = 0} \ {k}
    BY <2>1 DEF Changed, Taken
  <2>3. \A x \in Present' : cacheMap'[x].freeListRef <=> cacheMap'[x].refCount = 0
    BY <2>1 DEF Proper, ListIsExact, Changed, Taken
  <2>4. \A x \in Range(freeList') : ~cacheMap'[x].isReserved
    BY <1>2 DEF Proper, ListIsExact, Changed, Taken
  <2>5. QED
    BY <1>2, <2>2, <2>3, <2>4 DEF Proper, ListIsExact
<1>5. QueuesHoldWaiting'
  <2>1. k \notin Reserved /\ Reserved' = Reserved
    BY <1>1 DEF Reserved, Changed, Taken
  <2>2. \A x \in Reserved : cacheMap'[x].queue = cacheMap[x].queue
    BY <2>1 DEF Reserved, Changed, Taken
  <2>3. waiting' = waiting
    BY DEF Taken
  <2>4. QED
    BY <2>1, <2>2, <2>3, QueuesUnchanged
<1>6. QED
  BY <1>3, <1>4, <1>5 DEF Proper

\* cleanup erases what nobody refers to, its assertion holds, and no node is left.
LEMMA ReleaseStep ==
  ASSUME TypeOK, ProperUse, Proper, NEW k \in Keys, NEW list, NEW n, NEW released,
         Released(k, list, n, released)
  PROVE  Proper' /\ ~broken'
<1> DEFINE last == cacheMap[k].refCount = 1
           erased == {list[i] : i \in 1 .. n}
<1>1. /\ k \in Present /\ ~cacheMap[k].isReserved
      /\ cacheMap[k].refCount \in Nat /\ cacheMap[k].refCount > 0
  BY DEF Released
<1>2. k \notin Range(freeList) /\ cacheMap[k].freeListRef = FALSE
  <2>1. k \notin Range(freeList) /\ ~cacheMap[k].freeListRef
    BY <1>1 DEF Proper, ListIsExact
  <2>2. QED
    BY <1>1, <2>1, EntryFacts
<1>3. /\ list \in Seq(Keys) /\ n \in 0 .. Len(list)
      /\ Range(list) = IF last THEN Range(freeList) \cup {k} ELSE Range(freeList)
  BY DEF Released
<1>4. IsInjective(list)
  <2>1. freeList \in Seq(Keys) /\ IsInjective(freeList)
    BY DEF Proper, ListIsExact, TypeOK
  <2>2. CASE last
    BY <1>2, <2>1, <2>2, InjectiveAppend DEF Released
  <2>3. CASE ~last
    BY <2>1, <2>3 DEF Released
  <2>4. QED
    BY <2>2, <2>3
<1>5. /\ released[k].refCount = cacheMap[k].refCount - 1
      /\ ~released[k].isReserved
      /\ released[k].freeListRef = last
      /\ \A x \in Present \ {k} : released[x] = cacheMap[x]
  BY <1>1, <1>2 DEF Released
\* The list holds the entries that nobody refers to after the release.
<1>6. Range(list) = {x \in Present : released[x].refCount = 0}
  <2>1. released[k].refCount = 0 <=> last
    BY <1>1, <1>5
  <2>2. Range(freeList) = {x \in Present : cacheMap[x].refCount = 0}
    BY DEF Proper, ListIsExact
  <2> HIDE DEF last
  <2>3. QED
    BY <1>1, <1>2, <1>3, <1>5, <2>1, <2>2
<1>7. \A i \in 1 .. n : i \in DOMAIN list /\ list[i] \in Range(list)
  <2>1. \A i \in 1 .. n : i \in DOMAIN list
    BY <1>3
  <2>2. QED
    BY <2>1 DEF Range
<1>8. ~broken'
  <2>1. \A i \in 1 .. n : [x \in Present |-> released[x].refCount][list[i]] = 0
    BY <1>6, <1>7
  <2>2. \A i \in 1 .. n : \A j \in DOMAIN list \ {i} : list[j] # list[i]
    BY <1>4, <1>7 DEF IsInjective
  <2>3. QED
    BY <2>1, <2>2 DEF Released, CannotErase
<1>9. IsInjective(freeList') /\ Range(freeList') = Range(list) \ erased
  <2>1. Range(freeList') = Range(list) \ erased
    BY <1>8, ErasedAreFree
  <2>2. IsInjective(SubSeq(list, n + 1, Len(list)))
    BY <1>3, <1>4, PopLeaves
  <2>3. freeList' = SubSeq(list, n + 1, Len(list))
    BY DEF Released
  <2>4. QED
    BY <2>1, <2>2, <2>3
<1>10. Present' = Present \ erased /\ \A x \in Present' : cacheMap'[x] = released[x]
  BY DEF Released
<1>11. erased \subseteq Range(list)
  BY <1>7
<1> HIDE DEF erased
<1>12. ReservedIsReferenced'
  BY <1>5, <1>10 DEF Proper, ReservedIsReferenced
<1>13. ListIsExact'
  <2>1. Range(freeList') = {x \in Present' : cacheMap'[x].refCount = 0}
    BY <1>6, <1>9, <1>10
  <2>2. \A x \in Present' : cacheMap'[x].freeListRef <=> cacheMap'[x].refCount = 0
    <3> TAKE x \in Present'
    <3>1. CASE x = k
      <4>1. cacheMap'[x] = released[k] /\ (released[k].refCount = 0 <=> last)
        BY <1>1, <1>5, <1>10, <3>1
      <4> HIDE DEF last
      <4>2. QED
        BY <1>5, <4>1
    <3>2. CASE x # k
      BY <1>5, <1>10, <3>2 DEF Proper, ListIsExact
    <3>3. QED
      BY <3>1, <3>2
  <2>3. \A x \in Range(freeList') : ~cacheMap'[x].isReserved
    <3> TAKE x \in Range(freeList')
    <3>1. x \in Present /\ cacheMap'[x] = released[x]
      BY <1>10, <2>1
    <3>2. CASE x = k
      BY <1>5, <3>1, <3>2
    <3>3. CASE x # k
      BY <1>3, <1>5, <1>9, <3>1, <3>3 DEF Proper, ListIsExact
    <3>4. QED
      BY <3>2, <3>3
  <2>4. QED
    BY <1>9, <2>1, <2>2, <2>3 DEF ListIsExact
<1>14. QueuesHoldWaiting'
  <2>1. \A x \in erased : x \notin Reserved
    <3>1. \A x \in Range(list) : x = k \/ x \in Range(freeList)
      BY <1>3
    <3>2. QED
      BY <1>1, <1>11, <3>1 DEF Reserved, Proper, ListIsExact
  <2>2. k \notin Reserved
    BY <1>1 DEF Reserved
  <2>3. Reserved' = Reserved
    BY <1>5, <1>10, <2>1, <2>2 DEF Reserved
  <2>4. \A x \in Reserved : cacheMap'[x].queue = cacheMap[x].queue
    BY <1>5, <1>10, <2>2, <2>3 DEF Reserved
  <2>5. waiting' = waiting
    BY DEF Released
  <2>6. QED
    BY <2>3, <2>4, <2>5, QueuesUnchanged
<1>15. QED
  BY <1>8, <1>12, <1>13, <1>14 DEF Proper

LEMMA DestroyStep ==
  ASSUME destroy
  PROVE  Proper'
<1>1. Present' = {} /\ freeList' = <<>> /\ waiting' = {}
  BY DEF destroy, Present
<1>2. ReservedIsReferenced' /\ QueuesHoldWaiting'
  BY <1>1 DEF ReservedIsReferenced, QueuesHoldWaiting, Reserved
<1>3. ListIsExact'
  BY <1>1 DEF ListIsExact, IsInjective, Range
<1>4. QED
  BY <1>2, <1>3 DEF Proper

(***************************************************************************)
(* The invariant                                                           *)
(***************************************************************************)

LEMMA Initially == Init => Inv
<1> SUFFICES ASSUME Init PROVE Inv
  OBVIOUS
<1>1. Present = {} /\ freeList = <<>>
  BY DEF Init, Present
<1>2. TypeOK
  <2>1. freeList \in Seq(Keys) /\ currentSize \in 0 .. SizeMod - 1 /\ misuses \in 0 .. MaxMisuses
    BY <1>1, QuotaAssumption, MaxMisusesAssumption DEF Init
  <2>2. holds \in [Keys -> Nat] /\ called \in [Callbacks -> Nat]
    BY DEF Init
  <2>3. QED
    BY <1>1, <2>1, <2>2 DEF Init, TypeOK, Present
<1>3. Intact
  BY <1>1 DEF Init, Intact, CountersAreExact, ListLeadsToEntries, CalledAtMostOnce, Range
<1>4. ReservedIsReferenced /\ QueuesHoldWaiting
  BY <1>1 DEF Init, ReservedIsReferenced, QueuesHoldWaiting, Reserved
<1>5. ListIsExact
  BY <1>1 DEF ListIsExact, IsInjective, Range
<1>6. ~broken
  BY DEF Init
<1>7. QED
  BY <1>2, <1>3, <1>4, <1>5, <1>6 DEF Inv, Proper

LEMMA StutterStep ==
  ASSUME Inv, UNCHANGED vars
  PROVE  Inv'
<1>1. /\ cacheMap' = cacheMap /\ freeList' = freeList /\ currentSize' = currentSize
      /\ holds' = holds /\ waiting' = waiting /\ called' = called /\ filledSlot' = filledSlot
      /\ misuses' = misuses /\ broken' = broken
  BY DEF vars
<1>2. QED
  BY <1>1 DEF Inv, TypeOK, Present, Intact, CountersAreExact, ListLeadsToEntries,
              CalledAtMostOnce, Proper, ReservedIsReferenced, ListIsExact,
              QueuesHoldWaiting, Reserved, QueueOf, ProperUse

\* The operations keep Intact, and Proper unless they reserve an occupied key.
LEMMA Inductive == Inv /\ [Next]_vars => Inv'
<1> SUFFICES ASSUME Inv, [Next]_vars PROVE Inv'
  OBVIOUS
<1>a. TypeOK /\ (~broken => Intact) /\ (ProperUse => ~broken /\ Proper)
  BY DEF Inv
<1>1. CASE ~broken /\ destroy
  BY <1>1, <1>a, DestroyKeeps, DestroyStep DEF Inv, destroy
<1>2. ASSUME ~broken, NEW k \in Keys, Operation(k) PROVE Inv'
  <2>a. TypeOK /\ Intact
    BY <1>2, <1>a
  <2>1. ASSUME NEW entry, Inserted(k, entry) PROVE Inv'
    <3>1. misuses' = misuses /\ broken' = broken
      BY <2>1 DEF Inserted
    <3>2. QED
      BY <1>2, <1>a, <2>1, <2>a, <3>1, InsertKeeps, InsertStep DEF Inv, ProperUse
  <2>2. CASE putOccupied(k) \/ getAbsent(k) \/ reserveAgain(k) \/ cancelNothing(k)
    BY <2>2, StutterStep DEF putOccupied, getAbsent, reserveAgain, cancelNothing
  <2>3. ASSUME NEW c \in Callbacks, getReserved(k, c) PROVE Inv'
    <3>1. PICK entry : Queued(k, c, entry)
      BY <2>3, <2>a, GetReservedQueues
    <3>2. misuses' = misuses /\ broken' = broken
      BY <3>1 DEF Queued
    <3>3. QED
      BY <1>2, <1>a, <2>a, <3>1, <3>2, QueueKeeps, QueueStep DEF Inv, ProperUse
  <2>4. CASE getOccupied(k)
    <3>1. PICK entry : Taken(k, entry)
      BY <2>4, <2>a, GetOccupiedTakes
    <3>2. misuses' = misuses /\ broken' = broken
      BY <3>1 DEF Taken
    <3>3. QED
      BY <1>2, <1>a, <2>a, <3>1, <3>2, TakeKeeps, TakeStep DEF Inv, ProperUse
  <2>5. CASE Answer(k)
    <3>1. PICK w, entry : Answered(k, w, entry)
      BY <2>5, <2>a, PutReservedAnswers, CancelReservationAnswers DEF Answer
    <3>2. misuses' = misuses
      BY <3>1 DEF Answered
    <3>3. QED
      BY <1>a, <2>a, <3>1, <3>2, AnswerKeeps, AnswerStep DEF Inv, ProperUse
  <2>6. CASE doneWith(k)
    <3>1. PICK list, n, released : Released(k, list, n, released)
      BY <2>6, <2>a, DoneWithReleases
    <3>2. misuses' = misuses
      BY <3>1 DEF Released
    <3>3. QED
      BY <1>a, <2>a, <3>1, <3>2, ReleaseKeeps, ReleaseStep DEF Inv, ProperUse
  <2>7. CASE reserveOccupied(k)
    <3>1. misuses' # 0
      BY <2>7, <2>a DEF reserveOccupied, TypeOK
    <3>2. QED
      BY <2>7, <2>a, <3>1, ReserveOccupiedKeeps DEF Inv, ProperUse
  <2>8. QED
    BY <1>2, <2>1, <2>2, <2>3, <2>4, <2>5, <2>6, <2>7, <2>a, PutNewInserts, ReserveNewInserts
    DEF Operation
<1>3. CASE Stopped \/ UNCHANGED vars
  BY <1>3, StutterStep DEF Stopped
<1>4. QED
  BY <1>1, <1>2, <1>3 DEF Next

\* The inductive invariant holds throughout.
LEMMA Invariant == SafetySpec => []Inv
<1>1. QED
  BY Initially, Inductive, PTL DEF SafetySpec

(***************************************************************************)
(* Theorems                                                                *)
(***************************************************************************)

\* Every variable has its type; in particular currentSize_ stays within size_t,
\* whatever cleanup subtracts from it.
THEOREM TypeCorrect == SafetySpec => []TypeOK
<1>1. Inv => TypeOK
  BY DEF Inv
<1>2. QED
  BY <1>1, Invariant, PTL

\* refCount is the number of references that clients hold, so an entry that some
\* client still uses is never evicted by the cleanup at the end of doneWith.  This
\* survives the reservation of an occupied key, up to the step at which a deleted
\* callback is called or cleanup's assertion fails.
THEOREM ReferencesAreExact == SafetySpec => []ReferencesProtectEntries
<1>1. Inv => ReferencesProtectEntries
  BY DEF Inv, Intact, CountersAreExact, ReferencesProtectEntries
<1>2. QED
  BY <1>1, Invariant, PTL

\* As long as no occupied key has been reserved the free list holds the unreferenced
\* entries, each once, and no reserved slot.
THEOREM FreeListIsExact == SafetySpec => []FreeListIsUnreferenced
<1>1. Inv => FreeListIsUnreferenced
  BY DEF Inv, Proper, ListIsExact, FreeListIsUnreferenced
<1>2. QED
  BY <1>1, Invariant, PTL

\* As long as no occupied key has been reserved (which reserve allows, against its
\* documentation) no callback is called twice, none is called after its deletion, and
\* one that waits has one place in one queue that put or cancelReservation will still
\* go through.
THEOREM CalledOnce == SafetySpec => []CallbacksCalledOnce
<1>1. ASSUME Inv, ProperUse
      PROVE  /\ ~broken
             /\ \A c \in Callbacks : called[c] <= 1
             /\ \A c \in waiting :
                   \E k \in Present :
                       /\ cacheMap[k].isReserved
                       /\ \A x \in Present \ {k} :
                             cacheMap[x].isReserved => c \notin Range(cacheMap[x].queue)
                       /\ Cardinality({i \in DOMAIN cacheMap[k].queue :
                                           cacheMap[k].queue[i] = c}) = 1
  <2>1. TypeOK /\ ~broken /\ Intact /\ Proper
    BY <1>1 DEF Inv
  <2>2. \A c \in Callbacks : called[c] <= 1
    BY <2>1 DEF Intact, CalledAtMostOnce
  <2>3. ASSUME NEW c \in waiting
        PROVE  \E k \in Present :
                  /\ cacheMap[k].isReserved
                  /\ \A x \in Present \ {k} :
                        cacheMap[x].isReserved => c \notin Range(cacheMap[x].queue)
                  /\ Cardinality({i \in DOMAIN cacheMap[k].queue :
                                      cacheMap[k].queue[i] = c}) = 1
    <3>1. PICK k \in Reserved : c \in Range(QueueOf(k))
      BY <2>1 DEF Proper, QueuesHoldWaiting
    <3>2. k \in Present /\ cacheMap[k].isReserved
      BY DEF Reserved
    <3>3. \A x \in Present \ {k} : cacheMap[x].isReserved => c \notin Range(cacheMap[x].queue)
      BY <2>1, <3>1 DEF Proper, QueuesHoldWaiting, Reserved, QueueOf
    <3>4. QueueOf(k) \in Seq(Callbacks) /\ IsInjective(QueueOf(k))
      BY <2>1, <3>2, EntryFacts DEF Proper, QueuesHoldWaiting, QueueOf
    <3>5. Cardinality({i \in DOMAIN QueueOf(k) : QueueOf(k)[i] = c}) = 1
      BY <3>1, <3>4, PlacesInQueue
    <3>6. QED
      BY <3>2, <3>3, <3>5 DEF QueueOf
  <2>4. QED
    BY <2>1, <2>2, <2>3
<1>2. Inv => CallbacksCalledOnce
  BY <1>1 DEF CallbacksCalledOnce
<1>3. QED
  BY <1>2, Invariant, PTL

(***************************************************************************)
(* The free list: the linked list of FastFIFO is the queue that Cache      *)
(* works with, for any number of nodes                                     *)
(***************************************************************************)

\* The links, the allocation and the types are inductive together.
IndInv == FIFOTypeOK /\ LinksSpellQueue /\ AllocatedAreQueued

\* The constructor establishes the inductive invariant.
LEMMA InitIndInv == FIFOInit => IndInv
<1> SUFFICES ASSUME FIFOInit PROVE IndInv
  OBVIOUS
<1> USE DEF FIFOInit, Cells
<1>1. FIFOTypeOK
  BY DEF FIFOTypeOK
<1>2. LinksSpellQueue
  BY DEF LinksSpellQueue, Predecessor
<1>3. AllocatedAreQueued
  BY DEF AllocatedAreQueued, Range, IsInjective
<1>4. QED
  BY <1>1, <1>2, <1>3 DEF IndInv

\* What the links around the p-th node of the queue look like.
LEMMA Neighbours ==
  ASSUME IndInv, NEW p \in 1 .. Len(queue)
  PROVE  /\ queue[p] \in Nodes
         /\ next[queue[p]] = Successor(p) /\ before[queue[p]] = Predecessor(p)
         /\ Successor(p) \in Cells
         /\ Predecessor(p) \in Nodes \cup {NULL}
  BY NullAssumption, SentinelAssumption
  DEF IndInv, FIFOTypeOK, LinksSpellQueue, Successor, Predecessor, Cells

\* push(n) appends n and keeps the invariant: only the former last node, the
\* new one and the sentinel change their links.
LEMMA PushStep ==
  ASSUME IndInv, NEW n \in Nodes, push(n)
  PROVE  IndInv'
<1> USE NullAssumption, SentinelAssumption DEF Cells
<1>0. /\ n \notin Range(queue) /\ n \in Nodes /\ queue \in Seq(Nodes)
      /\ \A i \in 1 .. Len(queue) : queue[i] # n /\ queue[i] \in Nodes
  BY DEF IndInv, FIFOTypeOK, AllocatedAreQueued, push, Range
<1>1. /\ Len(queue) \in Nat /\ Len(queue') = Len(queue) + 1
      /\ queue' \in Seq(Nodes) /\ DOMAIN queue' = 1 .. Len(queue) + 1
      /\ \A i \in 1 .. Len(queue) : queue'[i] = queue[i]
      /\ queue'[Len(queue) + 1] = n
  BY <1>0 DEF push
<1>2. FIFOTypeOK'
  BY <1>1 DEF IndInv, FIFOTypeOK, push
<1>3. AllocatedAreQueued'
  <2>1. Range(queue') = Range(queue) \cup {n}
    BY <1>0, <1>1 DEF Range
  <2>2. IsInjective(queue')
    BY <1>0, <1>1 DEF IndInv, AllocatedAreQueued, IsInjective
  <2>3. \A c \in allocated' : next'[c] # NULL
    BY DEF IndInv, FIFOTypeOK, AllocatedAreQueued, push
  <2>4. QED
    BY <2>1, <2>2, <2>3 DEF IndInv, AllocatedAreQueued, push
<1>4. LinksSpellQueue'
  <2>1. before[Sentinel] = IF Len(queue) = 0 THEN NULL ELSE queue[Len(queue)]
    BY <1>1 DEF IndInv, LinksSpellQueue, Predecessor
  <2>2. head' = queue'[1] /\ queue' # <<>>
    BY <1>0, <1>1 DEF IndInv, LinksSpellQueue, push
  <2>3. before'[Sentinel] = n /\ next'[n] = Sentinel /\ before'[n] = before[Sentinel]
    BY <1>0 DEF IndInv, FIFOTypeOK, push
  <2>4. ASSUME NEW i \in 1 .. Len(queue)
        PROVE  before'[queue[i]] = before[queue[i]]
               /\ next'[queue[i]] = IF i = Len(queue) THEN n ELSE next[queue[i]]
    <3>1. i # Len(queue) => queue[i] # queue[Len(queue)]
      BY <1>1 DEF IndInv, AllocatedAreQueued, IsInjective
    <3>2. QED
      BY <1>0, <1>1, <2>1, <3>1 DEF IndInv, FIFOTypeOK, push
  <2>5. \A i \in 1 .. Len(queue) :
           next[queue[i]] = Successor(i) /\ before[queue[i]] = Predecessor(i)
    BY DEF IndInv, LinksSpellQueue
  <2>6. ASSUME NEW i \in 1 .. Len(queue')
        PROVE  next'[queue'[i]] = Successor(i)' /\ before'[queue'[i]] = Predecessor(i)'
    <3>1. CASE i = Len(queue) + 1
      <4>1. Successor(i)' = Sentinel
        BY <1>1, <3>1 DEF Successor
      <4>2. Predecessor(i)' = IF Len(queue) = 0 THEN NULL ELSE queue[Len(queue)]
        BY <1>1, <3>1 DEF Predecessor
      <4>3. queue'[i] = n
        BY <1>1, <3>1
      <4>4. QED
        BY <2>1, <2>3, <4>1, <4>2, <4>3
    <3>2. CASE i \in 1 .. Len(queue)
      <4>1. queue'[i] = queue[i] /\ queue[i] \in Nodes /\ i # Len(queue')
        BY <1>0, <1>1, <3>2
      <4>2. Successor(i)' = IF i = Len(queue) THEN n ELSE Successor(i)
        <5>1. Successor(i)' = queue'[i + 1]
          BY <1>1, <4>1 DEF Successor
        <5>2. CASE i = Len(queue)
          BY <1>1, <5>1, <5>2
        <5>3. CASE i # Len(queue)
          <6>1. i + 1 \in 1 .. Len(queue)
            BY <1>1, <3>2, <5>3
          <6>2. QED
            BY <1>1, <5>1, <5>3, <6>1 DEF Successor
        <5>4. QED
          BY <5>2, <5>3
      <4>3. Predecessor(i)' = Predecessor(i)
        <5>1. CASE i = 1
          BY <5>1 DEF Predecessor
        <5>2. CASE i # 1
          <6>1. i - 1 \in 1 .. Len(queue)
            BY <1>1, <3>2, <5>2
          <6>2. QED
            BY <1>1, <5>2, <6>1 DEF Predecessor
        <5>3. QED
          BY <5>1, <5>2
      <4>4. QED
        BY <2>4, <2>5, <3>2, <4>1, <4>2, <4>3
    <3>3. QED
      BY <1>1, <3>1, <3>2
  <2>7. QED
    BY <1>1, <2>2, <2>3, <2>6 DEF LinksSpellQueue, Predecessor
<1>5. QED
  BY <1>2, <1>3, <1>4 DEF IndInv

\* removeNode keeps the invariant: only the two neighbours of the removed node
\* change their links, and the nodes behind it move up by one.
LEMMA RemoveStep ==
  ASSUME IndInv, NEW p \in DOMAIN queue, removeNode(p)
  PROVE  IndInv'
<1> USE NullAssumption, SentinelAssumption DEF Cells
<1>0. /\ Len(queue) \in Nat /\ DOMAIN queue = 1 .. Len(queue) /\ p \in 1 .. Len(queue)
      /\ queue \in Seq(Nodes) /\ \A i \in 1 .. Len(queue) : queue[i] \in Nodes
      /\ \A i, j \in 1 .. Len(queue) : queue[i] = queue[j] => i = j
      /\ next \in [Cells -> Cells \cup {NULL}] /\ before \in [Cells -> Cells \cup {NULL}]
  BY DEF IndInv, FIFOTypeOK, AllocatedAreQueued, IsInjective
<1>1. /\ queue' \in Seq(Nodes) /\ Len(queue') = Len(queue) - 1
      /\ DOMAIN queue' = 1 .. Len(queue) - 1
      /\ \A i \in 1 .. Len(queue) - 1 :
            queue'[i] = IF i < p THEN queue[i] ELSE queue[i + 1]
  <2>1. queue' = [i \in 1 .. Len(queue) - 1 |-> IF i < p THEN queue[i] ELSE queue[i + 1]]
    BY DEF removeNode, Without
  <2>2. \A i \in 1 .. Len(queue) - 1 : (IF i < p THEN queue[i] ELSE queue[i + 1]) \in Nodes
    BY <1>0
  <2>3. QED
    BY <1>0, <2>1, <2>2
<1>2. /\ next[queue[p]] = Successor(p) /\ before[queue[p]] = Predecessor(p)
      /\ Successor(p) \in Cells /\ Predecessor(p) \in Nodes \cup {NULL}
  BY <1>0, Neighbours
<1>3. FIFOTypeOK'
  BY <1>0, <1>1, <1>2 DEF IndInv, FIFOTypeOK, removeNode, unlink
<1>4. LinksSpellQueue'
  <2>1. \A i \in 1 .. Len(queue) :
           next[queue[i]] = Successor(i) /\ before[queue[i]] = Predecessor(i)
    BY DEF IndInv, LinksSpellQueue
  <2>2. /\ head = IF queue = <<>> THEN Sentinel ELSE queue[1]
        /\ before[Sentinel] = IF Len(queue) = 0 THEN NULL ELSE queue[Len(queue)]
    BY <1>0 DEF IndInv, LinksSpellQueue, Predecessor
  <2>3. /\ \A c \in Cells : next'[c] = IF c = Predecessor(p) THEN Successor(p) ELSE next[c]
        /\ \A c \in Cells : before'[c] = IF c = Successor(p) THEN Predecessor(p) ELSE before[c]
        /\ head' = IF Predecessor(p) = NULL THEN Successor(p) ELSE head
    BY <1>0, <1>2 DEF removeNode, unlink
  <2>4. head' = IF queue' = <<>> THEN Sentinel ELSE queue'[1]
    BY <1>0, <1>1, <2>2, <2>3 DEF Successor, Predecessor
  <2>5. before'[Sentinel] = Predecessor(Len(queue) + 1)'
    BY <1>0, <1>1, <2>2, <2>3 DEF Successor, Predecessor
  <2>6. ASSUME NEW i \in 1 .. Len(queue')
        PROVE  next'[queue'[i]] = Successor(i)' /\ before'[queue'[i]] = Predecessor(i)'
    <3> DEFINE j == IF i < p THEN i ELSE i + 1
    <3>1. /\ i \in 1 .. Len(queue) - 1 /\ j \in 1 .. Len(queue) /\ j # p
          /\ queue'[i] = queue[j] /\ queue[j] \in Nodes
      BY <1>0, <1>1
    <3>a. /\ i \in Int /\ p \in Int /\ Len(queue) \in Int
          /\ 1 <= i /\ i <= Len(queue) - 1 /\ 1 <= p /\ p <= Len(queue)
          /\ (i < p => j = i) /\ (~(i < p) => j = i + 1)
      BY <1>0, <3>1
    <3> HIDE DEF j
    <3>2. next[queue[j]] = Successor(j) /\ before[queue[j]] = Predecessor(j)
      BY <2>1, <3>1
    <3>3. next'[queue[j]] = IF j + 1 = p THEN Successor(p) ELSE Successor(j)
      <4>1. queue[j] = Predecessor(p) <=> j + 1 = p
        BY <1>0, <3>1 DEF Predecessor
      <4>2. QED
        BY <2>3, <3>1, <3>2, <4>1
    <3>4. before'[queue[j]] = IF j = p + 1 THEN Predecessor(p) ELSE Predecessor(j)
      <4>1. queue[j] = Successor(p) <=> j = p + 1
        BY <1>0, <3>1 DEF Successor
      <4>2. QED
        BY <2>3, <3>1, <3>2, <4>1
    <3>5. Successor(i)' = IF j + 1 = p THEN Successor(p) ELSE Successor(j)
      <4>1. Successor(i)' = IF i = Len(queue) - 1 THEN Sentinel ELSE queue'[i + 1]
        BY <1>1 DEF Successor
      <4>2. (IF i = Len(queue) - 1 THEN Sentinel ELSE queue'[i + 1])
            = IF j + 1 = p THEN Successor(p) ELSE Successor(j)
        <5>1. CASE i = Len(queue) - 1
          <6>1. CASE i < p
            <7>1. j + 1 = p /\ p = Len(queue)
              BY <3>a, <5>1, <6>1
            <7>2. QED
              BY <5>1, <7>1 DEF Successor
          <6>2. CASE ~(i < p)
            <7>1. j + 1 # p /\ j = Len(queue)
              BY <3>a, <5>1, <6>2
            <7>2. QED
              BY <5>1, <7>1 DEF Successor
          <6>3. QED
            BY <6>1, <6>2
        <5>2. CASE i # Len(queue) - 1
          <6>1. i + 1 \in 1 .. Len(queue) - 1 /\ (i + 1) + 1 = i + 2
            BY <3>a, <5>2
          <6>2. queue'[i + 1] = IF i + 1 < p THEN queue[i + 1] ELSE queue[i + 2]
            BY <1>1, <6>1
          <6>3. CASE i + 1 = p
            <7>1. j + 1 = p /\ p # Len(queue) /\ i + 2 = p + 1 /\ ~(i + 1 < p)
              BY <3>a, <5>2, <6>3
            <7>2. queue'[i + 1] = queue[p + 1]
              BY <6>2, <7>1
            <7>3. Successor(p) = queue[p + 1]
              BY <7>1 DEF Successor
            <7>4. QED
              BY <5>2, <7>1, <7>2, <7>3
          <6>4. CASE i + 1 < p
            <7>1. j + 1 # p /\ j # Len(queue) /\ j = i
              BY <3>a, <5>2, <6>4
            <7>2. QED
              BY <5>2, <6>2, <6>4, <7>1 DEF Successor
          <6>5. CASE i >= p
            <7>1. j + 1 # p /\ j # Len(queue) /\ j + 1 = i + 2 /\ ~(i + 1 < p)
              BY <3>a, <5>2, <6>5
            <7>2. QED
              BY <5>2, <6>2, <7>1 DEF Successor
          <6>6. i + 1 = p \/ i + 1 < p \/ i >= p
            BY <3>a
          <6>7. QED
            BY <6>3, <6>4, <6>5, <6>6
        <5>3. QED
          BY <5>1, <5>2
      <4>3. QED
        BY <4>1, <4>2
    <3>6. Predecessor(i)' = IF j = p + 1 THEN Predecessor(p) ELSE Predecessor(j)
      <4>1. Predecessor(i)' = IF i = 1 THEN NULL ELSE queue'[i - 1]
        BY DEF Predecessor
      <4>2. QED
        BY <1>0, <1>1, <3>1, <4>1 DEF Predecessor, j
    <3>7. QED
      BY <3>1, <3>3, <3>4, <3>5, <3>6
  <2>7. QED
    <3>1. Predecessor(Len(queue) + 1)' = IF queue' = <<>> THEN NULL ELSE queue'[Len(queue')]
      BY <1>0, <1>1 DEF Predecessor
    <3>2. QED
      BY <2>4, <2>5, <2>6 DEF LinksSpellQueue
<1>5. AllocatedAreQueued'
  <2>1. /\ \A i, j \in 1 .. Len(queue) - 1 : queue'[i] = queue'[j] => i = j
        /\ \A i \in 1 .. Len(queue) - 1 : queue'[i] # queue[p]
    <3> DEFINE Old(i) == IF i < p THEN i ELSE i + 1
    <3>1. \A i \in 1 .. Len(queue) - 1 : Old(i) \in 1 .. Len(queue) /\ Old(i) # p
      BY <1>0
    <3>2. \A i, j \in 1 .. Len(queue) - 1 : Old(i) = Old(j) => i = j
      BY <1>0
    <3>3. \A i \in 1 .. Len(queue) - 1 : queue'[i] = queue[Old(i)]
      BY <1>1
    <3> HIDE DEF Old
    <3>4. QED
      BY <1>0, <3>1, <3>2, <3>3
  <2>2. IsInjective(queue')
    BY <1>1, <2>1 DEF IsInjective
  <2>3. Range(queue') = Range(queue) \ {queue[p]}
    <3>1. ASSUME NEW i \in 1 .. Len(queue), queue[i] # queue[p]
          PROVE  queue[i] \in Range(queue')
      <4> DEFINE k == IF i < p THEN i ELSE i - 1
      <4>1. i # p
        BY <3>1
      <4>2. k \in 1 .. Len(queue) - 1 /\ queue'[k] = queue[i]
        BY <1>0, <1>1, <4>1
      <4>3. QED
        BY <1>1, <4>2 DEF Range
    <3>2. ASSUME NEW i \in 1 .. Len(queue) - 1
          PROVE  queue'[i] \in Range(queue)
      <4> DEFINE k == IF i < p THEN i ELSE i + 1
      <4>1. k \in 1 .. Len(queue) /\ queue'[i] = queue[k]
        BY <1>0, <1>1
      <4>2. QED
        BY <1>0, <4>1 DEF Range
    <3>3. QED
      BY <1>0, <1>1, <2>1, <3>1, <3>2 DEF Range
  <2>4. \A c \in allocated' : next'[c] # NULL
    BY <1>0, <1>2 DEF IndInv, FIFOTypeOK, AllocatedAreQueued, removeNode, unlink
  <2>5. QED
    BY <2>2, <2>3, <2>4 DEF IndInv, AllocatedAreQueued, removeNode, unlink
<1>6. QED
  BY <1>3, <1>4, <1>5 DEF IndInv

\* A successful pop removes the first node of the queue.
LEMMA PopStep ==
  ASSUME IndInv, pop
  PROVE  1 \in DOMAIN queue /\ removeNode(1)
<1>1. queue \in Seq(Nodes) /\ queue # <<>> /\ head = queue[1]
  BY DEF IndInv, FIFOTypeOK, LinksSpellQueue, pop
<1>2. Len(queue) \in Nat /\ Len(queue) > 0 /\ DOMAIN queue = 1 .. Len(queue)
  BY <1>1
<1>3. /\ Without(1) = [i \in 1 .. Len(queue) - 1 |-> queue[i + 1]]
      /\ \A i \in 1 .. Len(queue) - 1 : queue[i + 1] \in Nodes
  BY <1>1, <1>2 DEF Without
<1>4. Tail(queue) = Without(1)
  <2>1. /\ Without(1) \in Seq(Nodes) /\ Len(Without(1)) = Len(queue) - 1
        /\ \A i \in 1 .. Len(queue) - 1 : Without(1)[i] = queue[i + 1]
    <3> DEFINE w == [i \in 1 .. Len(queue) - 1 |-> queue[i + 1]]
    <3>1. Len(queue) - 1 \in Nat /\ w \in [1 .. Len(queue) - 1 -> Nodes]
      BY <1>2, <1>3
    <3> HIDE DEF w
    <3>2. w \in Seq(Nodes) /\ Len(w) = Len(queue) - 1
      BY <3>1
    <3>3. QED
      BY <1>3, <3>2 DEF w
  <2>2. /\ Tail(queue) \in Seq(Nodes) /\ Len(Tail(queue)) = Len(queue) - 1
        /\ \A i \in 1 .. Len(queue) - 1 : Tail(queue)[i] = queue[i + 1]
    BY <1>1, <1>2
  <2>3. QED
    BY <2>1, <2>2, SeqEqual
<1>5. QED
  BY <1>1, <1>2, <1>4 DEF pop, removeNode

\* Every step of the list keeps the inductive invariant.
LEMMA StepIndInv == IndInv /\ [FIFONext]_fifoVars => IndInv'
<1> SUFFICES ASSUME IndInv, [FIFONext]_fifoVars PROVE IndInv'
  OBVIOUS
<1>1. ASSUME NEW n \in Nodes, push(n) PROVE IndInv'
  BY <1>1, PushStep
<1>2. ASSUME NEW p \in DOMAIN queue, removeNode(p) PROVE IndInv'
  BY <1>2, RemoveStep
<1>3. CASE pop
  BY <1>3, PopStep, RemoveStep
<1>4. CASE UNCHANGED fifoVars
  BY <1>4 DEF fifoVars, IndInv, FIFOTypeOK, LinksSpellQueue, AllocatedAreQueued,
              Successor, Predecessor, Cells
<1>5. QED
  BY <1>1, <1>2, <1>3, <1>4 DEF FIFONext, popEmpty

\* The links of fast_fifo.h spell the queue after any sequence of push, pop and
\* removeNode, whatever the number of nodes.
THEOREM ListIsQueue == FIFOSpec => []LinksSpellQueue
<1>1. FIFOSpec => []IndInv
  BY InitIndInv, StepIndInv, PTL DEF FIFOSpec
<1>2. IndInv => LinksSpellQueue
  BY DEF IndInv
<1>3. QED
  BY <1>1, <1>2, PTL

\* Exactly the queued nodes are allocated, each of them once: no node leaks and
\* none is freed while it is still linked.
THEOREM NoLeak == FIFOSpec => []AllocatedAreQueued
<1>1. FIFOSpec => []IndInv
  BY InitIndInv, StepIndInv, PTL DEF FIFOSpec
<1>2. IndInv => AllocatedAreQueued
  BY DEF IndInv
<1>3. QED
  BY <1>1, <1>2, PTL
=============================================================================
