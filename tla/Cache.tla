-------------------------------- MODULE Cache --------------------------------
(***************************************************************************)
(* webserver/cache.cc: a reference-counted key-value cache with a quota.   *)
(* All its operations run on one thread (the CacheTaskID group), so each   *)
(* is one step.  The free list is the queue that FastFIFO implements.      *)
(*                                                                         *)
(* Clients reserve a slot after a get that failed, put or cancel what they *)
(* reserved, and return references that they were given: the way of        *)
(* webserver/svr_http.cc and cache_test.cc.  They may also misuse the      *)
(* cache and reserve a key that is occupied.  cache.h documents that call  *)
(* as failing; it succeeds, and the properties name it as their exception. *)
(***************************************************************************)
EXTENDS Integers, Sequences, FiniteSets, Functions, FiniteSetsExt

CONSTANTS
    Keys,
    Callbacks,  \* addresses of CacheCallback objects
    Sizes,      \* sizes of the objects that are put
    sizeQuota,  \* sizeQuota_
    SizeMod,    \* 2^w for the width w of size_t
    MaxRefs,    \* bound of the model: references one get may lead to
    MaxMisuses  \* bound of the model: reservations of an occupied key

ASSUME SizesAssumption == Sizes \subseteq Nat \ {0}
ASSUME QuotaAssumption == sizeQuota \in Nat /\ SizeMod \in Nat \ {0}
ASSUME MaxRefsAssumption == MaxRefs \in Nat
ASSUME MaxMisusesAssumption == MaxMisuses \in Nat

VARIABLES
    cacheMap,       \* cacheMap_: a function on the keys that are present
    freeList,       \* freeList_: keys of the entries nobody refers to
    currentSize,    \* currentSize_
    holds,          \* history: references to each entry that clients hold
    waiting,        \* callbacks that are allocated and queued in some entry
    called,         \* history: calls of each callback since its allocation
    filledSlot,     \* history: some put has filled a reserved slot
    misuses,        \* history: reservations of an occupied key of this instance
    broken          \* an assertion has failed, or freed memory is or will be used

vars == <<cacheMap, freeList, currentSize, holds, waiting, called, filledSlot,
          misuses, broken>>

\* CacheEntry.  A buffer stands for itself, so hasData says if data is not NULL.
Entry ==
    [hasData : BOOLEAN, size : Nat, refCount : Nat, isReserved : BOOLEAN,
     freeListRef : BOOLEAN, queue : Seq(Callbacks)]

TypeOK ==
    /\ DOMAIN cacheMap \subseteq Keys
    /\ \A k \in DOMAIN cacheMap : cacheMap[k] \in Entry
    /\ freeList \in Seq(Keys)
    /\ currentSize \in 0 .. SizeMod - 1
    /\ holds \in [Keys -> Nat]
    /\ waiting \in SUBSET Callbacks
    /\ called \in [Callbacks -> Nat]
    /\ filledSlot \in BOOLEAN
    /\ misuses \in 0 .. MaxMisuses
    /\ broken \in BOOLEAN

Present == DOMAIN cacheMap

\* Mutant: the reserver is given no reference.
ReservedEntryWithoutReference ==
    [hasData |-> FALSE, size |-> 0, refCount |-> 0, isReserved |-> TRUE,
     freeListRef |-> FALSE, queue |-> <<>>]

\* The two constructors of CacheEntry.
ReservedEntry ==
    [hasData |-> FALSE, size |-> 0, refCount |-> 1, isReserved |-> TRUE,
     freeListRef |-> FALSE, queue |-> <<>>]

FilledEntry(size) ==
    [hasData |-> TRUE, size |-> size, refCount |-> 1, isReserved |-> FALSE,
     freeListRef |-> FALSE, queue |-> <<>>]

Insert(k, entry) ==
    cacheMap' = [x \in Present \cup {k} |-> IF x = k THEN entry ELSE cacheMap[x]]

\* Mutant: the loop over the queue ends after the first callback.
CallFirst(k) ==
    LET q == cacheMap[k].queue
        first == IF q = <<>> THEN {} ELSE {q[1]}
    IN  /\ called' = [c \in Callbacks |-> IF c \in first THEN called[c] + 1 ELSE called[c]]
        /\ waiting' = waiting \ first
        /\ UNCHANGED broken

\* The calls that put and cancelReservation make: every callback of the
\* queue.  Each is deleted, but the queue keeps the pointers, and a second
\* reservation of the entry leads to calls of deleted callbacks.
CallQueue(k) ==
    LET q == cacheMap[k].queue
        Calls(c) == Cardinality({i \in DOMAIN q : q[i] = c})
    IN  /\ called' = [c \in Callbacks |-> called[c] + Calls(c)]
        /\ waiting' = waiting \ Range(q)
        /\ broken' = \E c \in Callbacks : Calls(c) > IF c \in waiting THEN 1 ELSE 0

Init ==
    /\ cacheMap = <<>>
    /\ freeList = <<>>
    /\ currentSize = 0
    /\ holds = [k \in Keys |-> 0]
    /\ waiting = {}
    /\ called = [c \in Callbacks |-> 0]
    /\ filledSlot = FALSE
    /\ misuses = 0
    /\ broken = FALSE

\* put of a key that is absent.
putNew(k, size) ==
    /\ k \notin Present
    /\ Insert(k, FilledEntry(size))
    /\ currentSize' = (currentSize + size) % SizeMod
    /\ holds' = [holds EXCEPT ![k] = 1]
    /\ UNCHANGED <<freeList, waiting, called, filledSlot, misuses, broken>>

\* put of a reserved key.  Every queued callback is given the data and a
\* reference; currentSize_ is left alone.
putReserved(k, size) ==
    LET waiters == Len(cacheMap[k].queue)
    IN  /\ k \in Present /\ cacheMap[k].isReserved
        /\ cacheMap' = [cacheMap EXCEPT ![k].hasData = TRUE, ![k].size = size,
                                        ![k].refCount = @ + waiters,
                                        ![k].isReserved = FALSE]
        /\ holds' = [holds EXCEPT ![k] = @ + waiters]
        /\ CallQueue(k)
        /\ filledSlot' = TRUE
        /\ UNCHANGED <<freeList, currentSize, misuses>>

\* put of a key that is occupied returns false.
putOccupied(k) ==
    /\ k \in Present /\ ~cacheMap[k].isReserved
    /\ UNCHANGED vars

\* get of an absent key deletes the callback and returns false.
getAbsent(k) ==
    /\ k \notin Present
    /\ UNCHANGED vars

\* get of a reserved key queues a newly allocated callback.
getReserved(k, c) ==
    /\ k \in Present /\ cacheMap[k].isReserved
    /\ c \in Callbacks \ waiting
    /\ cacheMap' = [cacheMap EXCEPT ![k].queue = Append(@, c)]
    /\ waiting' = waiting \cup {c}
    /\ called' = [called EXCEPT ![c] = 0]
    /\ UNCHANGED <<freeList, currentSize, holds, filledSlot, misuses, broken>>

\* The node freeListRef points to: an entry's last node in the free list.
ListPosition(k) ==
    CHOOSE p \in DOMAIN freeList :
        freeList[p] = k /\ \A q \in DOMAIN freeList : freeList[q] = k => q <= p

\* Mutant: the entry stays in the free list.
KeepNode(p) == freeList

\* removeNode of FastFIFO.
RemoveNode(p) ==
    [i \in 1 .. Len(freeList) - 1 |->
        IF i < p THEN freeList[i] ELSE freeList[i + 1]]

\* get of an occupied key calls the callback at once, gives it a reference and
\* takes the entry off the free list.
getOccupied(k) ==
    /\ k \in Present /\ ~cacheMap[k].isReserved
    /\ cacheMap[k].refCount < MaxRefs
    /\ cacheMap' = [cacheMap EXCEPT ![k].refCount = @ + 1,
                                    ![k].freeListRef = FALSE]
    /\ freeList' = IF cacheMap[k].freeListRef
                      THEN RemoveNode(ListPosition(k)) ELSE freeList
    /\ holds' = [holds EXCEPT ![k] = @ + 1]
    /\ UNCHANGED <<currentSize, waiting, called, filledSlot, misuses, broken>>

reserveNew(k) ==
    /\ k \notin Present
    /\ Insert(k, ReservedEntry)
    /\ holds' = [holds EXCEPT ![k] = 1]
    /\ UNCHANGED <<freeList, currentSize, waiting, called, filledSlot, misuses, broken>>

\* reserve of an occupied key succeeds: the entry keeps its data, its references,
\* its place in the free list and the pointers in its queue.
reserveOccupied(k) ==
    /\ k \in Present /\ ~cacheMap[k].isReserved
    /\ misuses < MaxMisuses
    /\ cacheMap' = [cacheMap EXCEPT ![k].isReserved = TRUE]
    /\ misuses' = misuses + 1
    /\ UNCHANGED <<freeList, currentSize, holds, waiting, called, filledSlot, broken>>

\* A second reservation of a slot returns false.
reserveAgain(k) ==
    /\ k \in Present /\ cacheMap[k].isReserved
    /\ UNCHANGED vars

\* Mutant: the slot stays reserved.
cancelStaysReserved(k) ==
    /\ k \in Present /\ cacheMap[k].isReserved
    /\ CallQueue(k)
    /\ UNCHANGED <<cacheMap, freeList, currentSize, holds, filledSlot, misuses>>

\* The entry stays in the map without data, and its creator keeps a reference.
cancelReservation(k) ==
    /\ k \in Present /\ cacheMap[k].isReserved
    /\ cacheMap' = [cacheMap EXCEPT ![k].isReserved = FALSE]
    /\ CallQueue(k)
    /\ UNCHANGED <<freeList, currentSize, holds, filledSlot, misuses>>

\* cancelReservation of a key that is not reserved returns false.
cancelNothing(k) ==
    /\ k \in Present => ~cacheMap[k].isReserved
    /\ UNCHANGED vars

\* spaceFreed after n entries of the list were popped.
SpaceFreed(list) ==
    LET freed[n \in 0 .. Len(list)] ==
            IF n = 0 THEN 0 ELSE freed[n - 1] + cacheMap[list[n]].size
    IN  freed

\* Mutant: cleanup pops one entry, whatever it frees.
CleanupOnce(list, space) == IF list = <<>> THEN 0 ELSE 1

\* How many entries cleanup(space) pops from the list.
CleanupCount(list, space) ==
    CHOOSE n \in 0 .. Len(list) :
        /\ SpaceFreed(list)[n] >= space \/ n = Len(list)
        /\ \A m \in 0 .. n - 1 : SpaceFreed(list)[m] < space

\* Mutant: currentSize_ is a signed integer.
SignedSizeAfterFreeing(freed) == currentSize - freed

\* currentSize_ -= spaceFreed wraps around.
SizeAfterFreeing(freed) == (currentSize - freed) % SizeMod

\* The first n entries of the list cannot be erased: cleanup's assertion fails,
\* or a second node is left that points to an entry erased here, which the next
\* pop, the destructor's at the latest, reads.
CannotErase(list, n, refs) ==
    \E i \in 1 .. n : refs[list[i]] # 0 \/ \E j \in DOMAIN list \ {i} : list[j] = list[i]

\* doneWith with the cleanup at its end.  A reference to a reserved key can be
\* returned once occupied keys have been reserved.  After erase,
\* deallocate(*entry) reads the erased entry; the model takes the outcome in which
\* that memory is intact (the other outcomes abort the program).
doneWith(k) ==
    /\ k \in Present
    /\ ~cacheMap[k].isReserved \/ misuses > 0
    /\ holds[k] > 0
    /\ LET last == cacheMap[k].refCount = 1
           list == IF last THEN Append(freeList, k) ELSE freeList
           n == IF currentSize > sizeQuota
                   THEN CleanupCount(list, currentSize - sizeQuota) ELSE 0
           erased == {list[i] : i \in 1 .. n}
           released == [cacheMap EXCEPT ![k].refCount = @ - 1,
                                        ![k].freeListRef = @ \/ last]
       IN  /\ cacheMap' = Restrict(released, Present \ erased)
           /\ freeList' = SubSeq(list, n + 1, Len(list))
           /\ currentSize' = SizeAfterFreeing(SpaceFreed(list)[n])
           /\ broken' = CannotErase(list, n, [x \in Present |-> released[x].refCount])
    /\ holds' = [holds EXCEPT ![k] = @ - 1]
    /\ UNCHANGED <<waiting, called, filledSlot, misuses>>

\* The destructor, and the constructor of the next instance.  Callbacks that
\* are still queued would never be called: no client waits any more.
destroy ==
    /\ waiting = {}
    /\ cacheMap' = <<>> /\ freeList' = <<>> /\ currentSize' = 0
    /\ holds' = [k \in Keys |-> 0]
    /\ filledSlot' = FALSE /\ misuses' = 0
    /\ UNCHANGED <<waiting, called, broken>>

\* What the reserver of a slot does when its I/O ends.
Answer(k) == cancelReservation(k) \/ \E size \in Sizes : putReserved(k, size)

Operation(k) ==
    \/ \E size \in Sizes : putNew(k, size)
    \/ putOccupied(k)
    \/ getAbsent(k)
    \/ \E c \in Callbacks : getReserved(k, c)
    \/ getOccupied(k)
    \/ reserveNew(k)
    \/ reserveOccupied(k)
    \/ reserveAgain(k)
    \/ Answer(k)
    \/ cancelNothing(k)
    \/ doneWith(k)

\* What a broken program does is undefined, and not followed.
Stopped == broken /\ UNCHANGED vars

Next ==
    \/ ~broken /\ destroy
    \/ ~broken /\ \E k \in Keys : Operation(k)
    \/ Stopped

\* The I/O that a reservation waits for ends, with data or with an error.
Fairness == \A k \in Keys : WF_vars(~broken /\ Answer(k))

SafetySpec == Init /\ [][Next]_vars

Spec == SafetySpec /\ Fairness

-----------------------------------------------------------------------------
(* Properties *)

\* No client has reserved an occupied key.
ProperUse == misuses = 0

\* "The buf will be guaranteed to be valid and in the cache until doneWith is
\* called": an entry's counter is exactly the references clients still hold, so
\* a key that somebody refers to is never evicted, and doneWith's assertions
\* cannot fail for a client that returns what it was given.  (put, get, reserve,
\* doneWith and cleanup, until the program is broken: which takes the reservation of
\* an occupied key, by CallbacksCalledOnce.)
ReferencesProtectEntries ==
    broken \/ \A k \in Keys :
                 holds[k] = IF k \in Present THEN cacheMap[k].refCount ELSE 0

\* The free list holds exactly the entries nobody refers to, each once, and
\* freeListRef says which: cleanup's assertion holds, and no node is removed
\* twice or leads to an entry that is gone or reserved.  (get, doneWith and cleanup,
\* as long as no occupied key has been reserved: put into an entry that was free
\* when it was reserved hands out references and leaves it in the list.)
FreeListIsUnreferenced ==
    ProperUse =>
        /\ IsInjective(freeList)
        /\ Range(freeList) = {k \in Present : cacheMap[k].refCount = 0}
        /\ \A k \in Present : cacheMap[k].freeListRef <=> cacheMap[k].refCount = 0
        /\ \A k \in Range(freeList) : ~cacheMap[k].isReserved

\* Every callback is called at most once, and the program is not broken.  One that
\* get has queued waits at one place of one reserved slot until it is called, and
\* none is called after it was deleted, although put and cancelReservation leave
\* the pointers in the queue.  That is so as long as no occupied key has been
\* reserved: reserve succeeds there, against cache.h, and the next put or
\* cancelReservation calls the deleted callbacks again.
CallbacksCalledOnce ==
    ProperUse =>
        /\ ~broken
        /\ \A c \in Callbacks : called[c] <= 1
        /\ \A c \in waiting :
              \E k \in Present :
                  /\ cacheMap[k].isReserved
                  /\ \A x \in Present \ {k} :
                        cacheMap[x].isReserved => c \notin Range(cacheMap[x].queue)
                  /\ Cardinality({i \in DOMAIN cacheMap[k].queue :
                                      cacheMap[k].queue[i] = c}) = 1

\* A reference has been returned.
Returned == ~broken /\ \E k \in Keys : doneWith(k)

TotalSize == MapThenSumSet(LAMBDA k : cacheMap[k].size, Present)

\* "attempts to free objects from the free list if the quota is reached": after
\* doneWith the data fits the quota, or there is nothing left to free.
QuotaEnforced ==
    [][Returned => (TotalSize' <= sizeQuota \/ freeList' = <<>>)]_vars

\* The same, as long as no reserved slot has been filled.
QuotaEnforcedWithoutReservations ==
    [][(Returned /\ ~filledSlot)
          => (TotalSize' <= sizeQuota \/ freeList' = <<>>)]_vars

\* Every queued callback is called, once the reserver's I/O ends (put and
\* cancelReservation call the whole queue), unless an occupied key is reserved:
\* cleanup may erase such an entry, and nobody calls its queue.
WaiterIsAnswered ==
    \A c \in Callbacks : (c \in waiting) ~> (c \notin waiting \/ ~ProperUse)
=============================================================================
