------------------------ MODULE EventDispatcherProofs ------------------------
(***************************************************************************)
(* Theorems about EventDispatcher, for any number of client threads, tasks *)
(* and groups.                                                             *)
(***************************************************************************)
EXTENDS EventDispatcher, FiniteSetTheorems, TLAPS

(***************************************************************************)
(* Typing                                                                  *)
(***************************************************************************)

\* Where the event loop dereferences nextTask, it is a task.
LoopTyped ==
    /\ loopPc \in {"dispatch", "executing", "pop", "count", "delete"} =>
          nextTask \in Tasks
    /\ loopPc = "pop" => taskQueue # <<>>
    /\ loopPc \in {"dispatch", "executing"} => taskQueue # <<>>
    /\ loopPc = "test" => taskQueue # <<>> \/ isDying

\* Where enqueueTask dereferences newTask, it is a task.
CallsTyped ==
    \A th \in Threads : pc[th] \in {"push", "count"} => newTask[th] \in Tasks

(***************************************************************************)
(* Mutual exclusion: who is inside a critical section holds queueMutex_.    *)
(***************************************************************************)
LockInv ==
    /\ \A th \in Threads : pc[th] # "idle" => queueMutex = th
    /\ loopPc \in {"while", "test", "count"} => queueMutex = Loop
    /\ pc[Loop] # "idle" => loopPc = "executing"

(***************************************************************************)
(* The destructor's two flags                                              *)
(***************************************************************************)
FlagInv ==
    /\ isDying => isStopped
    /\ dtorPc = "stopping" => isStopped /\ stoppedMutex
    /\ dtorPc \in {"joining", "done"} => isDying
    /\ loopPc = "returned" => isDying
    /\ dtorPc = "done" => loopPc = "returned"

CoreInv == TypeOK /\ LoopTyped /\ CallsTyped /\ LockInv /\ FlagInv /\ NoTaskStranded

\* The constructor establishes the core invariant.
LEMMA CoreInit == Init => CoreInv
<1> SUFFICES ASSUME Init PROVE CoreInv
  OBVIOUS
<1> USE LoopAssumption, NoThreadAssumption, NoTaskAssumption DEF Init, Threads
<1>1. TypeOK
  <2>1. taskQueue \in Seq(Tasks)
    OBVIOUS
  <2>2. taskCount \in [Groups -> Int]
    OBVIOUS
  <2>3. pc \in [Threads -> {"idle", "test", "push", "count"}]
    OBVIOUS
  <2>4. newTask \in [Threads -> Tasks \cup {NoTask}]
    OBVIOUS
  <2>5. /\ heap \in [Tasks -> {"live", "freed"}]
        /\ outcome \in [Tasks -> {"new", "accepted", "executed", "discarded"}]
    OBVIOUS
  <2>6. QED
    BY <2>1, <2>2, <2>3, <2>4, <2>5 DEF TypeOK, LoopLocations
<1>2. LoopTyped /\ CallsTyped /\ LockInv
  BY DEF LoopTyped, CallsTyped, LockInv
<1>3. FlagInv /\ NoTaskStranded
  BY DEF FlagInv, NoTaskStranded
<1>4. QED
  BY <1>1, <1>2, <1>3 DEF CoreInv

\* Every step of a caller, the loop or the destructor preserves it: the mutex
\* owner and the locations stay in agreement, and the flags only move from open
\* to stopped to dying once the destructor has begun.
LEMMA CoreStep == CoreInv /\ [Next]_vars => CoreInv'
<1> SUFFICES ASSUME CoreInv, [Next]_vars PROVE CoreInv'
  OBVIOUS
<1> USE LoopAssumption, NoThreadAssumption, NoTaskAssumption, IdAssumption
    DEF CoreInv, TypeOK, LoopTyped, CallsTyped, LockInv, FlagInv, NoTaskStranded,
        queueVars, flagVars, callVars, loopVars, taskVars, LoopLocations, Threads
<1>1. ASSUME NEW th \in Threads, NEW t \in Tasks \cup {NoTask}, EnqueueLock(th, t)
      PROVE  CoreInv'
  BY <1>1 DEF EnqueueLock, MayCall
<1>2. ASSUME NEW th \in Threads, EnqueueAccept(th)
      PROVE  CoreInv'
  BY <1>2 DEF EnqueueAccept
<1>3. ASSUME NEW th \in Threads, EnqueueRefuse(th)
      PROVE  CoreInv'
  BY <1>3 DEF EnqueueRefuse, EnqueueReturn
<1>4. ASSUME NEW th \in Threads, EnqueueNull(th)
      PROVE  CoreInv'
  BY <1>4 DEF EnqueueNull, EnqueueReturn
<1>5. ASSUME NEW th \in Threads, EnqueuePush(th)
      PROVE  CoreInv'
  BY <1>5 DEF EnqueuePush
<1>6. ASSUME NEW th \in Threads, EnqueueCount(th)
      PROVE  CoreInv'
  BY <1>6 DEF EnqueueCount, EnqueueReturn, SignalNewTask
<1>7. CASE Stop
  BY <1>7 DEF Stop
<1>8. CASE Resume
  BY <1>8 DEF Resume
<1>9. CASE DtorSetStopped
  BY <1>9 DEF DtorSetStopped
<1>10. CASE DtorSetDying
  <2>1. TypeOK' /\ LoopTyped' /\ CallsTyped' /\ LockInv' /\ NoTaskStranded'
    BY <1>10 DEF DtorSetDying
  <2>2. isDying' = TRUE /\ isStopped' = isStopped /\ isStopped = TRUE
    BY <1>10 DEF DtorSetDying
  <2>3. dtorPc' = "joining" /\ dtorPc' # "stopping" /\ dtorPc' # "done"
    BY <1>10 DEF DtorSetDying
  <2>4. FlagInv'
    BY <2>2, <2>3
  <2>5. QED
    BY <2>1, <2>4
<1>11. CASE DtorJoin
  BY <1>11 DEF DtorJoin
<1>12. CASE LoopLock
  BY <1>12 DEF LoopLock
<1>13. CASE LoopWait
  BY <1>13 DEF LoopWait
<1>14. CASE LoopLeaveWhile
  BY <1>14 DEF LoopLeaveWhile
<1>15. CASE LoopTimeout
  BY <1>15 DEF LoopTimeout
<1>16. CASE LoopReacquire
  BY <1>16 DEF LoopReacquire
<1>17. CASE LoopReturn
  BY <1>17 DEF LoopReturn
<1>18. CASE LoopFront
  BY <1>18 DEF LoopFront
<1>19. CASE LoopExecute
  BY <1>19 DEF LoopExecute
<1>20. CASE LoopSkip
  BY <1>20 DEF LoopSkip
<1>21. CASE LoopTaskReturns
  BY <1>21 DEF LoopTaskReturns
<1>22. CASE LoopPop
  <2>1. Tail(taskQueue) \in Seq(Tasks)
    BY <1>22 DEF LoopPop
  <2>2. QED
    BY <1>22, <2>1 DEF LoopPop
<1>23. CASE LoopCount
  BY <1>23 DEF LoopCount
<1>24. CASE LoopDelete
  BY <1>24 DEF LoopDelete
<1>25. CASE UNCHANGED vars
  BY <1>25 DEF vars
<1>26. QED
  BY <1>1, <1>2, <1>3, <1>4, <1>5, <1>6, <1>7, <1>8, <1>9, <1>10, <1>11, <1>12,
     <1>13, <1>14, <1>15, <1>16, <1>17, <1>18, <1>19, <1>20, <1>21, <1>22,
     <1>23, <1>24, <1>25
  DEF Next, EnqueueStep, LoopStep, Gone

(***************************************************************************)
(* The queue as a set of distinct tasks                                    *)
(***************************************************************************)

\* push() adds the task to the elements of the queue and keeps them distinct.
LEMMA AppendElement ==
  ASSUME NEW S, NEW q \in Seq(S), NEW x \in S, IsInjective(q), x \notin Range(q)
  PROVE  /\ Range(Append(q, x)) = Range(q) \cup {x}
         /\ IsInjective(Append(q, x))
         /\ q # <<>> => Head(Append(q, x)) = Head(q)
         /\ Append(q, x) # <<>>
<1>1. /\ Len(q) \in Nat /\ DOMAIN q = 1 .. Len(q)
      /\ DOMAIN Append(q, x) = 1 .. (Len(q) + 1)
      /\ \A i \in 1 .. Len(q) : Append(q, x)[i] = q[i]
      /\ Append(q, x)[Len(q) + 1] = x
  OBVIOUS
<1>2. Range(Append(q, x)) \subseteq Range(q) \cup {x}
  BY <1>1 DEF Range
<1>3. Range(q) \cup {x} \subseteq Range(Append(q, x))
  BY <1>1 DEF Range
<1>4. IsInjective(Append(q, x))
  BY <1>1 DEF Range, IsInjective
<1>5. q # <<>> => Head(Append(q, x)) = Head(q)
  OBVIOUS
<1>6. Append(q, x) # <<>>
  BY <1>1
<1>7. QED
  BY <1>2, <1>3, <1>4, <1>5, <1>6

\* pop() removes exactly the front.
LEMMA TailElements ==
  ASSUME NEW S, NEW q \in Seq(S), q # <<>>, IsInjective(q)
  PROVE  /\ Range(Tail(q)) = Range(q) \ {Head(q)}
         /\ IsInjective(Tail(q))
         /\ Head(q) \in Range(q)
<1>1. /\ Len(q) \in Nat /\ Len(q) > 0 /\ DOMAIN q = 1 .. Len(q)
      /\ Len(Tail(q)) = Len(q) - 1
      /\ DOMAIN Tail(q) = 1 .. (Len(q) - 1)
      /\ \A i \in 1 .. (Len(q) - 1) : Tail(q)[i] = q[i + 1]
      /\ Head(q) = q[1]
  OBVIOUS
<1>2. Range(Tail(q)) \subseteq Range(q) \ {Head(q)}
  BY <1>1 DEF Range, IsInjective
<1>3. ASSUME NEW x \in Range(q) \ {Head(q)} PROVE x \in Range(Tail(q))
  <2>1. PICK i \in 1 .. Len(q) : x = q[i]
    BY <1>1 DEF Range
  <2>2. i - 1 \in 1 .. (Len(q) - 1) /\ Tail(q)[i - 1] = x
    BY <1>1, <2>1
  <2>3. QED
    BY <1>1, <2>2 DEF Range
<1>4. IsInjective(Tail(q))
  BY <1>1 DEF IsInjective
<1>5. Head(q) \in Range(q)
  BY <1>1 DEF Range
<1>6. QED
  BY <1>2, <1>3, <1>4, <1>5

(***************************************************************************)
(* Where a task is, in each stage of its life                              *)
(***************************************************************************)

\* The local variable of the loop and the head of the queue.
FrontInv ==
    /\ isExecuting <=> loopPc \in {"dispatch", "executing", "pop"}
    /\ loopPc \in {"dispatch", "executing", "pop"} => nextTask = Head(taskQueue)
    /\ loopPc \notin {"dispatch", "executing", "pop", "count", "delete"} =>
          nextTask = NoTask

\* The arguments of the calls in progress.
CallInv ==
    \A th \in Threads :
        /\ pc[th] = "idle" => newTask[th] = NoTask
        /\ pc[th] = "test" /\ newTask[th] # NoTask => outcome[newTask[th]] = "new"
        /\ pc[th] = "push" => /\ outcome[newTask[th]] = "accepted"
                              /\ newTask[th] \notin Range(taskQueue)
                              /\ newTask[th] # nextTask
        /\ pc[th] = "count" => /\ newTask[th] \in Range(taskQueue)
                               /\ newTask[th] # nextTask

Pushing(t) == \E th \in Threads : pc[th] = "push" /\ newTask[th] = t

TaskInv ==
    /\ IsInjective(taskQueue)
    /\ \A t \in Tasks :
          /\ outcome[t] = "new" =>
                heap[t] = "live" /\ t \notin Range(taskQueue) /\ t # nextTask
          /\ outcome[t] = "accepted" =>
                heap[t] = "live" /\ (t \in Range(taskQueue) \/ Pushing(t))
          /\ t \in Range(taskQueue) =>
                /\ heap[t] = "live"
                /\ outcome[t] = "accepted" \/ (t = nextTask /\ loopPc = "pop")
          /\ heap[t] = "live" /\ outcome[t] \in {"executed", "discarded"} =>
                t = nextTask /\ loopPc \in {"pop", "count", "delete"}
    /\ loopPc \in {"pop", "count", "delete"} =>
          heap[nextTask] = "live" /\ outcome[nextTask] \in {"executed", "discarded"}
    /\ loopPc \in {"count", "delete"} => nextTask \notin Range(taskQueue)

DataInv == FrontInv /\ CallInv /\ TaskInv /\ NoLostWakeup

\* The constructor establishes the facts about queue, running task and memory.
LEMMA DataInit == Init => DataInv
<1> SUFFICES ASSUME Init PROVE DataInv
  OBVIOUS
<1> USE NoTaskAssumption DEF Init
<1>1. Range(taskQueue) = {} /\ IsInjective(taskQueue)
  BY DEF Range, IsInjective
<1>2. FrontInv /\ CallInv /\ NoLostWakeup
  BY DEF FrontInv, CallInv, NoLostWakeup
<1>3. TaskInv
  BY <1>1 DEF TaskInv
<1>4. QED
  BY <1>2, <1>3 DEF DataInv

\* Every step preserves them: a push keeps the head, a pop removes the task
\* that ran, and a task is freed only when nothing refers to it.
LEMMA DataStep == CoreInv /\ DataInv /\ [Next]_vars => DataInv'
<1> SUFFICES ASSUME CoreInv, DataInv, [Next]_vars PROVE DataInv'
  OBVIOUS
<1> USE LoopAssumption, NoThreadAssumption, NoTaskAssumption
    DEF CoreInv, TypeOK, LoopTyped, CallsTyped, LockInv, DataInv, FrontInv,
        CallInv, TaskInv, Pushing, NoLostWakeup,
        queueVars, flagVars, callVars, loopVars, taskVars, Threads
<1>1. ASSUME NEW th \in Threads, NEW t \in Tasks \cup {NoTask}, EnqueueLock(th, t)
      PROVE  DataInv'
  BY <1>1 DEF EnqueueLock, MayCall, ClientOwns
<1>2. ASSUME NEW th \in Threads, EnqueueAccept(th)
      PROVE  DataInv'
  BY <1>2 DEF EnqueueAccept
<1>3. ASSUME NEW th \in Threads, EnqueueRefuse(th)
      PROVE  DataInv'
  BY <1>3 DEF EnqueueRefuse, EnqueueReturn
<1>4. ASSUME NEW th \in Threads, EnqueueNull(th)
      PROVE  DataInv'
  BY <1>4 DEF EnqueueNull, EnqueueReturn
<1>5. ASSUME NEW th \in Threads, EnqueuePush(th)
      PROVE  DataInv'
  <2>1. /\ Range(taskQueue') = Range(taskQueue) \cup {newTask[th]}
        /\ IsInjective(taskQueue')
        /\ taskQueue # <<>> => Head(taskQueue') = Head(taskQueue)
        /\ taskQueue' # <<>>
    BY <1>5, AppendElement DEF EnqueuePush
  <2>2. QED
    BY <1>5, <2>1 DEF EnqueuePush
<1>6. ASSUME NEW th \in Threads, EnqueueCount(th)
      PROVE  DataInv'
  BY <1>6 DEF EnqueueCount, EnqueueReturn, SignalNewTask
<1>7. CASE Stop
  BY <1>7 DEF Stop
<1>8. CASE Resume
  BY <1>8 DEF Resume
<1>9. CASE DtorSetStopped
  BY <1>9 DEF DtorSetStopped
<1>10. CASE DtorSetDying
  BY <1>10 DEF DtorSetDying
<1>11. CASE DtorJoin
  BY <1>11 DEF DtorJoin
<1>12. CASE LoopLock
  BY <1>12 DEF LoopLock
<1>13. CASE LoopWait
  BY <1>13 DEF LoopWait
<1>14. CASE LoopLeaveWhile
  BY <1>14 DEF LoopLeaveWhile
<1>15. CASE LoopTimeout
  BY <1>15 DEF LoopTimeout
<1>16. CASE LoopReacquire
  BY <1>16 DEF LoopReacquire
<1>17. CASE LoopReturn
  BY <1>17 DEF LoopReturn
<1>18. CASE LoopFront
  <2>1. taskQueue # <<>> /\ Head(taskQueue) \in Range(taskQueue)
    BY <1>18, TailElements DEF LoopFront
  <2>2. QED
    BY <1>18, <2>1 DEF LoopFront
<1>19. CASE LoopExecute
  BY <1>19 DEF LoopExecute
<1>20. CASE LoopSkip
  <2>1. Head(taskQueue) \in Range(taskQueue)
    BY <1>20, TailElements DEF LoopSkip
  <2>2. QED
    BY <1>20, <2>1 DEF LoopSkip
<1>21. CASE LoopTaskReturns
  <2>1. Head(taskQueue) \in Range(taskQueue)
    BY <1>21, TailElements DEF LoopTaskReturns
  <2>2. QED
    BY <1>21, <2>1 DEF LoopTaskReturns
<1>22. CASE LoopPop
  <2>1. /\ Range(taskQueue') = Range(taskQueue) \ {nextTask}
        /\ IsInjective(taskQueue')
    BY <1>22, TailElements DEF LoopPop
  <2>2. QED
    BY <1>22, <2>1 DEF LoopPop
<1>23. CASE LoopCount
  BY <1>23 DEF LoopCount
<1>24. CASE LoopDelete
  BY <1>24 DEF LoopDelete
<1>25. CASE UNCHANGED vars
  BY <1>25 DEF vars
<1>26. QED
  BY <1>1, <1>2, <1>3, <1>4, <1>5, <1>6, <1>7, <1>8, <1>9, <1>10, <1>11, <1>12,
     <1>13, <1>14, <1>15, <1>16, <1>17, <1>18, <1>19, <1>20, <1>21, <1>22,
     <1>23, <1>24, <1>25
  DEF Next, EnqueueStep, LoopStep, Gone

(***************************************************************************)
(* The counters.  Counted holds the tasks whose increment has happened and *)
(* whose decrement has not.                                                *)
(***************************************************************************)
BeingCounted ==
    {t \in Tasks : \E th \in Threads : pc[th] = "count" /\ newTask[th] = t}

Uncounting == IF loopPc = "count" THEN {nextTask} ELSE {}

Counted == (Range(taskQueue) \ BeingCounted) \cup Uncounting

CountedIn(g) == {t \in Counted : id[t] = g}

CountInv ==
    /\ IsFiniteSet(Counted)
    /\ \A g \in Groups : taskCount[g] = Cardinality(CountedIn(g))

\* Adding a task to a finite set of tasks adds one to its group and to no other.
LEMMA CountAdd ==
  ASSUME NEW C \in SUBSET Tasks, IsFiniteSet(C), NEW t \in Tasks, t \notin C,
         NEW g \in Groups
  PROVE  /\ IsFiniteSet(C \cup {t})
         /\ Cardinality({x \in C : id[x] = g}) \in Nat
         /\ Cardinality({x \in C \cup {t} : id[x] = g}) =
               Cardinality({x \in C : id[x] = g}) + (IF id[t] = g THEN 1 ELSE 0)
<1> DEFINE G == {x \in C : id[x] = g}
<1>1. IsFiniteSet(G) /\ Cardinality(G) \in Nat
  BY FS_Subset, FS_CardinalityType
<1>2. IsFiniteSet(C \cup {t})
  BY FS_AddElement
<1>3. CASE id[t] = g
  <2>1. {x \in C \cup {t} : id[x] = g} = G \cup {t} /\ t \notin G
    BY <1>3
  <2>2. QED
    BY <1>1, <1>2, <1>3, <2>1, FS_AddElement
<1>4. CASE id[t] # g
  <2>1. {x \in C \cup {t} : id[x] = g} = G
    BY <1>4
  <2>2. QED
    BY <1>1, <1>2, <1>4, <2>1
<1>5. QED
  BY <1>3, <1>4

\* An empty queue and zero counters agree.
LEMMA CountInit == Init => CountInv
<1> SUFFICES ASSUME Init PROVE CountInv
  OBVIOUS
<1>1. Counted = {}
  BY DEF Init, Counted, Uncounting, Range
<1>2. \A g \in Groups : CountedIn(g) = {}
  BY <1>1 DEF CountedIn
<1>3. QED
  BY <1>1, <1>2, FS_EmptySet DEF CountInv, Init

\* Every step changes a counter exactly when it changes the set of counted
\* tasks of that group.
LEMMA CountStep == CoreInv /\ DataInv /\ CountInv /\ [Next]_vars => CountInv'
<1> SUFFICES ASSUME CoreInv, DataInv, CountInv, [Next]_vars PROVE CountInv'
  OBVIOUS
<1> USE LoopAssumption, NoThreadAssumption, NoTaskAssumption, IdAssumption
    DEF queueVars, flagVars, callVars, loopVars, taskVars, Threads
<1>0. Counted \in SUBSET Tasks
  BY DEF CoreInv, TypeOK, LoopTyped, Counted, Uncounting, Range
<1>1. ASSUME taskCount' = taskCount, Counted' = Counted PROVE CountInv'
  BY <1>1 DEF CountInv, CountedIn
<1>2. ASSUME NEW th \in Threads, EnqueuePush(th)
      PROVE  CountInv'
  <2>1. Range(taskQueue') = Range(taskQueue) \cup {newTask[th]}
    BY <1>2, AppendElement
    DEF EnqueuePush, CoreInv, TypeOK, CallsTyped, DataInv, CallInv, TaskInv
  <2>2. BeingCounted = {} /\ BeingCounted' = {newTask[th]}
    <3>1. pc[th] = "push" /\ newTask[th] \in Tasks /\ newTask' = newTask
      BY <1>2 DEF EnqueuePush, CoreInv, CallsTyped
    <3>2. \A x \in Threads : x # th => pc[x] = "idle"
      BY <3>1 DEF CoreInv, LockInv
    <3>3. pc' = [pc EXCEPT ![th] = "count"] /\ DOMAIN pc = Threads
      BY <1>2 DEF EnqueuePush, CoreInv, TypeOK
    <3>4. BeingCounted = {}
      BY <3>1, <3>2 DEF BeingCounted
    <3>5. \A x \in Threads : pc'[x] = "count" <=> x = th
      BY <3>1, <3>2, <3>3
    <3>6. QED
      BY <3>1, <3>4, <3>5 DEF BeingCounted
  <2>3. Counted' = Counted
    BY <1>2, <2>1, <2>2
    DEF EnqueuePush, Counted, Uncounting, CoreInv, LockInv, DataInv, CallInv
  <2>4. QED
    BY <1>1, <1>2, <2>3 DEF EnqueuePush
<1>3. ASSUME NEW th \in Threads, EnqueueCount(th)
      PROVE  CountInv'
  <2>1. BeingCounted = {newTask[th]} /\ BeingCounted' = {}
    BY <1>3
    DEF EnqueueCount, EnqueueReturn, BeingCounted, CoreInv, TypeOK, LockInv,
        CallsTyped
  <2>2. Uncounting = {} /\ Uncounting' = {}
    BY <1>3
    DEF EnqueueCount, SignalNewTask, Uncounting, CoreInv, LockInv
  <2>3. /\ newTask[th] \in Tasks /\ newTask[th] \notin Counted
        /\ Counted' = Counted \cup {newTask[th]}
    BY <1>3, <2>1, <2>2
    DEF EnqueueCount, Counted, CoreInv, CallsTyped, DataInv, CallInv
  <2>4. ASSUME NEW g \in Groups
        PROVE  taskCount'[g] = Cardinality(CountedIn(g)')
    <3>1. taskCount'[g] = taskCount[g] + (IF id[newTask[th]] = g THEN 1 ELSE 0)
      BY <1>3, <2>3 DEF EnqueueCount, CoreInv, TypeOK
    <3>2. Cardinality(CountedIn(g)') =
             Cardinality(CountedIn(g)) + (IF id[newTask[th]] = g THEN 1 ELSE 0)
      <4>1. CountedIn(g)' = {x \in Counted \cup {newTask[th]} : id[x] = g}
        BY <2>3 DEF CountedIn
      <4>2. IsFiniteSet(Counted)
        BY DEF CountInv
      <4>3. QED
        BY <1>0, <2>3, <4>1, <4>2, CountAdd DEF CountedIn
    <3>3. QED
      BY <3>1, <3>2 DEF CountInv
  <2>5. IsFiniteSet(Counted')
    BY <2>3, FS_AddElement DEF CountInv
  <2>6. QED
    BY <2>4, <2>5 DEF CountInv
<1>4. CASE LoopPop
  <2>1. nextTask \in Range(taskQueue) /\ Range(taskQueue') = Range(taskQueue) \ {nextTask}
    BY <1>4, TailElements
    DEF LoopPop, CoreInv, TypeOK, LoopTyped, DataInv, FrontInv, TaskInv
  <2>2. BeingCounted = {} /\ BeingCounted' = {}
    <3>1. \A th \in Threads : pc[th] = "idle" /\ pc'[th] = "idle"
      BY <1>4 DEF LoopPop, CoreInv, LockInv
    <3>2. QED
      BY <3>1 DEF BeingCounted
  <2>3. Uncounting = {} /\ Uncounting' = {nextTask}
    BY <1>4 DEF LoopPop, Uncounting
  <2>4. Counted' = Counted
    BY <2>1, <2>2, <2>3 DEF Counted
  <2>5. QED
    BY <1>1, <1>4, <2>4 DEF LoopPop
<1>5. CASE LoopCount
  <2>1. BeingCounted' = BeingCounted
    BY <1>5 DEF LoopCount, BeingCounted
  <2>2. Uncounting = {nextTask} /\ Uncounting' = {}
    BY <1>5 DEF LoopCount, Uncounting
  <2>3. /\ nextTask \in Tasks /\ nextTask \notin Counted' /\ nextTask \notin Range(taskQueue)
        /\ Counted = Counted' \cup {nextTask}
    BY <1>5, <2>1, <2>2
    DEF LoopCount, Counted, CoreInv, LoopTyped, DataInv, TaskInv
  <2>4. Counted' = Counted \ {nextTask}
    BY <2>3
  <2>5. IsFiniteSet(Counted') /\ Counted' \in SUBSET Tasks
    BY <1>0, <2>4, FS_RemoveElement DEF CountInv
  <2>6. ASSUME NEW g \in Groups
        PROVE  taskCount'[g] = Cardinality(CountedIn(g)')
    <3>1. taskCount'[g] = taskCount[g] - (IF id[nextTask] = g THEN 1 ELSE 0)
      BY <1>5, <2>3 DEF LoopCount, CoreInv, TypeOK
    <3>2. /\ Cardinality(CountedIn(g)) =
                Cardinality(CountedIn(g)') + (IF id[nextTask] = g THEN 1 ELSE 0)
          /\ Cardinality(CountedIn(g)') \in Nat
      <4>1. /\ CountedIn(g) = {x \in Counted' \cup {nextTask} : id[x] = g}
            /\ CountedIn(g)' = {x \in Counted' : id[x] = g}
        BY <2>3 DEF CountedIn
      <4>2. QED
        BY <2>3, <2>5, <4>1, CountAdd
    <3>3. QED
      BY <3>1, <3>2 DEF CountInv
  <2>7. QED
    BY <2>5, <2>6 DEF CountInv
<1>6. ASSUME NEW th \in Threads,
             \/ \E t \in Tasks \cup {NoTask} : EnqueueLock(th, t)
             \/ EnqueueAccept(th) \/ EnqueueRefuse(th) \/ EnqueueNull(th)
      PROVE  CountInv'
  <2>1. taskCount' = taskCount /\ taskQueue' = taskQueue /\ Uncounting' = Uncounting
    BY <1>6
    DEF EnqueueLock, EnqueueAccept, EnqueueRefuse, EnqueueNull, Uncounting
  <2>2. BeingCounted' = BeingCounted
    BY <1>6
    DEF EnqueueLock, MayCall, EnqueueAccept, EnqueueRefuse, EnqueueNull,
        EnqueueReturn, BeingCounted, CoreInv, TypeOK
  <2>3. QED
    BY <1>1, <2>1, <2>2 DEF Counted
<1>7. CASE \/ Stop \/ Resume \/ DtorSetStopped \/ DtorSetDying \/ DtorJoin
           \/ LoopLock \/ LoopWait \/ LoopLeaveWhile \/ LoopTimeout
           \/ LoopReacquire \/ LoopReturn \/ LoopFront \/ LoopExecute \/ LoopSkip
           \/ LoopTaskReturns \/ LoopDelete \/ UNCHANGED vars
  <2>1. taskCount' = taskCount /\ taskQueue' = taskQueue /\ callVars' = callVars
    BY <1>7
    DEF Stop, Resume, DtorSetStopped, DtorSetDying, DtorJoin, LoopLock, LoopWait,
        LoopLeaveWhile, LoopTimeout, LoopReacquire, LoopReturn, LoopFront,
        LoopExecute, LoopSkip, LoopTaskReturns, LoopDelete, vars
  <2>2. Uncounting' = Uncounting
    BY <1>7
    DEF Stop, Resume, DtorSetStopped, DtorSetDying, DtorJoin, LoopLock, LoopWait,
        LoopLeaveWhile, LoopTimeout, LoopReacquire, LoopReturn, LoopFront,
        LoopExecute, LoopSkip, LoopTaskReturns, LoopDelete, vars, Uncounting
  <2>3. QED
    BY <1>1, <2>1, <2>2 DEF Counted, BeingCounted
<1>8. QED
  BY <1>2, <1>3, <1>4, <1>5, <1>6, <1>7 DEF Next, EnqueueStep, LoopStep, Gone

(***************************************************************************)
(* The inductive invariant and what follows from it                        *)
(***************************************************************************)
IndInv == CoreInv /\ DataInv /\ CountInv

\* The inductive invariant holds in every behaviour of the dispatcher.
LEMMA Invariance == SafetySpec => []IndInv
<1>1. Init => IndInv
  BY CoreInit, DataInit, CountInit DEF IndInv
<1>2. IndInv /\ [Next]_vars => IndInv'
  BY CoreStep, DataStep, CountStep DEF IndInv
<1>3. QED
  BY <1>1, <1>2, PTL DEF SafetySpec

\* Every variable keeps its type; in particular the dispatcher never takes the
\* front of an empty queue and never dereferences a NULL task.
THEOREM TypeCorrect == SafetySpec => []TypeOK
<1>1. IndInv => TypeOK
  BY DEF IndInv, CoreInv
<1>2. QED
  BY <1>1, Invariance, PTL

\* After eventLoop has returned the queue is empty and stays so.
THEOREM LoopLeavesNoTask == SafetySpec => []NoTaskStranded
<1>1. IndInv => NoTaskStranded
  BY DEF IndInv, CoreInv
<1>2. QED
  BY <1>1, Invariance, PTL

\* Between front() and pop() the running task stays at the head, and alive.
THEOREM RunningTaskStaysAtFront == SafetySpec => []FrontIsNextTask
<1>1. IndInv => FrontIsNextTask
  <2> SUFFICES ASSUME IndInv, isExecuting PROVE FrontIsNextTask
    BY DEF FrontIsNextTask
  <2>1. nextTask \in Tasks /\ taskQueue # <<>> /\ nextTask = Head(taskQueue)
    BY DEF IndInv, CoreInv, LoopTyped, DataInv, FrontInv
  <2>2. nextTask \in Range(taskQueue)
    BY <2>1, TailElements DEF IndInv, CoreInv, TypeOK, DataInv, TaskInv
  <2>3. QED
    BY <2>1, <2>2 DEF IndInv, DataInv, TaskInv, FrontIsNextTask
<1>2. QED
  BY <1>1, Invariance, PTL

\* No task is used after it is deleted or deleted twice, and the destructor
\* leaves none behind.
THEOREM MemorySafety == SafetySpec => []TasksFreedOnce
<1>1. IndInv => TasksFreedOnce
  <2> SUFFICES ASSUME IndInv PROVE TasksFreedOnce
    OBVIOUS
  <2> USE NoTaskAssumption
      DEF IndInv, CoreInv, TypeOK, LoopTyped, CallsTyped, LoopLocations, DataInv,
          TaskInv
  <2>1. ASSUME NEW t \in Tasks, heap[t] = "freed"
        PROVE  t \notin Range(taskQueue) /\ outcome[t] \in {"executed", "discarded"}
    BY <2>1
  <2>2. ASSUME NEW t \in Tasks, heap[t] = "freed" PROVE t # nextTask
    <3>1. CASE loopPc \in {"dispatch", "executing", "pop"}
      BY <2>1, <2>2, <3>1, TailElements DEF FrontInv
    <3>2. CASE loopPc \in {"count", "delete"}
      BY <2>2, <3>2
    <3>3. QED
      BY <3>1, <3>2 DEF FrontInv
  <2>3. ASSUME NEW t \in Tasks, heap[t] = "freed", NEW th \in Threads
        PROVE  newTask[th] # t
    BY <2>1, <2>3 DEF CallInv
  <2>4. ASSUME dtorPc = "done", NEW t \in Tasks
        PROVE  heap[t] = "freed" \/ outcome[t] = "new"
    <3>1. loopPc = "returned" /\ Range(taskQueue) = {} /\ ~Pushing(t)
      BY <2>4 DEF FlagInv, NoTaskStranded, Range, Pushing
    <3>2. QED
      BY <3>1
  <2>5. QED
    BY <2>1, <2>2, <2>3, <2>4 DEF TasksFreedOnce
<1>2. QED
  BY <1>1, Invariance, PTL

\* busy() = false means that every accepted task is finished.
THEOREM NotBusyIsFinished == SafetySpec => []NotBusyMeansFinished
<1>1. IndInv => NotBusyMeansFinished
  <2> SUFFICES ASSUME IndInv, queueMutex = NoThread, taskQueue = <<>>,
                      NEW t \in Tasks
               PROVE  outcome[t] # "accepted"
    BY DEF NotBusyMeansFinished, busy
  <2>1. t \notin Range(taskQueue)
    BY DEF Range
  <2>2. ~Pushing(t)
    BY NoThreadAssumption DEF Pushing, IndInv, CoreInv, LockInv
  <2>3. QED
    BY <2>1, <2>2 DEF IndInv, DataInv, TaskInv
<1>2. QED
  BY <1>1, Invariance, PTL

\* The signal of a new task is never lost.
THEOREM WakeupNotLost == SafetySpec => []NoLostWakeup
<1>1. IndInv => NoLostWakeup
  BY DEF IndInv, DataInv
<1>2. QED
  BY <1>1, Invariance, PTL

\* The counters are exact whenever queueMutex_ is free, never off by more than
\* one and never negative: size_t does not wrap around.
THEOREM CountersExact == SafetySpec => []CountsMatchQueue
<1>1. IndInv => CountsMatchQueue
  <2> SUFFICES ASSUME IndInv, NEW g \in Groups
               PROVE  LET n == Cardinality(Queued(g)) IN
                      /\ taskCount[g] >= 0
                      /\ taskCount[g] \in (n - 1) .. (n + 1)
                      /\ queueMutex = NoThread => taskCount[g] = n
    BY DEF CountsMatchQueue
  <2> USE NoThreadAssumption, LoopAssumption, IdAssumption
  <2>0. Counted \in SUBSET Tasks /\ IsFiniteSet(Counted)
    BY DEF IndInv, CoreInv, TypeOK, LoopTyped, CountInv, Counted, Uncounting, Range
  <2>1. CASE loopPc = "count"
    <3>1. BeingCounted = {} /\ queueMutex # NoThread
      BY <2>1 DEF IndInv, CoreInv, LockInv, Threads, BeingCounted
    <3>2. nextTask \in Tasks /\ nextTask \notin Range(taskQueue)
      BY <2>1 DEF IndInv, CoreInv, LoopTyped, DataInv, TaskInv
    <3>3. Counted = Range(taskQueue) \cup {nextTask}
      BY <2>1, <3>1 DEF Counted, Uncounting
    <3>4. Range(taskQueue) = Counted \ {nextTask}
      BY <3>2, <3>3
    <3>5. IsFiniteSet(Range(taskQueue)) /\ Range(taskQueue) \in SUBSET Tasks
      BY <2>0, <3>4, FS_RemoveElement
    <3>6. /\ Cardinality(Queued(g)) \in Nat
          /\ Cardinality(CountedIn(g)) =
                Cardinality(Queued(g)) + (IF id[nextTask] = g THEN 1 ELSE 0)
      BY <3>2, <3>3, <3>5, CountAdd DEF CountedIn, Queued
    <3>7. QED
      BY <3>1, <3>6 DEF IndInv, CountInv
  <2>2. ASSUME loopPc # "count", NEW th \in Threads, pc[th] = "count"
        PROVE  LET n == Cardinality(Queued(g)) IN
               /\ taskCount[g] >= 0
               /\ taskCount[g] \in (n - 1) .. (n + 1)
               /\ queueMutex = NoThread => taskCount[g] = n
    <3>1. /\ queueMutex = th
          /\ newTask[th] \in Tasks /\ newTask[th] \in Range(taskQueue)
          /\ BeingCounted = {newTask[th]}
      BY <2>2
      DEF IndInv, CoreInv, LockInv, CallsTyped, DataInv, CallInv, BeingCounted
    <3>2. /\ newTask[th] \notin Counted
          /\ Range(taskQueue) = Counted \cup {newTask[th]}
      BY <2>2, <3>1 DEF Counted, Uncounting
    <3>3. /\ Cardinality(CountedIn(g)) \in Nat
          /\ Cardinality(Queued(g)) =
                Cardinality(CountedIn(g)) + (IF id[newTask[th]] = g THEN 1 ELSE 0)
      <4>1. Queued(g) = {x \in Counted \cup {newTask[th]} : id[x] = g}
        BY <3>2 DEF Queued
      <4>2. newTask[th] \in Tasks /\ newTask[th] \notin Counted
        BY <3>1, <3>2
      <4>3. /\ Cardinality({x \in Counted : id[x] = g}) \in Nat
            /\ Cardinality({x \in Counted \cup {newTask[th]} : id[x] = g}) =
                  Cardinality({x \in Counted : id[x] = g})
                     + (IF id[newTask[th]] = g THEN 1 ELSE 0)
        BY <2>0, <4>2, CountAdd
      <4>4. QED
        BY <4>1, <4>3 DEF CountedIn
    <3>4. QED
      BY <3>1, <3>3 DEF IndInv, CountInv
  <2>3. CASE loopPc # "count" /\ \A th \in Threads : pc[th] # "count"
    <3>1. Counted = Range(taskQueue)
      BY <2>3 DEF Counted, Uncounting, BeingCounted
    <3>2. CountedIn(g) = Queued(g)
      BY <3>1 DEF CountedIn, Queued
    <3>3. Cardinality(Queued(g)) \in Nat
      BY <2>0, <3>1, FS_Subset, FS_CardinalityType DEF Queued
    <3>4. QED
      BY <3>2, <3>3 DEF IndInv, CountInv
  <2>4. QED
    BY <2>1, <2>2, <2>3
<1>2. QED
  BY <1>1, Invariance, PTL

(***************************************************************************)
(* Refinement                                                              *)
(***************************************************************************)

\* Facts about sequences used by the refinement mapping.
LEMMA ConcatFacts ==
  ASSUME NEW S, NEW q \in Seq(S), NEW x \in S
  PROVE  /\ q \o <<>> = q
         /\ q \o <<x>> = Append(q, x)
         /\ q # <<>> => Tail(Append(q, x)) = Append(Tail(q), x)
         /\ q # <<>> => Head(Append(q, x)) = Head(q)
         /\ Append(q, x) # <<>>
  OBVIOUS

Mode == IF isDying THEN "dying" ELSE IF isStopped THEN "stopped" ELSE "open"

Running == IF loopPc = "executing" THEN nextTask ELSE NoTask

\* While nobody is between the test of isStopped_ and push(), nothing is being
\* pushed; the caller there is unique.
LEMMA BeingPushedCases ==
  ASSUME CoreInv
  PROVE  /\ NotStarted \in Seq(Tasks)
         /\ (\A th \in Threads : pc[th] # "push") => BeingPushed = <<>>
         /\ \A th \in Threads : pc[th] = "push" => BeingPushed = <<newTask[th]>>
         /\ \/ BeingPushed = <<>>
            \/ \E x \in Tasks : BeingPushed = <<x>>
<1> USE NoThreadAssumption DEF CoreInv, TypeOK
<1>1. NotStarted \in Seq(Tasks)
  BY DEF LoopTyped, NotStarted
<1>2. (\A th \in Threads : pc[th] # "push") => BeingPushed = <<>>
  BY DEF BeingPushed
<1>3. \A th \in Threads : pc[th] = "push" => BeingPushed = <<newTask[th]>>
  BY DEF LockInv, BeingPushed
<1>4. \/ BeingPushed = <<>>
      \/ \E x \in Tasks : BeingPushed = <<x>>
  BY <1>2, <1>3 DEF CallsTyped
<1>5. QED
  BY <1>1, <1>2, <1>3, <1>4

\* The first pending task is the front of the queue, and what follows it does
\* not depend on a push in progress.
LEMMA FirstPending ==
  ASSUME CoreInv, taskQueue # <<>>
  PROVE  /\ taskQueue \o BeingPushed # <<>>
         /\ Head(taskQueue \o BeingPushed) = Head(taskQueue)
         /\ Tail(taskQueue \o BeingPushed) = Tail(taskQueue) \o BeingPushed
<1>1. taskQueue \in Seq(Tasks) /\ Tail(taskQueue) \in Seq(Tasks)
  BY DEF CoreInv, TypeOK
<1>2. CASE BeingPushed = <<>>
  BY <1>1, <1>2
<1>3. CASE \E x \in Tasks : BeingPushed = <<x>>
  <2>1. PICK x \in Tasks : BeingPushed = <<x>>
    BY <1>3
  <2>2. QED
    BY <1>1, <2>1, ConcatFacts
<1>4. QED
  BY <1>2, <1>3, BeingPushedCases

\* A new dispatcher is an open executor with nothing to do.
LEMMA ExecutorInit == Init => Executor!Init
<1> SUFFICES ASSUME Init PROVE Executor!Init
  OBVIOUS
<1>1. NotStarted = <<>> /\ BeingPushed = <<>>
  BY DEF Init, NotStarted, BeingPushed
<1>2. NotStarted \o BeingPushed = <<>>
  BY <1>1
<1>3. QED
  BY <1>2 DEF Init, Executor!Init

\* A step that changes none of these is invisible to a client.
LEMMA Invisible ==
  ASSUME NotStarted' = NotStarted, BeingPushed' = BeingPushed,
         Running' = Running, outcome' = outcome, Mode' = Mode
  PROVE  UNCHANGED Executor!vars
  BY DEF Executor!vars, Running, Mode

\* Every step of the dispatcher is a step of the executor or does not change
\* what its clients see.
LEMMA ExecutorStep == IndInv /\ [Next]_vars => [Executor!Next]_(Executor!vars)
<1> SUFFICES ASSUME IndInv, [Next]_vars
             PROVE  Executor!Next \/ UNCHANGED Executor!vars
  OBVIOUS
<1> USE LoopAssumption, NoThreadAssumption, NoTaskAssumption
    DEF queueVars, flagVars, callVars, loopVars, taskVars
<1>0. CoreInv /\ Loop \in Threads
  BY DEF IndInv, Threads
<1>1. ASSUME NEW th \in Threads, NEW t \in Tasks \cup {NoTask}, EnqueueLock(th, t)
      PROVE  UNCHANGED Executor!vars
  <2>1. BeingPushed' = BeingPushed
    BY <1>0, <1>1 DEF EnqueueLock, BeingPushed, CoreInv, TypeOK
  <2>2. QED
    BY <1>1, <2>1, Invisible DEF EnqueueLock, NotStarted, Running, Mode
<1>2. ASSUME NEW th \in Threads, EnqueueAccept(th)
      PROVE  Executor!Submit(newTask[th]) /\ newTask[th] \in Tasks
  <2>1. newTask[th] \in Tasks /\ outcome[newTask[th]] = "new" /\ queueMutex = th
    BY <1>0, <1>2
    DEF EnqueueAccept, IndInv, CoreInv, TypeOK, LockInv, DataInv, CallInv
  <2>2. BeingPushed = <<>> /\ BeingPushed' = <<newTask[th]>>
    BY <1>0, <1>2, <2>1 DEF EnqueueAccept, BeingPushed, CoreInv, TypeOK
  <2>3. NotStarted' = NotStarted /\ NotStarted \in Seq(Tasks)
    BY <1>0, <1>2, BeingPushedCases DEF EnqueueAccept, NotStarted
  <2>4. (NotStarted \o BeingPushed)' = Append(NotStarted \o BeingPushed, newTask[th])
    BY <2>1, <2>2, <2>3, ConcatFacts
  <2>5. ~isDying /\ ~isStopped
    BY <1>0, <1>2 DEF EnqueueAccept, CoreInv, FlagInv
  <2>6. QED
    BY <1>2, <2>1, <2>4, <2>5 DEF EnqueueAccept, Executor!Submit
<1>3. ASSUME NEW th \in Threads, EnqueueRefuse(th)
      PROVE  Executor!Refuse(newTask[th]) /\ newTask[th] \in Tasks
  <2>1. newTask[th] \in Tasks /\ outcome[newTask[th]] = "new" /\ queueMutex = th
    BY <1>0, <1>3
    DEF EnqueueRefuse, IndInv, CoreInv, TypeOK, LockInv, DataInv, CallInv
  <2>2. NotStarted' = NotStarted /\ BeingPushed' = BeingPushed
    BY <1>3, <2>1 DEF EnqueueRefuse, EnqueueReturn, NotStarted, BeingPushed
  <2>3. QED
    BY <1>3, <2>1, <2>2 DEF EnqueueRefuse, Executor!Refuse
<1>4. ASSUME NEW th \in Threads, EnqueueNull(th)
      PROVE  UNCHANGED Executor!vars
  <2>1. BeingPushed' = BeingPushed
    BY <1>0, <1>4
    DEF EnqueueNull, EnqueueReturn, BeingPushed, CoreInv, LockInv
  <2>2. QED
    BY <1>4, <2>1, Invisible DEF EnqueueNull, NotStarted, Running, Mode
<1>5. ASSUME NEW th \in Threads, EnqueuePush(th)
      PROVE  UNCHANGED Executor!vars
  <2>1. queueMutex = th /\ newTask[th] \in Tasks /\ taskQueue \in Seq(Tasks)
    BY <1>0, <1>5 DEF EnqueuePush, CoreInv, TypeOK, CallsTyped, LockInv
  <2>2. BeingPushed = <<newTask[th]>> /\ BeingPushed' = <<>>
    BY <1>0, <1>5, <2>1 DEF EnqueuePush, BeingPushed, CoreInv, TypeOK
  <2>3. NotStarted' = Append(NotStarted, newTask[th])
    BY <1>0, <1>5, <2>1, ConcatFacts
    DEF EnqueuePush, NotStarted, CoreInv, LoopTyped
  <2>4. (NotStarted \o BeingPushed)' = NotStarted \o BeingPushed
    <3>1. NotStarted \in Seq(Tasks) /\ Append(NotStarted, newTask[th]) \in Seq(Tasks)
      BY <1>0, <2>1, BeingPushedCases
    <3>2. QED
      BY <2>1, <2>2, <2>3, <3>1, ConcatFacts
  <2>5. QED
    BY <1>5, <2>4 DEF EnqueuePush, Executor!vars
<1>6. ASSUME NEW th \in Threads, EnqueueCount(th)
      PROVE  UNCHANGED Executor!vars
  <2>1. BeingPushed' = BeingPushed
    BY <1>0, <1>6
    DEF EnqueueCount, EnqueueReturn, BeingPushed, CoreInv, LockInv
  <2>2. QED
    BY <1>6, <2>1, Invisible
    DEF EnqueueCount, SignalNewTask, NotStarted, Running, Mode
<1>7. CASE Stop
  <2>1. NotStarted' = NotStarted /\ BeingPushed' = BeingPushed
    BY <1>7 DEF Stop, NotStarted, BeingPushed
  <2>2. CASE ~isStopped /\ ~isDying
    BY <1>7, <2>1, <2>2 DEF Stop, Executor!Next, Executor!Stop
  <2>3. CASE isStopped \/ isDying
    BY <1>7, <2>1, <2>3, Invisible DEF Stop, Running, Mode
  <2>4. QED
    BY <2>2, <2>3
<1>8. CASE Resume
  <2>1. NotStarted' = NotStarted /\ BeingPushed' = BeingPushed
    BY <1>8 DEF Resume, NotStarted, BeingPushed
  <2>2. CASE isStopped /\ ~isDying
    BY <1>8, <2>1, <2>2 DEF Resume, Executor!Next, Executor!Resume
  <2>3. CASE ~isStopped \/ isDying
    BY <1>0, <1>8, <2>1, <2>3, Invisible DEF Resume, Running, Mode, CoreInv, FlagInv
  <2>4. QED
    BY <2>2, <2>3
<1>9. CASE DtorSetStopped
  <2>1. NotStarted' = NotStarted /\ BeingPushed' = BeingPushed
    BY <1>9 DEF DtorSetStopped, NotStarted, BeingPushed
  <2>2. CASE ~isStopped /\ ~isDying
    BY <1>9, <2>1, <2>2 DEF DtorSetStopped, Executor!Next, Executor!Stop
  <2>3. CASE isStopped \/ isDying
    BY <1>9, <2>1, <2>3, Invisible DEF DtorSetStopped, Running, Mode
  <2>4. QED
    BY <2>2, <2>3
<1>10. CASE DtorSetDying
  <2>1. NotStarted' = NotStarted /\ BeingPushed' = BeingPushed
    BY <1>10 DEF DtorSetDying, NotStarted, BeingPushed
  <2>2. CASE ~isDying
    BY <1>0, <1>10, <2>1, <2>2
    DEF DtorSetDying, Executor!Next, Executor!Kill, CoreInv, FlagInv
  <2>3. CASE isDying
    BY <1>10, <2>1, <2>3, Invisible DEF DtorSetDying, Running, Mode
  <2>4. QED
    BY <2>2, <2>3
<1>11. CASE LoopExecute
  <2>1. /\ taskQueue # <<>> /\ nextTask = Head(taskQueue) /\ nextTask \in Tasks
        /\ NotStarted = taskQueue /\ NotStarted' = Tail(taskQueue)
        /\ BeingPushed' = BeingPushed
    BY <1>0, <1>11
    DEF LoopExecute, IndInv, CoreInv, LoopTyped, DataInv, FrontInv, NotStarted,
        BeingPushed
  <2>2. Executor!Begin
    BY <1>0, <1>11, <2>1, FirstPending DEF LoopExecute, Executor!Begin
  <2>3. QED
    BY <2>2 DEF Executor!Next
<1>12. CASE LoopSkip
  <2>1. /\ taskQueue # <<>> /\ nextTask = Head(taskQueue)
        /\ NotStarted = taskQueue /\ NotStarted' = Tail(taskQueue)
        /\ BeingPushed' = BeingPushed
    BY <1>0, <1>12
    DEF LoopSkip, IndInv, CoreInv, LoopTyped, DataInv, FrontInv, NotStarted,
        BeingPushed
  <2>2. Executor!Drop
    BY <1>0, <1>12, <2>1, FirstPending DEF LoopSkip, Executor!Drop
  <2>3. QED
    BY <2>2 DEF Executor!Next
<1>13. CASE LoopTaskReturns
  <2>1. /\ NotStarted' = NotStarted /\ BeingPushed' = BeingPushed
        /\ nextTask \in Tasks
    BY <1>0, <1>13
    DEF LoopTaskReturns, NotStarted, BeingPushed, CoreInv, LoopTyped
  <2>2. Executor!End
    BY <1>13, <2>1 DEF LoopTaskReturns, Executor!End
  <2>3. QED
    BY <2>2 DEF Executor!Next
<1>14. CASE LoopPop
  <2>1. NotStarted' = NotStarted
    BY <1>14 DEF LoopPop, NotStarted
  <2>2. BeingPushed' = BeingPushed
    BY <1>0, <1>14 DEF LoopPop, BeingPushed, CoreInv, LockInv
  <2>3. QED
    BY <1>14, <2>1, <2>2, Invisible DEF LoopPop, Running, Mode
<1>15. CASE LoopLock \/ LoopReacquire
  <2>1. BeingPushed' = BeingPushed
    BY <1>0, <1>15 DEF LoopLock, LoopReacquire, BeingPushed, CoreInv, LockInv
  <2>2. QED
    BY <1>15, <2>1, Invisible DEF LoopLock, LoopReacquire, NotStarted, Running, Mode
<1>16. CASE LoopWait \/ LoopReturn \/ LoopFront \/ LoopCount
  <2>1. BeingPushed' = BeingPushed
    BY <1>0, <1>16
    DEF LoopWait, LoopReturn, LoopFront, LoopCount, BeingPushed, CoreInv, LockInv
  <2>2. QED
    BY <1>16, <2>1, Invisible
    DEF LoopWait, LoopReturn, LoopFront, LoopCount, NotStarted, Running, Mode
<1>17. CASE LoopLeaveWhile \/ LoopTimeout \/ LoopDelete \/ DtorJoin \/ UNCHANGED vars
  BY <1>17, Invisible
  DEF LoopLeaveWhile, LoopTimeout, LoopDelete, DtorJoin, vars, NotStarted,
      BeingPushed, Running, Mode
<1>18. QED
  BY <1>1, <1>2, <1>3, <1>4, <1>5, <1>6, <1>7, <1>8, <1>9, <1>10, <1>11, <1>12,
     <1>13, <1>14, <1>15, <1>16, <1>17
  DEF Next, EnqueueStep, LoopStep, Gone, Executor!Next

\* The dispatcher, threads, locks and all, behaves as the serial executor.
THEOREM Implementation == SafetySpec => ImplementsExecutor
<1>1. QED
  BY ExecutorInit, ExecutorStep, Invariance, PTL
  DEF SafetySpec, ImplementsExecutor, Executor!Spec
=============================================================================
