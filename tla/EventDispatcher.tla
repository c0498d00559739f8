--------------------------- MODULE EventDispatcher ---------------------------
(***************************************************************************)
(* lib/event_dispatcher.cc: a task queue served by one event loop thread.  *)
(*                                                                         *)
(* A step is what one thread does between two points at which another      *)
(* thread could observe or change something it uses:  queueMutex_ and      *)
(* stoppedMutex_ are modelled by their owner, the critical sections of     *)
(* taskCountMutex_ are single accesses and so single steps.  isStopped_    *)
(* and isDying_ are read without stoppedMutex_, so each read and each of   *)
(* the destructor's two writes is a step of its own.                       *)
(***************************************************************************)
EXTENDS Integers, Sequences, FiniteSets, Functions

CONSTANTS
    Tasks,      \* the UnitTask objects that clients allocate
    Groups,     \* the TaskGroupIDs
    id,         \* UnitTask::id, the group of each task
    Callers,    \* client threads
    Loop,       \* the event loop thread
    NoThread,   \* "the mutex is free"
    NoTask      \* a NULL UnitTask pointer

ASSUME IdAssumption == id \in [Tasks -> Groups]

ASSUME LoopAssumption == Loop \notin Callers

Threads == Callers \cup {Loop}

ASSUME NoThreadAssumption == NoThread \notin Threads

ASSUME NoTaskAssumption == NoTask \notin Tasks

VARIABLES
    taskQueue,      \* std::queue<UnitTask *>, guarded by queueMutex_
    taskCount,      \* TaskCountMap, guarded by taskCountMutex_
    isExecuting,
    isStopped,
    isDying,
    queueMutex,     \* the thread that holds queueMutex_, or NoThread
    stoppedMutex,   \* TRUE while the destructor holds stoppedMutex_
    pc,             \* where each thread is in its call of enqueueTask
    newTask,        \* the argument of that call
    loopPc,         \* where the event loop is
    nextTask,       \* its local variable
    dtorPc,         \* where the destructor is
    heap,           \* "live" or "freed" for every task
    outcome         \* history: what has become of every task

queueVars == <<taskQueue, taskCount, isExecuting>>
flagVars == <<isStopped, isDying, stoppedMutex>>
callVars == <<pc, newTask>>
loopVars == <<loopPc, nextTask>>
taskVars == <<heap, outcome>>
vars == <<queueVars, flagVars, queueMutex, callVars, loopVars, dtorPc, taskVars>>

LoopLocations ==
    {"top", "while", "waiting", "reacquire", "test", "dispatch", "executing",
     "pop", "count", "delete", "returned"}

TypeOK ==
    /\ taskQueue \in Seq(Tasks)
    /\ taskCount \in [Groups -> Int]
    /\ isExecuting \in BOOLEAN
    /\ isStopped \in BOOLEAN
    /\ isDying \in BOOLEAN
    /\ queueMutex \in Threads \cup {NoThread}
    /\ stoppedMutex \in BOOLEAN
    /\ pc \in [Threads -> {"idle", "test", "push", "count"}]
    /\ newTask \in [Threads -> Tasks \cup {NoTask}]
    /\ loopPc \in LoopLocations
    /\ nextTask \in Tasks \cup {NoTask}
    /\ dtorPc \in {"none", "stopping", "joining", "done"}
    /\ heap \in [Tasks -> {"live", "freed"}]
    /\ outcome \in [Tasks -> {"new", "accepted", "executed", "discarded"}]

\* The constructor.  Clients own all tasks; the loop thread has been started.
Init ==
    /\ taskQueue = <<>>
    /\ taskCount = [g \in Groups |-> 0]
    /\ isExecuting = FALSE
    /\ isStopped = FALSE
    /\ isDying = FALSE
    /\ queueMutex = NoThread
    /\ stoppedMutex = FALSE
    /\ pc = [th \in Threads |-> "idle"]
    /\ newTask = [th \in Threads |-> NoTask]
    /\ loopPc = "top"
    /\ nextTask = NoTask
    /\ dtorPc = "none"
    /\ heap = [t \in Tasks |-> "live"]
    /\ outcome = [t \in Tasks |-> "new"]

-----------------------------------------------------------------------------
(* enqueueTask *)

\* A client owns the tasks it has not handed over yet.
ClientOwns(t) == outcome[t] = "new" /\ \A th \in Threads : newTask[th] # t

\* Who may call: a client thread until the object is gone, and the event
\* loop's own thread from inside a task.
MayCall(th) ==
    /\ pc[th] = "idle"
    /\ IF th = Loop THEN loopPc = "executing" ELSE dtorPc # "done"

EnqueueLock(th, t) ==
    /\ MayCall(th)
    /\ t # NoTask => ClientOwns(t)
    /\ queueMutex = NoThread
    /\ queueMutex' = th
    /\ pc' = [pc EXCEPT ![th] = "test"]
    /\ newTask' = [newTask EXCEPT ![th] = t]
    /\ UNCHANGED <<queueVars, flagVars, loopVars, dtorPc, taskVars>>

\* The call ends (it returns true on every path); ScopedLock releases the mutex.
EnqueueReturn(th) ==
    /\ queueMutex' = NoThread
    /\ pc' = [pc EXCEPT ![th] = "idle"]
    /\ newTask' = [newTask EXCEPT ![th] = NoTask]

\* Mutant: the test of newTask against NULL is missing.
EnqueueAcceptsNull(th) ==
    /\ pc[th] = "test"
    /\ ~isStopped
    /\ pc' = [pc EXCEPT ![th] = "push"]
    /\ outcome' = [outcome EXCEPT ![newTask[th]] = "accepted"]
    /\ UNCHANGED <<queueVars, flagVars, queueMutex, newTask, loopVars, dtorPc,
                   heap>>

EnqueueAccept(th) ==
    /\ pc[th] = "test"
    /\ ~isStopped /\ newTask[th] # NoTask
    /\ pc' = [pc EXCEPT ![th] = "push"]
    /\ outcome' = [outcome EXCEPT ![newTask[th]] = "accepted"]
    /\ UNCHANGED <<queueVars, flagVars, queueMutex, newTask, loopVars, dtorPc,
                   heap>>

\* Mutant: a refused task is not deleted.
EnqueueRefuseLeaks(th) ==
    /\ pc[th] = "test"
    /\ isStopped /\ newTask[th] # NoTask
    /\ outcome' = [outcome EXCEPT ![newTask[th]] = "discarded"]
    /\ EnqueueReturn(th)
    /\ UNCHANGED <<queueVars, flagVars, loopVars, dtorPc, heap>>

EnqueueRefuse(th) ==
    /\ pc[th] = "test"
    /\ isStopped /\ newTask[th] # NoTask
    /\ heap' = [heap EXCEPT ![newTask[th]] = "freed"]
    /\ outcome' = [outcome EXCEPT ![newTask[th]] = "discarded"]
    /\ EnqueueReturn(th)
    /\ UNCHANGED <<queueVars, flagVars, loopVars, dtorPc>>

EnqueueNull(th) ==
    /\ pc[th] = "test"
    /\ newTask[th] = NoTask
    /\ EnqueueReturn(th)
    /\ UNCHANGED <<queueVars, flagVars, loopVars, dtorPc, heap, outcome>>

EnqueuePush(th) ==
    /\ pc[th] = "push"
    /\ taskQueue' = Append(taskQueue, newTask[th])
    /\ pc' = [pc EXCEPT ![th] = "count"]
    /\ UNCHANGED <<taskCount, isExecuting, flagVars, queueMutex, newTask,
                   loopVars, dtorPc, taskVars>>

\* Mutant: enqueueTask does not signal.
NoSignal == loopPc' = loopPc

\* newTaskCond_.signal() wakes the loop if it sleeps and is lost otherwise.
SignalNewTask == loopPc' = IF loopPc = "waiting" THEN "reacquire" ELSE loopPc

EnqueueCount(th) ==
    /\ pc[th] = "count"
    /\ taskCount' = [taskCount EXCEPT ![id[newTask[th]]] = @ + 1]
    /\ SignalNewTask
    /\ EnqueueReturn(th)
    /\ UNCHANGED <<taskQueue, isExecuting, flagVars, nextTask, dtorPc,
                   heap, outcome>>

EnqueueStep(th) ==
    \/ EnqueueAccept(th) \/ EnqueueRefuse(th) \/ EnqueueNull(th)
    \/ EnqueuePush(th) \/ EnqueueCount(th)

-----------------------------------------------------------------------------
(* stop, resume and the destructor.  Any thread may stop or resume; the body *)
(* of each is one access under stoppedMutex_.                                *)

Stop ==
    /\ dtorPc # "done"
    /\ ~stoppedMutex
    /\ isStopped' = TRUE
    /\ UNCHANGED <<queueVars, isDying, stoppedMutex, queueMutex, callVars,
                   loopVars, dtorPc, taskVars>>

\* Mutant: resume ignores isDying_.
ResumeAlways ==
    /\ dtorPc # "done"
    /\ ~stoppedMutex
    /\ isStopped' = FALSE
    /\ UNCHANGED <<queueVars, isDying, stoppedMutex, queueMutex, callVars,
                   loopVars, dtorPc, taskVars>>

Resume ==
    /\ dtorPc # "done"
    /\ ~stoppedMutex
    /\ isStopped' = (isStopped /\ isDying)
    /\ UNCHANGED <<queueVars, isDying, stoppedMutex, queueMutex, callVars,
                   loopVars, dtorPc, taskVars>>

\* Mutant: the destructor does not refuse new tasks.
DtorDoesNotStop ==
    /\ dtorPc = "none"
    /\ ~stoppedMutex
    /\ stoppedMutex' = TRUE
    /\ dtorPc' = "stopping"
    /\ UNCHANGED <<queueVars, isStopped, isDying, queueMutex, callVars, loopVars,
                   taskVars>>

DtorSetStopped ==
    /\ dtorPc = "none"
    /\ ~stoppedMutex
    /\ stoppedMutex' = TRUE
    /\ isStopped' = TRUE
    /\ dtorPc' = "stopping"
    /\ UNCHANGED <<queueVars, isDying, queueMutex, callVars, loopVars, taskVars>>

DtorSetDying ==
    /\ dtorPc = "stopping"
    /\ isDying' = TRUE
    /\ stoppedMutex' = FALSE
    /\ dtorPc' = "joining"
    /\ UNCHANGED <<queueVars, isStopped, queueMutex, callVars, loopVars, taskVars>>

DtorJoin ==
    /\ dtorPc = "joining"
    /\ loopPc = "returned"
    /\ dtorPc' = "done"
    /\ UNCHANGED <<queueVars, flagVars, queueMutex, callVars, loopVars, taskVars>>

-----------------------------------------------------------------------------
(* eventLoop *)

LoopLock ==
    /\ loopPc = "top"
    /\ queueMutex = NoThread
    /\ queueMutex' = Loop
    /\ loopPc' = "while"
    /\ UNCHANGED <<queueVars, flagVars, callVars, nextTask, dtorPc, taskVars>>

\* The loop condition; timedWait releases queueMutex_ while it sleeps.
LoopWait ==
    /\ loopPc = "while"
    /\ taskQueue = <<>> /\ ~isDying
    /\ queueMutex' = NoThread
    /\ loopPc' = "waiting"
    /\ UNCHANGED <<queueVars, flagVars, callVars, nextTask, dtorPc, taskVars>>

LoopLeaveWhile ==
    /\ loopPc = "while"
    /\ taskQueue # <<>> \/ isDying
    /\ loopPc' = "test"
    /\ UNCHANGED <<queueVars, flagVars, queueMutex, callVars, nextTask, dtorPc,
                   taskVars>>

\* Mutant: wait() in place of timedWait().
LoopWaitsForever == FALSE

\* WAIT_TIMEOUT has passed (or the wake-up is spurious).
LoopTimeout ==
    /\ loopPc = "waiting"
    /\ loopPc' = "reacquire"
    /\ UNCHANGED <<queueVars, flagVars, queueMutex, callVars, nextTask, dtorPc,
                   taskVars>>

LoopReacquire ==
    /\ loopPc = "reacquire"
    /\ queueMutex = NoThread
    /\ queueMutex' = Loop
    /\ loopPc' = "while"
    /\ UNCHANGED <<queueVars, flagVars, callVars, nextTask, dtorPc, taskVars>>

\* Mutant: the loop returns as soon as it sees isDying_.
LoopReturnsEarly ==
    /\ loopPc = "test"
    /\ isDying
    /\ queueMutex' = NoThread
    /\ loopPc' = "returned"
    /\ UNCHANGED <<queueVars, flagVars, callVars, nextTask, dtorPc, taskVars>>

LoopReturn ==
    /\ loopPc = "test"
    /\ isDying /\ taskQueue = <<>>
    /\ queueMutex' = NoThread
    /\ loopPc' = "returned"
    /\ UNCHANGED <<queueVars, flagVars, callVars, nextTask, dtorPc, taskVars>>

\* Mutant: the task is popped before it is executed.
LoopFrontPops ==
    /\ loopPc = "test"
    /\ ~(isDying /\ taskQueue = <<>>)
    /\ nextTask' = Head(taskQueue)
    /\ taskQueue' = Tail(taskQueue)
    /\ isExecuting' = TRUE
    /\ queueMutex' = NoThread
    /\ loopPc' = "dispatch"
    /\ UNCHANGED <<taskCount, flagVars, callVars, dtorPc, taskVars>>

LoopFront ==
    /\ loopPc = "test"
    /\ ~(isDying /\ taskQueue = <<>>)
    /\ nextTask' = Head(taskQueue)
    /\ isExecuting' = TRUE
    /\ queueMutex' = NoThread
    /\ loopPc' = "dispatch"
    /\ UNCHANGED <<taskQueue, taskCount, flagVars, callVars, dtorPc, taskVars>>

LoopExecute ==
    /\ loopPc = "dispatch"
    /\ ~isDying
    /\ loopPc' = "executing"
    /\ UNCHANGED <<queueVars, flagVars, queueMutex, callVars, nextTask, dtorPc,
                   taskVars>>

LoopSkip ==
    /\ loopPc = "dispatch"
    /\ isDying
    /\ outcome' = [outcome EXCEPT ![nextTask] = "discarded"]
    /\ loopPc' = "pop"
    /\ UNCHANGED <<queueVars, flagVars, queueMutex, callVars, nextTask, dtorPc,
                   heap>>

\* nextTask->task() returns; meanwhile it may have called enqueueTask.
LoopTaskReturns ==
    /\ loopPc = "executing"
    /\ pc[Loop] = "idle"
    /\ outcome' = [outcome EXCEPT ![nextTask] = "executed"]
    /\ loopPc' = "pop"
    /\ UNCHANGED <<queueVars, flagVars, queueMutex, callVars, nextTask, dtorPc,
                   heap>>

LoopPop ==
    /\ loopPc = "pop"
    /\ queueMutex = NoThread
    /\ queueMutex' = Loop
    /\ taskQueue' = Tail(taskQueue)
    /\ isExecuting' = FALSE
    /\ loopPc' = "count"
    /\ UNCHANGED <<taskCount, flagVars, callVars, nextTask, dtorPc, taskVars>>

\* Mutant: the counter of the group is not decremented.
LoopDoesNotCount ==
    /\ loopPc = "count"
    /\ queueMutex' = NoThread
    /\ loopPc' = "delete"
    /\ UNCHANGED <<queueVars, flagVars, callVars, nextTask, dtorPc, taskVars>>

LoopCount ==
    /\ loopPc = "count"
    /\ taskCount' = [taskCount EXCEPT ![id[nextTask]] = @ - 1]
    /\ queueMutex' = NoThread
    /\ loopPc' = "delete"
    /\ UNCHANGED <<taskQueue, isExecuting, flagVars, callVars, nextTask, dtorPc,
                   taskVars>>

LoopDelete ==
    /\ loopPc = "delete"
    /\ heap' = [heap EXCEPT ![nextTask] = "freed"]
    /\ nextTask' = NoTask
    /\ loopPc' = "top"
    /\ UNCHANGED <<queueVars, flagVars, queueMutex, callVars, dtorPc, outcome>>

LoopStep ==
    \/ LoopLock \/ LoopWait \/ LoopLeaveWhile \/ LoopTimeout \/ LoopReacquire
    \/ LoopReturn \/ LoopFront \/ LoopExecute \/ LoopSkip \/ LoopTaskReturns
    \/ LoopPop \/ LoopCount \/ LoopDelete

\* The object is gone and no call is left inside it.
Gone ==
    /\ dtorPc = "done"
    /\ \A th \in Threads : pc[th] = "idle"
    /\ UNCHANGED vars

Next ==
    \/ \E th \in Threads, t \in Tasks \cup {NoTask} : EnqueueLock(th, t)
    \/ \E th \in Threads : EnqueueStep(th)
    \/ Stop \/ Resume \/ DtorSetStopped \/ DtorSetDying \/ DtorJoin
    \/ LoopStep
    \/ Gone

(***************************************************************************)
(* Every thread that can run does, a started destructor goes on, the timed *)
(* wait times out.  The mutex does not starve the loop (SF: other threads  *)
(* take and release it), and a task eventually returns however often it    *)
(* enqueues.  Nobody is obliged to enqueue, stop, resume or destroy.       *)
(***************************************************************************)
Fairness ==
    /\ WF_vars(LoopStep)
    /\ SF_vars(LoopLock) /\ SF_vars(LoopReacquire) /\ SF_vars(LoopPop)
    /\ SF_vars(LoopTaskReturns)
    /\ \A th \in Threads : WF_vars(EnqueueStep(th))
    /\ WF_vars(DtorSetDying) /\ WF_vars(DtorJoin)

SafetySpec == Init /\ [][Next]_vars

Spec == SafetySpec /\ Fairness
-----------------------------------------------------------------------------
(* What busy returns, which holds queueMutex_. *)

busy == taskQueue # <<>>

Queued(g) == {t \in Range(taskQueue) : id[t] = g}

-----------------------------------------------------------------------------
(* Safety *)

\* From front() to pop() the task being executed stays at the head of the
\* queue, whatever other threads enqueue meanwhile, and is not yet freed:
\* pop() removes the task that ran and nextTask is never dangling.
FrontIsNextTask ==
    isExecuting =>
        /\ taskQueue # <<>>
        /\ nextTask = Head(taskQueue)
        /\ heap[nextTask] = "live"

\* Once the event loop has returned no task is left in the queue and none can
\* be pushed any more: the destructor stores isStopped_ before isDying_, and
\* the loop only returns while it holds queueMutex_.
NoTaskStranded ==
    loopPc = "returned" =>
        /\ taskQueue = <<>>
        /\ \A th \in Threads : pc[th] \notin {"push", "count"}

\* The counters that pendingTasks sums never drop below zero (they are size_t)
\* and differ from the queue by at most the one task being pushed or popped;
\* whenever queueMutex_ is free they are exact, group by group.
CountsMatchQueue ==
    \A g \in Groups :
        LET n == Cardinality(Queued(g)) IN
        /\ taskCount[g] >= 0
        /\ taskCount[g] \in (n - 1) .. (n + 1)
        /\ queueMutex = NoThread => taskCount[g] = n

\* No deleted task is reachable from the queue, the loop or a call of
\* enqueueTask (so none is used or deleted again), and when the destructor
\* has finished every task that was handed over has been deleted.
TasksFreedOnce ==
    /\ \A t \in Tasks :
          heap[t] = "freed" =>
              /\ t \notin Range(taskQueue)
              /\ t # nextTask
              /\ \A th \in Threads : newTask[th] # t
    /\ dtorPc = "done" =>
          \A t \in Tasks :
              heap[t] = "freed" \/ outcome[t] = "new"

\* busy() (which holds queueMutex_) returns false only when every accepted task
\* has run to its end or was dropped: the task being executed is still queued.
NotBusyMeansFinished ==
    queueMutex = NoThread /\ ~busy => \A t \in Tasks : outcome[t] # "accepted"

\* The loop sleeps only on an empty queue unless the caller that filled it is
\* about to signal: a new task never waits for WAIT_TIMEOUT.
NoLostWakeup ==
    loopPc = "waiting" /\ taskQueue # <<>> =>
        \E th \in Callers : pc[th] = "count"

-----------------------------------------------------------------------------
(* The dispatcher implements the serial executor. *)

\* Accepted and not started.  A task that runs or was skipped is still in the
\* queue; one that has passed the test of isStopped_ is not yet in it.
NotStarted ==
    IF loopPc \in {"executing", "pop"} THEN Tail(taskQueue) ELSE taskQueue

BeingPushed ==
    IF queueMutex # NoThread /\ pc[queueMutex] = "push"
    THEN <<newTask[queueMutex]>> ELSE <<>>

Executor ==
    INSTANCE TaskExecutor WITH
        pending <- NotStarted \o BeingPushed,
        running <- IF loopPc = "executing" THEN nextTask ELSE NoTask,
        mode <- IF isDying THEN "dying" ELSE IF isStopped THEN "stopped" ELSE "open"

\* Tasks are executed one at a time, each at most once, in the order in which
\* enqueueTask accepted them, none is accepted after stop or the destructor took
\* effect, resume never reopens a dying dispatcher, and no task starts once
\* isDying_ is set.
ImplementsExecutor == Executor!Spec

-----------------------------------------------------------------------------
(* Liveness *)

\* Every accepted task is eventually executed, or dropped by the destructor.
AcceptedTaskSettles ==
    \A t \in Tasks :
        outcome[t] = "accepted" ~> outcome[t] \in {"executed", "discarded"}

\* A started destructor ends, although it never signals newTaskCond_: the
\* loop's timed wait lets it see isDying_.
DestructorEnds == (dtorPc # "none") ~> (dtorPc = "done")
=============================================================================
