-------------------------- MODULE DispatcherSignals --------------------------
(***************************************************************************)
(* EventDispatcher and the aio wrapper together, in the LIBEVENT_USE_SIG   *)
(* build: the SIGIO handler aio_done calls enqueueTask on whatever thread  *)
(* takes the signal, in the middle of whatever that thread is doing.  The  *)
(* code in eventLoop that would "block SIGIO to avoid deadlock" is         *)
(* commented out.                                                          *)
(*                                                                         *)
(* A thread is a stack of calls of which the last one runs.  The mutexes   *)
(* are recursive, as Mutex asks for, so a handler enters a section that    *)
(* the thread it interrupted is in.  A container that is modified while    *)
(* the same thread is inside one of its methods is undefined behaviour     *)
(* and ends the behaviour.  As for the Dispatcher singleton, the           *)
(* dispatcher is never stopped or destroyed, and of the counters only      *)
(* their sum is kept.                                                      *)
(***************************************************************************)
EXTENDS Integers, Sequences, FiniteSets, SequencesExt

CONSTANTS
    Completions,    \* tasks that aio_done makes for operations that end
    ClientTasks,    \* tasks that threads enqueue by themselves
    Callers,        \* client threads
    Loop,           \* the event loop thread
    NoThread,       \* "the mutex is free"
    NoTask          \* NULL

ASSUME TasksAssumption == Completions \cap ClientTasks = {}
ASSUME NullAssumption == NoTask \notin Completions \cup ClientTasks
ASSUME ThreadAssumption == Loop \notin Callers /\ NoThread \notin Callers \cup {Loop}

Tasks == Completions \cup ClientTasks
Threads == Callers \cup {Loop}

VARIABLES
    taskQueue,      \* taskQueue_
    taskCount,      \* the sum of taskCount_
    mutex,          \* "queue" and "count": owner and depth of each mutex
    stack,          \* the calls of each thread, the running one last
    sigPending,     \* the task that the pending SIGIO will lead to
    stage,          \* history: what has become of each task
    corrupted       \* a container was modified under a call of its own

vars == <<taskQueue, taskCount, mutex, stack, sigPending, stage, corrupted>>

Locations ==
    {"idle", "pendingTasks", "sum",
     "enqueueTask", "push", "countLock", "count",
     "top", "while", "sleep", "waiting", "reacquire", "executing",
     "popLock", "pop", "uncountLock", "uncount"}

\* A call: where it is, its task, and if it is the signal handler's.
Frame == [at : Locations, task : Tasks \cup {NoTask}, handler : BOOLEAN]

TypeOK ==
    /\ taskQueue \in Seq(Tasks)
    /\ taskCount \in Nat
    /\ mutex \in [{"queue", "count"} ->
                     [owner : Threads \cup {NoThread}, depth : 0 .. 2]]
    /\ stack \in [Threads -> Seq(Frame)]
    /\ sigPending \in Completions \cup {NoTask}
    /\ stage \in [Tasks -> {"new", "merged", "signalled", "handed", "queued", "executed"}]
    /\ corrupted \in BOOLEAN

Call(at, task, handler) == [at |-> at, task |-> task, handler |-> handler]

Init ==
    /\ taskQueue = <<>>
    /\ taskCount = 0
    /\ mutex = [m \in {"queue", "count"} |-> [owner |-> NoThread, depth |-> 0]]
    /\ stack = [th \in Threads |->
                   <<Call(IF th = Loop THEN "top" ELSE "idle", NoTask, FALSE)>>]
    /\ sigPending = NoTask
    /\ stage = [t \in Tasks |-> "new"]
    /\ corrupted = FALSE

-----------------------------------------------------------------------------
(* Calls and mutexes *)

Running(th) == Last(stack[th])

At(th, location) == ~corrupted /\ Running(th).at = location

Goto(th, location) == stack' = [stack EXCEPT ![th][Len(stack[th])].at = location]

Enter(th, call) == stack' = [stack EXCEPT ![th] = Append(@, call)]

Return(th) == stack' = [stack EXCEPT ![th] = Front(@)]

Available(m, th) == mutex[m].owner \in {NoThread, th}

\* Mutex::lock, on a mutex that is available.
Locked(m, th) == [mutex EXCEPT ![m] = [owner |-> th, depth |-> @.depth + 1]]

\* Mutex::unlock
Unlocked(l) ==
    IF l.depth = 1 THEN [owner |-> NoThread, depth |-> 0]
                   ELSE [l EXCEPT !.depth = @ - 1]

\* The calls that are inside a method of a container when aio_done interrupts.
Interrupted(th, locations) ==
    \E i \in 1 .. Len(stack[th]) - 1 : stack[th][i].at \in locations

-----------------------------------------------------------------------------
(* The kernel and the handler *)

\* An operation ends: SIGIO is raised, or merged with one that is pending.
Complete(t) ==
    /\ ~corrupted /\ stage[t] = "new"
    /\ IF sigPending = NoTask
          THEN sigPending' = t /\ stage' = [stage EXCEPT ![t] = "signalled"]
          ELSE sigPending' = sigPending /\ stage' = [stage EXCEPT ![t] = "merged"]
    /\ UNCHANGED <<taskQueue, taskCount, mutex, stack, corrupted>>

\* Mutant: the handler does not block its own signal (SA_NODEFER).
aio_doneNested(th) ==
    /\ ~corrupted /\ sigPending # NoTask
    /\ Enter(th, Call("enqueueTask", sigPending, TRUE))
    /\ stage' = [stage EXCEPT ![sigPending] = "handed"]
    /\ sigPending' = NoTask
    /\ UNCHANGED <<taskQueue, taskCount, mutex, corrupted>>

\* Any thread may take the signal, at any point, unless it is in the handler: SIGIO
\* is blocked there.
aio_done(th) ==
    /\ ~corrupted /\ sigPending # NoTask
    /\ \A i \in DOMAIN stack[th] : ~stack[th][i].handler
    /\ Enter(th, Call("enqueueTask", sigPending, TRUE))
    /\ stage' = [stage EXCEPT ![sigPending] = "handed"]
    /\ sigPending' = NoTask
    /\ UNCHANGED <<taskQueue, taskCount, mutex, corrupted>>

-----------------------------------------------------------------------------
(* Calls of client threads, and of tasks *)

CallEnqueueTask(th, t) ==
    /\ ~corrupted /\ Running(th).at \in {"idle", "executing"}
    /\ stage[t] = "new"
    /\ Enter(th, Call("enqueueTask", t, FALSE))
    /\ stage' = [stage EXCEPT ![t] = "handed"]
    /\ UNCHANGED <<taskQueue, taskCount, mutex, sigPending, corrupted>>

CallPendingTasks(th) ==
    /\ ~corrupted /\ Running(th).at \in {"idle", "executing"}
    /\ Enter(th, Call("pendingTasks", NoTask, FALSE))
    /\ UNCHANGED <<taskQueue, taskCount, mutex, sigPending, stage, corrupted>>

\* Takes mutex m and goes on.
LockAndGoto(th, from, m, to) ==
    /\ At(th, from)
    /\ Available(m, th)
    /\ mutex' = Locked(m, th)
    /\ Goto(th, to)
    /\ UNCHANGED <<taskQueue, taskCount, sigPending, stage, corrupted>>

EnqueueLock(th) == LockAndGoto(th, "enqueueTask", "queue", "push")

EnqueuePush(th) ==
    /\ At(th, "push")
    /\ taskQueue' = Append(taskQueue, Running(th).task)
    /\ stage' = [stage EXCEPT ![Running(th).task] = "queued"]
    /\ corrupted' = Interrupted(th, {"push", "pop"})
    /\ Goto(th, "countLock")
    /\ UNCHANGED <<taskCount, mutex, sigPending>>

EnqueueCountLock(th) == LockAndGoto(th, "countLock", "count", "count")

\* The counter, newTaskCond_.signal() and the return, which unlocks both mutexes.
EnqueueCount(th) ==
    /\ At(th, "count")
    /\ taskCount' = taskCount + 1
    /\ corrupted' = Interrupted(th, {"count", "uncount", "sum"})
    /\ mutex' = [m \in {"queue", "count"} |-> Unlocked(mutex[m])]
    /\ LET returned == [stack EXCEPT ![th] = Front(@)]
       IN  stack' = IF stack[Loop][1].at = "waiting"
                       THEN [returned EXCEPT ![Loop][1].at = "reacquire"]
                       ELSE returned
    /\ UNCHANGED <<taskQueue, sigPending, stage>>

PendingTasksLock(th) == LockAndGoto(th, "pendingTasks", "count", "sum")

PendingTasksReturn(th) ==
    /\ At(th, "sum")
    /\ mutex' = [mutex EXCEPT !["count"] = Unlocked(@)]
    /\ Return(th)
    /\ UNCHANGED <<taskQueue, taskCount, sigPending, stage, corrupted>>

-----------------------------------------------------------------------------
(* eventLoop *)

LoopLock == LockAndGoto(Loop, "top", "queue", "while")

\* The loop has found the queue empty; it still holds the mutex.
LoopEmpty ==
    /\ At(Loop, "while")
    /\ taskQueue = <<>>
    /\ Goto(Loop, "sleep")
    /\ UNCHANGED <<taskQueue, taskCount, mutex, sigPending, stage, corrupted>>

\* timedWait.  What a handler has signalled on this thread since the test is lost.
LoopWait ==
    /\ At(Loop, "sleep")
    /\ mutex' = [mutex EXCEPT !["queue"] = Unlocked(@)]
    /\ Goto(Loop, "waiting")
    /\ UNCHANGED <<taskQueue, taskCount, sigPending, stage, corrupted>>

\* Mutant: wait() in place of timedWait().
LoopWaitsForever == FALSE

LoopTimeout ==
    /\ At(Loop, "waiting")
    /\ Goto(Loop, "reacquire")
    /\ UNCHANGED <<taskQueue, taskCount, mutex, sigPending, stage, corrupted>>

LoopReacquire == LockAndGoto(Loop, "reacquire", "queue", "while")

LoopFront ==
    /\ At(Loop, "while")
    /\ taskQueue # <<>>
    /\ mutex' = [mutex EXCEPT !["queue"] = Unlocked(@)]
    /\ stack' = [stack EXCEPT ![Loop] = <<Call("executing", Head(taskQueue), FALSE)>>]
    /\ UNCHANGED <<taskQueue, taskCount, sigPending, stage, corrupted>>

LoopTaskReturns ==
    /\ At(Loop, "executing")
    /\ stage' = [stage EXCEPT ![Running(Loop).task] = "executed"]
    /\ Goto(Loop, "popLock")
    /\ UNCHANGED <<taskQueue, taskCount, mutex, sigPending, corrupted>>

\* Mutant: the loop takes taskCountMutex_ first, against the precedence.
LoopPopLocksCountersFirst ==
    IF mutex["count"].owner = Loop
       THEN LockAndGoto(Loop, "popLock", "queue", "pop")
       ELSE LockAndGoto(Loop, "popLock", "count", "popLock")

LoopPopLock == LockAndGoto(Loop, "popLock", "queue", "pop")

LoopPop ==
    /\ At(Loop, "pop")
    /\ taskQueue' = Tail(taskQueue)
    /\ Goto(Loop, "uncountLock")
    /\ UNCHANGED <<taskCount, mutex, sigPending, stage, corrupted>>

LoopCountLock == LockAndGoto(Loop, "uncountLock", "count", "uncount")

LoopCount ==
    /\ At(Loop, "uncount")
    /\ taskCount' = taskCount - 1
    /\ mutex' = [m \in {"queue", "count"} |-> Unlocked(mutex[m])]
    /\ stack' = [stack EXCEPT ![Loop] = <<Call("top", NoTask, FALSE)>>]
    /\ UNCHANGED <<taskQueue, sigPending, stage, corrupted>>

-----------------------------------------------------------------------------

Acquire(th) ==
    \/ EnqueueLock(th) \/ EnqueueCountLock(th) \/ PendingTasksLock(th)
    \/ th = Loop /\ (LoopLock \/ LoopReacquire \/ LoopPopLock \/ LoopCountLock)

Step(th) ==
    \/ EnqueuePush(th) \/ EnqueueCount(th) \/ PendingTasksReturn(th)
    \/ th = Loop /\ (LoopEmpty \/ LoopWait \/ LoopTimeout \/ LoopFront \/ LoopPop \/ LoopCount)

Next ==
    \/ \E t \in Completions : Complete(t)
    \/ \E th \in Threads : aio_done(th)
    \/ \E th \in Threads, t \in ClientTasks : CallEnqueueTask(th, t)
    \/ \E th \in Threads : CallPendingTasks(th)
    \/ \E th \in Threads : Acquire(th) \/ Step(th)
    \/ LoopTaskReturns

\* Threads run, mutexes do not starve a thread, a pending signal is taken, the
\* timed wait times out and a task ends, however often it makes calls.
Fairness ==
    /\ \A th \in Threads : WF_vars(Step(th)) /\ SF_vars(Acquire(th))
    /\ WF_vars(\E th \in Threads : aio_done(th))
    /\ SF_vars(LoopTaskReturns)

SafetySpec == Init /\ [][Next]_vars

Spec == SafetySpec /\ Fairness

-----------------------------------------------------------------------------
(* Properties *)

\* The mutex that a thread asks for, if any.
Wants(th, m) ==
    \/ m = "queue" /\ Running(th).at \in {"enqueueTask", "top", "reacquire", "popLock"}
    \/ m = "count" /\ Running(th).at \in {"countLock", "pendingTasks", "uncountLock"}

BlockedBy(th, other) ==
    \E m \in {"queue", "count"} : Wants(th, m) /\ mutex[m].owner = other

Deadlocked ==
    \E th \in Threads : \E other \in Threads \ {th} :
        BlockedBy(th, other) /\ BlockedBy(other, th)

\* "Always follow this precedence when acquiring locks to avoid deadlock:
\* queueMutex_ -> taskCountMutex_".  The code does so, and the handler breaks it in
\* one case: threads wait for each other for ever only if it has interrupted
\* pendingTasks while that sums the counters.  Interrupting enqueueTask or the
\* loop, at any point, does no such harm.
DeadlockNeedsPendingTasks ==
    Deadlocked => \E th \in Threads : Interrupted(th, {"sum"}) /\ Wants(th, "queue")

\* A completion that was signalled is executed, although a handler that runs on
\* the loop's thread between the test of the queue and the wait signals nobody:
\* unless threads deadlock or a container is corrupted, the timed wait saves it.
CompletionRuns ==
    \A t \in Completions :
        stage[t] = "signalled" ~> (stage[t] = "executed" \/ Deadlocked \/ corrupted)
=============================================================================
