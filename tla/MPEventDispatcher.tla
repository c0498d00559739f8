-------------------------- MODULE MPEventDispatcher --------------------------
(***************************************************************************)
(* lib/mp_event_dispatcher.cc: several EventDispatchers behind one         *)
(* interface, a task being sent to the one its group is assigned to.       *)
(*                                                                         *)
(* Each EventDispatcher is taken at the level at which EventDispatcher.tla *)
(* is proved to behave: an enqueue takes effect at once, the loop starts   *)
(* the front of the queue, ends it, and only then pops it; its destructor  *)
(* stops it, lets it drop what has not started and joins it.  Both builds  *)
(* are covered: groups are assigned by hashing (USE_HASHING) or by a table *)
(* filled round robin.                                                     *)
(***************************************************************************)
EXTENDS Integers, Sequences, SequencesExt

CONSTANTS
    Tasks, Groups,
    id,                     \* UnitTask::id
    hasher,                 \* hasher_
    concurrentTaskCount,    \* the number of dispatchers
    Callers,                \* client threads
    NoTask

Dispatchers == 0 .. concurrentTaskCount - 1

ASSUME CountAssumption == concurrentTaskCount \in Nat \ {0}
ASSUME GroupAssumption == id \in [Tasks -> Groups] /\ hasher \in [Groups -> Nat]
ASSUME CallersAssumption == Callers \cap Dispatchers = {} /\ NoTask \notin Tasks

\* Threads that may call enqueueTask: clients, and the loop of each dispatcher
\* (named by its index) from inside a task.
Threads == Callers \cup Dispatchers

Unassigned == concurrentTaskCount

VARIABLES
    useHashing,         \* which of the two builds this is
    taskIDTable,        \* the dispatcher of each group, or Unassigned
    roundRobinToken,
    callTask,           \* per thread: the argument of its call, or NoTask
    taskDestination,    \* per thread: the local variable of the call
    taskQueue,          \* per dispatcher
    loop,               \* per dispatcher: what its event loop is doing
    mode,               \* per dispatcher: "open", "stopped", "dying", "gone"
    dtorIndex,          \* the dispatcher the destructor deletes, -1: not called
    scan,               \* the next dispatcher busy() looks at, -1: not called
    outcome,            \* history: what has become of each task
    arrived, begun,     \* history, per group: order of arrival and of start
    spread,             \* history: a task sent one to another dispatcher during busy()
    badAccess           \* history: a call used a dispatcher after its deletion

routeVars == <<taskIDTable, roundRobinToken>>
callVars == <<callTask, taskDestination>>
historyVars == <<outcome, arrived, begun, spread, badAccess>>
vars == <<useHashing, routeVars, callVars, taskQueue, loop, mode, dtorIndex, scan,
          historyVars>>

TypeOK ==
    /\ useHashing \in BOOLEAN
    /\ taskIDTable \in [Groups -> Dispatchers \cup {Unassigned}]
    /\ roundRobinToken \in Dispatchers
    /\ callTask \in [Threads -> Tasks \cup {NoTask}]
    /\ taskDestination \in [Threads -> Dispatchers]
    /\ taskQueue \in [Dispatchers -> Seq(Tasks)]
    /\ loop \in [Dispatchers -> {"idle", "executing", "finished", "returned"}]
    /\ mode \in [Dispatchers -> {"open", "stopped", "dying", "gone"}]
    /\ dtorIndex \in -1 .. concurrentTaskCount
    /\ scan \in -1 .. concurrentTaskCount
    /\ outcome \in [Tasks -> {"new", "accepted", "executed", "discarded", "lost"}]
    /\ arrived \in [Groups -> Seq(Tasks)]
    /\ begun \in [Groups -> Seq(Tasks)]
    /\ spread \in BOOLEAN
    /\ badAccess \in BOOLEAN

Init ==
    /\ useHashing \in BOOLEAN
    /\ taskIDTable = [g \in Groups |-> Unassigned]
    /\ roundRobinToken = 0
    /\ callTask = [th \in Threads |-> NoTask]
    /\ taskDestination = [th \in Threads |-> 0]
    /\ taskQueue = [d \in Dispatchers |-> <<>>]
    /\ loop = [d \in Dispatchers |-> "idle"]
    /\ mode = [d \in Dispatchers |-> "open"]
    /\ dtorIndex = -1
    /\ scan = -1
    /\ outcome = [t \in Tasks |-> "new"]
    /\ arrived = [g \in Groups |-> <<>>]
    /\ begun = [g \in Groups |-> <<>>]
    /\ spread = FALSE
    /\ badAccess = FALSE

-----------------------------------------------------------------------------
(* enqueueTask *)

hashDestination(g) == hasher[g] % concurrentTaskCount

\* Mutant: the table of groups is not looked at.
tokenDestination(g) == IF useHashing THEN hashDestination(g) ELSE roundRobinToken

\* The dispatcher g is, or would now be, assigned to.
destination(g) ==
    IF useHashing THEN hashDestination(g)
    ELSE IF taskIDTable[g] # Unassigned THEN taskIDTable[g]
    ELSE roundRobinToken

\* Clients call before the destructor does, and not while busy() runs (its
\* documented assumption).  A task calls while it is executing.
MayCall(th) ==
    IF th \in Callers THEN dtorIndex = -1 /\ scan = -1 ELSE loop[th] = "executing"

\* Mutant: the token is not taken modulo the number of dispatchers.
RouteWithoutWrap(th, t) ==
    /\ callTask[th] = NoTask
    /\ outcome[t] = "new" /\ \A x \in Threads : callTask[x] # t
    /\ MayCall(th)
    /\ callTask' = [callTask EXCEPT ![th] = t]
    /\ taskDestination' = [taskDestination EXCEPT ![th] = destination(id[t])]
    /\ IF useHashing \/ taskIDTable[id[t]] # Unassigned
       THEN UNCHANGED routeVars
       ELSE /\ taskIDTable' = [taskIDTable EXCEPT ![id[t]] = roundRobinToken]
            /\ roundRobinToken' = roundRobinToken + 1
    /\ UNCHANGED <<useHashing, taskQueue, loop, mode, dtorIndex, scan, historyVars>>

\* The body up to the forwarding, a critical section in the table build.
Route(th, t) ==
    /\ callTask[th] = NoTask
    /\ outcome[t] = "new" /\ \A x \in Threads : callTask[x] # t
    /\ MayCall(th)
    /\ callTask' = [callTask EXCEPT ![th] = t]
    /\ taskDestination' = [taskDestination EXCEPT ![th] = destination(id[t])]
    /\ IF useHashing \/ taskIDTable[id[t]] # Unassigned
       THEN UNCHANGED routeVars
       ELSE /\ taskIDTable' = [taskIDTable EXCEPT ![id[t]] = roundRobinToken]
            /\ roundRobinToken' = (roundRobinToken + 1) % concurrentTaskCount
    /\ UNCHANGED <<useHashing, taskQueue, loop, mode, dtorIndex, scan, historyVars>>

\* dispatchers_[taskDestination]->enqueueTask(newTask), and the return.  A stopped
\* dispatcher deletes the task.  A task may also call while an earlier dispatcher
\* is already deleted: use after free.  What follows is undefined, so badAccess
\* takes such a run out of what the properties say; the task is lost.
Forward(th) ==
    LET t == callTask[th]
        d == taskDestination[th]
    IN  /\ t # NoTask
        /\ callTask' = [callTask EXCEPT ![th] = NoTask]
        /\ \/ /\ mode[d] = "open"
              /\ taskQueue' = [taskQueue EXCEPT ![d] = Append(@, t)]
              /\ outcome' = [outcome EXCEPT ![t] = "accepted"]
              /\ arrived' = [arrived EXCEPT ![id[t]] = Append(@, t)]
              /\ UNCHANGED badAccess
           \/ /\ mode[d] \in {"stopped", "dying"}
              /\ outcome' = [outcome EXCEPT ![t] = "discarded"]
              /\ UNCHANGED <<taskQueue, arrived, badAccess>>
           \/ /\ mode[d] = "gone"
              /\ outcome' = [outcome EXCEPT ![t] = "lost"]
              /\ badAccess' = TRUE
              /\ UNCHANGED <<taskQueue, arrived>>
        /\ spread' = (spread \/ (scan # -1 /\ d # th))
        /\ UNCHANGED <<useHashing, routeVars, taskDestination, loop, mode, dtorIndex,
                       scan, begun>>

-----------------------------------------------------------------------------
(* The event loop of dispatcher d *)

LoopBegin(d) ==
    /\ loop[d] = "idle"
    /\ taskQueue[d] # <<>>
    /\ mode[d] # "dying"
    /\ loop' = [loop EXCEPT ![d] = "executing"]
    /\ begun' = [begun EXCEPT ![id[Head(taskQueue[d])]] = Append(@, Head(taskQueue[d]))]
    /\ UNCHANGED <<useHashing, routeVars, callVars, taskQueue, mode, dtorIndex, scan,
                   outcome, arrived, spread, badAccess>>

LoopEnd(d) ==
    /\ loop[d] = "executing"
    /\ callTask[d] = NoTask
    /\ loop' = [loop EXCEPT ![d] = "finished"]
    /\ outcome' = [outcome EXCEPT ![Head(taskQueue[d])] = "executed"]
    /\ UNCHANGED <<useHashing, routeVars, callVars, taskQueue, mode, dtorIndex, scan,
                   arrived, begun, spread, badAccess>>

LoopSkip(d) ==
    /\ loop[d] = "idle"
    /\ taskQueue[d] # <<>>
    /\ mode[d] = "dying"
    /\ loop' = [loop EXCEPT ![d] = "finished"]
    /\ outcome' = [outcome EXCEPT ![Head(taskQueue[d])] = "discarded"]
    /\ UNCHANGED <<useHashing, routeVars, callVars, taskQueue, mode, dtorIndex, scan,
                   arrived, begun, spread, badAccess>>

LoopPop(d) ==
    /\ loop[d] = "finished"
    /\ loop' = [loop EXCEPT ![d] = "idle"]
    /\ taskQueue' = [taskQueue EXCEPT ![d] = Tail(@)]
    /\ UNCHANGED <<useHashing, routeVars, callVars, mode, dtorIndex, scan, historyVars>>

LoopReturn(d) ==
    /\ loop[d] = "idle"
    /\ taskQueue[d] = <<>>
    /\ mode[d] = "dying"
    /\ loop' = [loop EXCEPT ![d] = "returned"]
    /\ UNCHANGED <<useHashing, routeVars, callVars, taskQueue, mode, dtorIndex, scan,
                   historyVars>>

LoopStep(d) == LoopBegin(d) \/ LoopEnd(d) \/ LoopSkip(d) \/ LoopPop(d) \/ LoopReturn(d)

-----------------------------------------------------------------------------
(* The destructor deletes the dispatchers one after the other; meanwhile the *)
(* later ones go on executing tasks.  No client call is left inside.         *)

DtorCall ==
    /\ dtorIndex = -1 /\ scan = -1
    /\ \A th \in Callers : callTask[th] = NoTask
    /\ dtorIndex' = 0
    /\ UNCHANGED <<useHashing, routeVars, callVars, taskQueue, loop, mode, scan,
                   historyVars>>

DtorStop ==
    /\ dtorIndex \in Dispatchers
    /\ mode[dtorIndex] = "open"
    /\ mode' = [mode EXCEPT ![dtorIndex] = "stopped"]
    /\ UNCHANGED <<useHashing, routeVars, callVars, taskQueue, loop, dtorIndex, scan,
                   historyVars>>

\* Mutant: the destructor of a dispatcher stops it but does not let it die.
DtorOnlyStops ==
    /\ dtorIndex \in Dispatchers
    /\ mode[dtorIndex] = "stopped"
    /\ UNCHANGED vars

DtorKill ==
    /\ dtorIndex \in Dispatchers
    /\ mode[dtorIndex] = "stopped"
    /\ mode' = [mode EXCEPT ![dtorIndex] = "dying"]
    /\ UNCHANGED <<useHashing, routeVars, callVars, taskQueue, loop, dtorIndex, scan,
                   historyVars>>

DtorNext ==
    /\ dtorIndex \in Dispatchers
    /\ loop[dtorIndex] = "returned"
    /\ dtorIndex' = dtorIndex + 1
    /\ mode' = [mode EXCEPT ![dtorIndex] = "gone"]
    /\ UNCHANGED <<useHashing, routeVars, callVars, taskQueue, loop, scan, historyVars>>

-----------------------------------------------------------------------------
(* busy() asks the dispatchers one by one. *)

BusyCall ==
    /\ scan = -1 /\ dtorIndex = -1
    /\ \A th \in Callers : callTask[th] = NoTask
    /\ scan' = 0
    /\ spread' = FALSE
    /\ UNCHANGED <<useHashing, routeVars, callVars, taskQueue, loop, mode, dtorIndex,
                   outcome, arrived, begun, badAccess>>

BusyReturnsTrue ==
    /\ scan \in Dispatchers
    /\ taskQueue[scan] # <<>>
    /\ scan' = -1
    /\ UNCHANGED <<useHashing, routeVars, callVars, taskQueue, loop, mode, dtorIndex,
                   historyVars>>

\* Mutant: busy() looks at isExecuting_ in place of the queue.
BusyNextIfNotExecuting ==
    /\ scan \in Dispatchers
    /\ loop[scan] # "executing"
    /\ scan' = scan + 1
    /\ UNCHANGED <<useHashing, routeVars, callVars, taskQueue, loop, mode, dtorIndex,
                   historyVars>>

BusyNext ==
    /\ scan \in Dispatchers
    /\ taskQueue[scan] = <<>>
    /\ scan' = scan + 1
    /\ UNCHANGED <<useHashing, routeVars, callVars, taskQueue, loop, mode, dtorIndex,
                   historyVars>>

\* At the end of the vector: the result is false.
BusyReturnsFalse ==
    /\ scan = concurrentTaskCount
    /\ scan' = -1
    /\ UNCHANGED <<useHashing, routeVars, callVars, taskQueue, loop, mode, dtorIndex,
                   historyVars>>

Gone ==
    /\ dtorIndex = concurrentTaskCount
    /\ UNCHANGED vars

Next ==
    \/ \E th \in Threads, t \in Tasks : Route(th, t)
    \/ \E th \in Threads : Forward(th)
    \/ \E d \in Dispatchers : LoopStep(d)
    \/ DtorCall \/ DtorStop \/ DtorKill \/ DtorNext
    \/ BusyCall \/ BusyReturnsTrue \/ BusyNext \/ BusyReturnsFalse
    \/ Gone

\* The threads run; tasks, and so calls, end.  Nobody has to call anything.
Fairness ==
    /\ \A d \in Dispatchers : WF_vars(LoopStep(d))
    /\ \A th \in Threads : WF_vars(Forward(th))
    /\ WF_vars(DtorStop) /\ WF_vars(DtorKill) /\ WF_vars(DtorNext)

SafetySpec == Init /\ [][Next]_vars

Spec == SafetySpec /\ Fairness

-----------------------------------------------------------------------------
(* Properties *)

Executing(d) == loop[d] = "executing"

\* "Callbacks with the same ids are guaranteed to be executed in a certain
\* sequential order and not run concurrently": whichever threads race to enqueue
\* tasks of a group, they start in the order in which they were accepted, none
\* twice and none skipped, and no two are executed at the same time (until a task
\* calls a dispatcher that is already deleted).
GroupsAreSequential ==
    \/ badAccess
    \/ /\ \A g \in Groups : IsPrefix(begun[g], arrived[g])
       /\ \A d, e \in Dispatchers :
             d # e /\ Executing(d) /\ Executing(e) =>
                 id[Head(taskQueue[d])] # id[Head(taskQueue[e])]

\* When busy() is about to return false no accepted task is unfinished, clients
\* not calling meanwhile, unless a task that ran during the scan enqueued one into
\* another dispatcher than its own.  "The correctness of this method assumes that
\* enqueueTask will not be called externally while executing" leaves that out.
FalseMeansNoPendingJobsIfNoSpread ==
    scan = concurrentTaskCount /\ ~spread =>
        \A t \in Tasks : outcome[t] # "accepted"

\* Every accepted task is executed or discarded, also those that tasks send around
\* while the dispatchers are destroyed; and the destructor ends, although each
\* dispatcher is joined in turn while the ones after it keep running.  The
\* exception is the run in which a task of a later dispatcher sends one to a
\* dispatcher that is already deleted: enqueueTask then uses freed memory, and
\* neither follows.
DestructionSettlesTasks ==
    /\ \A t \in Tasks :
          outcome[t] = "accepted" ~> outcome[t] \in {"executed", "discarded"} \/ badAccess
    /\ dtorIndex = 0 ~> dtorIndex = concurrentTaskCount \/ badAccess
=============================================================================
