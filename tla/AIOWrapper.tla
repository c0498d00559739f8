----------------------------- MODULE AIOWrapper -----------------------------
(***************************************************************************)
(* lib/aio_wrapper.cc: asynchronous reads and writes whose completion is   *)
(* reported by a task in the dispatcher.                                   *)
(*                                                                         *)
(* Both builds are covered.  In the polling build a task asks aio_error    *)
(* again and again, enqueueing itself until the operation has ended.  With *)
(* LIBEVENT_USE_SIG the kernel sends SIGIO and the handler aio_done runs   *)
(* on whatever thread takes the signal.  aio_read and aio_write differ     *)
(* only in the system call.  The dispatcher is a queue per group, served   *)
(* serially; the Dispatcher singleton is never stopped or destroyed.       *)
(* bind copies the callback functions, so a notification does not need the *)
(* IOCallback any more.                                                    *)
(***************************************************************************)
EXTENDS Naturals, Sequences, FiniteSets

CONSTANTS
    Ops,        \* calls of aio_read and aio_write
    Groups,     \* TaskGroupIDs
    id,         \* IOCallback::id of each call
    Callbacks,  \* the arguments of these calls: which of okCB and errCB are set, or
                \* {"NULL"} for no IOCallback
    NoOp        \* "none"

ASSUME IdAssumption == id \in [Ops -> Groups]
ASSUME CallbacksAssumption == Callbacks \subseteq SUBSET {"ok", "err"} \cup {{"NULL"}}
ASSUME NoOpAssumption == NoOp \notin Ops

VARIABLES
    signalBuild,    \* LIBEVENT_USE_SIG
    callback,       \* the argument of each call
    stage,          \* how far the code has come with each operation
    kernel,         \* the operation as the system sees it
    blocks,         \* aiocb, IOCallback and AIOSigHandlerInfo of the operation
    sigPending,     \* the operation the pending SIGIO is about
    dropped,        \* history: operations whose SIGIO was merged with a pending one
    taskQueue,      \* per group: <<kind, op>>
    polling,        \* per group: the operation whose check its loop executes
    called,         \* history: executed notifications of each operation
    crashed         \* a NULL pointer was dereferenced

vars == <<signalBuild, callback, stage, kernel, blocks, sigPending, dropped,
          taskQueue, polling, called, crashed>>

Stages ==
    {"new", "prepared", "failed", "check", "queued", "signal", "handler",
     "release", "done"}

TypeOK ==
    /\ signalBuild \in BOOLEAN
    /\ callback \in [Ops -> Callbacks \cup {{"NULL"}}]
    /\ stage \in [Ops -> Stages]
    /\ kernel \in [Ops -> {"none", "refused", "EINPROGRESS", "ok", "err"}]
    /\ blocks \in [Ops -> {"none", "live", "freed"}]
    /\ sigPending \in Ops \cup {NoOp}
    /\ dropped \in SUBSET Ops
    /\ taskQueue \in [Groups -> Seq({"check", "ok", "err"} \X Ops)]
    /\ polling \in [Groups -> Ops \cup {NoOp}]
    /\ called \in [Ops -> 0 .. 1]
    /\ crashed \in BOOLEAN

Init ==
    /\ signalBuild \in BOOLEAN
    /\ callback = [op \in Ops |-> {"NULL"}]
    /\ stage = [op \in Ops |-> "new"]
    /\ kernel = [op \in Ops |-> "none"]
    /\ blocks = [op \in Ops |-> "none"]
    /\ sigPending = NoOp
    /\ dropped = {}
    /\ taskQueue = [g \in Groups |-> <<>>]
    /\ polling = [g \in Groups |-> NoOp]
    /\ called = [op \in Ops |-> 0]
    /\ crashed = FALSE

Goto(op, from, to) ==
    /\ stage[op] = from
    /\ stage' = [stage EXCEPT ![op] = to]

Enqueue(kind, op) ==
    taskQueue' = [taskQueue EXCEPT ![id[op]] = Append(@, <<kind, op>>)]

\* Enqueues the part of the callback that is for this result, if it is set.
Notify(op, result) ==
    IF result \in callback[op] THEN Enqueue(result, op) ELSE UNCHANGED taskQueue

-----------------------------------------------------------------------------
(* aioSkeletonFunction, on any thread *)

\* The call: the control block is allocated and filled in.
Prepare(op, argument) ==
    /\ Goto(op, "new", "prepared")
    /\ callback' = [callback EXCEPT ![op] = argument]
    /\ blocks' = [blocks EXCEPT ![op] = "live"]
    /\ UNCHANGED <<signalBuild, kernel, sigPending, dropped, taskQueue, polling,
                   called, crashed>>

\* aio_func succeeds.
Accepted(op) ==
    /\ Goto(op, "prepared", IF signalBuild THEN "signal" ELSE "check")
    /\ kernel' = [kernel EXCEPT ![op] = "EINPROGRESS"]
    /\ UNCHANGED <<signalBuild, callback, blocks, sigPending, dropped, taskQueue,
                   polling, called, crashed>>

\* aio_func fails.
Refused(op) ==
    /\ Goto(op, "prepared", "failed")
    /\ kernel' = [kernel EXCEPT ![op] = "refused"]
    /\ UNCHANGED <<signalBuild, callback, blocks, sigPending, dropped, taskQueue,
                   polling, called, crashed>>

\* Mutant: the polling build does not report the failure either.
ReportRefusalNever(op) ==
    /\ Goto(op, "failed", "release")
    /\ UNCHANGED <<signalBuild, callback, kernel, blocks, sigPending, dropped,
                   taskQueue, polling, called, crashed>>

\* The polling build also calls errCB; with signals the result -1 has to do.
ReportRefusal(op) ==
    /\ Goto(op, "failed", "release")
    /\ IF signalBuild THEN UNCHANGED taskQueue ELSE Notify(op, "err")
    /\ UNCHANGED <<signalBuild, callback, kernel, blocks, sigPending, dropped,
                   polling, called, crashed>>

-----------------------------------------------------------------------------
(* The system *)

\* An operation ends.  SIGIO is a standard signal: while one is pending for the
\* process another one is discarded, its sigev_value with it.
Complete(op, result) ==
    /\ kernel[op] = "EINPROGRESS"
    /\ kernel' = [kernel EXCEPT ![op] = result]
    /\ IF signalBuild /\ sigPending = NoOp
       THEN sigPending' = op ELSE UNCHANGED sigPending
    /\ dropped' = IF signalBuild /\ sigPending # NoOp THEN dropped \cup {op} ELSE dropped
    /\ UNCHANGED <<signalBuild, callback, stage, blocks, taskQueue, polling, called,
                   crashed>>

\* Mutant: the handler runs again for the same signal.
DeliverAgain ==
    /\ sigPending # NoOp
    /\ stage' = [stage EXCEPT ![sigPending] = "handler"]
    /\ UNCHANGED <<signalBuild, callback, kernel, blocks, sigPending, dropped, taskQueue,
                   polling, called, crashed>>

\* Some thread takes the signal.
Deliver ==
    /\ sigPending # NoOp
    /\ stage' = [stage EXCEPT ![sigPending] = "handler"]
    /\ sigPending' = NoOp
    /\ UNCHANGED <<signalBuild, callback, kernel, blocks, dropped, taskQueue, polling,
                   called, crashed>>

-----------------------------------------------------------------------------
(* Completion *)

\* aio_done up to its delete.
aio_done(op) ==
    /\ Goto(op, "handler", "release")
    /\ Notify(op, kernel[op])
    /\ UNCHANGED <<signalBuild, callback, kernel, blocks, sigPending, dropped, polling,
                   called, crashed>>

\* The check is over; if the loop of the group executed it, that task ends.
EndOfCheck(op) ==
    polling' = [polling EXCEPT ![id[op]] = IF @ = op THEN NoOp ELSE @]

\* Mutant: the check is not enqueued again.
CheckGivesUp(op) ==
    /\ Goto(op, "check", "queued")
    /\ kernel[op] = "EINPROGRESS"
    /\ callback[op] # {"NULL"}
    /\ EndOfCheck(op)
    /\ UNCHANGED <<signalBuild, callback, kernel, blocks, sigPending, dropped,
                   taskQueue, called, crashed>>

checkInProgress(op) ==
    /\ Goto(op, "check", "queued")
    /\ kernel[op] = "EINPROGRESS"
    /\ callback[op] # {"NULL"}
    /\ Enqueue("check", op)
    /\ EndOfCheck(op)
    /\ UNCHANGED <<signalBuild, callback, kernel, blocks, sigPending, dropped, called,
                   crashed>>

\* callback->id is read without a test: without an IOCallback the program ends.
checkCrashes(op) ==
    /\ stage[op] = "check"
    /\ kernel[op] = "EINPROGRESS"
    /\ callback[op] = {"NULL"}
    /\ crashed' = TRUE
    /\ UNCHANGED <<signalBuild, callback, stage, kernel, blocks, sigPending, dropped,
                   taskQueue, polling, called>>

\* Mutant: EINPROGRESS is taken for an error.
CheckEndedAnyway(op) ==
    /\ Goto(op, "check", "release")
    /\ Notify(op, IF kernel[op] = "ok" THEN "ok" ELSE "err")
    /\ UNCHANGED <<signalBuild, callback, kernel, blocks, sigPending, dropped, polling,
                   called, crashed>>

checkEnded(op) ==
    /\ Goto(op, "check", "release")
    /\ kernel[op] # "EINPROGRESS"
    /\ Notify(op, kernel[op])
    /\ UNCHANGED <<signalBuild, callback, kernel, blocks, sigPending, dropped, polling,
                   called, crashed>>

\* The deletes at the end of checkIOProgress, aio_done and aioSkeletonFunction.
Release(op) ==
    /\ Goto(op, "release", "done")
    /\ blocks' = [blocks EXCEPT ![op] = "freed"]
    /\ EndOfCheck(op)
    /\ UNCHANGED <<signalBuild, callback, kernel, sigPending, dropped, taskQueue,
                   called, crashed>>

-----------------------------------------------------------------------------
(* The dispatcher *)

\* The loop of group g executes its next task: a notification, which is the
\* client's code, or a check, which the loop is then occupied with.
Execute(g) ==
    /\ polling[g] = NoOp
    /\ taskQueue[g] # <<>>
    /\ LET op == Head(taskQueue[g])[2]
           isCheck == Head(taskQueue[g])[1] = "check"
       IN  IF isCheck
           THEN /\ stage' = [stage EXCEPT ![op] = "check"]
                /\ polling' = [polling EXCEPT ![g] = op]
                /\ UNCHANGED called
           ELSE /\ called' = [called EXCEPT ![op] = @ + 1]
                /\ UNCHANGED <<stage, polling>>
    /\ taskQueue' = [taskQueue EXCEPT ![g] = Tail(@)]
    /\ UNCHANGED <<signalBuild, callback, kernel, blocks, sigPending, dropped, crashed>>

-----------------------------------------------------------------------------
Code(op) ==
    \/ Accepted(op) \/ Refused(op) \/ ReportRefusal(op)
    \/ aio_done(op)
    \/ checkInProgress(op) \/ checkCrashes(op) \/ checkEnded(op)
    \/ Release(op)

\* Every operation has been made, has ended and been reported; or the end of
\* an operation was never noticed, or the program has crashed.
Terminated ==
    /\ \/ crashed
       \/ /\ \A op \in Ops : stage[op] = "done" \/ op \in dropped
          /\ \A g \in Groups : taskQueue[g] = <<>>
    /\ UNCHANGED vars

Next ==
    \/ /\ ~crashed
       /\ \/ \E op \in Ops, argument \in Callbacks : Prepare(op, argument)
          \/ \E op \in Ops : Code(op)
          \/ \E op \in Ops, result \in {"ok", "err"} : Complete(op, result)
          \/ Deliver
          \/ \E g \in Groups : Execute(g)
    \/ Terminated

\* Threads run, signals are taken, the dispatcher serves every group.  An
\* operation need not end: a peer may send nothing for ever.
Fairness ==
    /\ \A op \in Ops : WF_vars(~crashed /\ Code(op))
    /\ WF_vars(~crashed /\ Deliver)
    /\ \A g \in Groups : WF_vars(~crashed /\ Execute(g))

SafetySpec == Init /\ [][Next]_vars

Spec == SafetySpec /\ Fairness

-----------------------------------------------------------------------------
(* Properties *)

\* The tasks of this kind in the queue of its group that are about op.
Queued(kind, op) ==
    {i \in DOMAIN taskQueue[id[op]] : taskQueue[id[op]][i] = <<kind, op>>}

\* The blocks of an operation are freed only when nobody can come back to them:
\* the system has finished with the aiocb, no check is queued or being executed,
\* no signal carries their address, and while a check is queued it is the only one.
BlocksOutliveOperation ==
    \A op \in Ops :
        /\ blocks[op] = "freed" =>
              /\ kernel[op] # "EINPROGRESS"
              /\ Queued("check", op) = {} /\ stage[op] = "done"
              /\ sigPending # op
        /\ \A i, j \in Queued("check", op) : i = j /\ stage[op] = "queued"

\* The part of the callback that is to be called for an operation.
Due(op) ==
    IF kernel[op] = "refused" THEN IF signalBuild THEN {} ELSE {"err"}
    ELSE {kernel[op]}

\* Its notifications: those that were executed and those that are queued.
Reports(op) == called[op] + Cardinality(Queued("ok", op) \cup Queued("err", op))

\* When its blocks are freed an operation has been reported exactly once, by the
\* part of the callback that is for its result; none is reported twice or with
\* the wrong result, also when the thread that started it, the polling task, the
\* signal handler and the notification overlap.
ReportedExactlyOnce ==
    \A op \in Ops :
        /\ Reports(op) <= 1
        /\ stage[op] \in {"release", "done"} =>
              Reports(op) = IF Due(op) \cap callback[op] # {} THEN 1 ELSE 0
        /\ \A kind \in {"ok", "err"} :
              Queued(kind, op) # {} => kind \in Due(op) \cap callback[op]

Ended(op) == kernel[op] \in {"ok", "err", "refused"}

Settled(op) ==
    stage[op] = "done" /\ Queued("ok", op) = {} /\ Queued("err", op) = {}

\* An operation that has ended is reported and freed, even if others in its group
\* are polled for ever, unless its signal was merged with another.
EndedIsReported ==
    \A op \in Ops : Ended(op) ~> (Settled(op) \/ op \in dropped \/ crashed)

\* "ok - pointer to a callback function to be called when I/O was performed
\* successfully": with signals, too, an operation that has ended is reported.
SignalledIsReported ==
    \A op \in Ops : (signalBuild /\ Ended(op)) ~> Settled(op)
=============================================================================
