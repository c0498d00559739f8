----------------------------- MODULE DelayedTask -----------------------------
(***************************************************************************)
(* lib/delayed_task.cc: a task that a POSIX timer hands to the dispatcher. *)
(*                                                                         *)
(* The owner creates the object (Init), resets its timer and destroys it.  *)
(* Every expiry of the timer starts a thread (SIGEV_THREAD) that runs      *)
(* timeoutHandler; such a thread may still be on its way to mutex_ when    *)
(* the owner acts.  resetTimer does not take mutex_.  A delay of zero,     *)
(* which the constructor and resetTimer pass on, stops the timer.          *)
(***************************************************************************)
EXTENDS Naturals, FiniteSets

CONSTANTS
    Handlers,       \* the threads that the timer may start, one per expiry
    Owner,          \* the thread that owns the object
    Nobody,         \* "mutex_ is free"
    MaxResets       \* bound on the calls of resetTimer

ASSUME HandlersAssumption == Owner \notin Handlers /\ Nobody \notin Handlers
ASSUME OwnerAssumption == Owner # Nobody
ASSUME MaxResetsAssumption == MaxResets \in Nat
\* The timer is armed at most once by the constructor and by each reset.
ASSUME EnoughHandlers == Cardinality(Handlers) = MaxResets + 1

VARIABLES
    mutex,          \* who holds mutex_
    hasCompleted,
    timer,          \* "armed", "expired", "disarmed" (by a zero delay) or "deleted"
    task,           \* "held", "enqueued", "performed" or "deleted"
    ownerPc,        \* "idle", "dtor", "cancel", "gone", or "aborted" by an assert
    handlerPc,      \* per handler thread
    resets,         \* calls of resetTimer so far
    deletions,      \* history: calls of timer_delete
    badAccess       \* history: a handler used the object after its destruction

vars == <<mutex, hasCompleted, timer, task, ownerPc, handlerPc, resets, deletions,
          badAccess>>

HandlerLocations ==
    {"unborn", "started", "locked", "enqueued", "timerDeleted", "ended"}

TypeOK ==
    /\ mutex \in Handlers \cup {Owner, Nobody}
    /\ hasCompleted \in BOOLEAN
    /\ timer \in {"armed", "expired", "disarmed", "deleted"}
    /\ task \in {"held", "enqueued", "performed", "deleted"}
    /\ ownerPc \in {"idle", "dtor", "cancel", "gone", "aborted"}
    /\ handlerPc \in [Handlers -> HandlerLocations]
    /\ resets \in 0 .. MaxResets
    /\ deletions \in Nat
    /\ badAccess \in BOOLEAN

\* What timer_settime makes of a timer: a zero it_value disarms it.
Delays == {"zero", "positive"}

SetTime(delay) == IF delay = "zero" THEN "disarmed" ELSE "armed"

\* The constructor has created the timer and set it to the delay it was given.
Init ==
    /\ mutex = Nobody
    /\ hasCompleted = FALSE
    /\ \E delay \in Delays : timer = SetTime(delay)
    /\ task = "held"
    /\ ownerPc = "idle"
    /\ handlerPc = [h \in Handlers |-> "unborn"]
    /\ resets = 0
    /\ deletions = 0
    /\ badAccess = FALSE

-----------------------------------------------------------------------------
(* The timer and the dispatcher *)

\* The timer expires (it_interval is zero, so once per arming) and the C
\* library starts a thread for it.
Expire(h) ==
    /\ ownerPc # "aborted"
    /\ timer = "armed"
    /\ handlerPc[h] = "unborn"
    /\ timer' = "expired"
    /\ handlerPc' = [handlerPc EXCEPT ![h] = "started"]
    /\ UNCHANGED <<mutex, hasCompleted, task, ownerPc, resets, deletions, badAccess>>

\* The dispatcher executes the task.
Perform ==
    /\ ownerPc # "aborted"
    /\ task = "enqueued"
    /\ task' = "performed"
    /\ UNCHANGED <<mutex, hasCompleted, timer, ownerPc, handlerPc, resets, deletions,
                   badAccess>>

-----------------------------------------------------------------------------
(* timeoutHandler *)

\* Entering the object: its mutex must still exist.
HandlerLock(h) ==
    /\ handlerPc[h] = "started"
    /\ ownerPc # "gone"
    /\ mutex = Nobody
    /\ mutex' = h
    /\ handlerPc' = [handlerPc EXCEPT ![h] = "locked"]
    /\ UNCHANGED <<hasCompleted, timer, task, ownerPc, resets, deletions, badAccess>>

\* Use after free: what the handler does from here is undefined, so badAccess
\* takes such a run out of what the properties say.
HandlerTooLate(h) ==
    /\ handlerPc[h] = "started"
    /\ ownerPc = "gone"
    /\ badAccess' = TRUE
    /\ handlerPc' = [handlerPc EXCEPT ![h] = "ended"]
    /\ UNCHANGED <<mutex, hasCompleted, timer, task, ownerPc, resets, deletions>>

\* Another handler has completed the task.
HandlerNothingToDo(h) ==
    /\ handlerPc[h] = "locked"
    /\ hasCompleted
    /\ mutex' = Nobody
    /\ handlerPc' = [handlerPc EXCEPT ![h] = "ended"]
    /\ UNCHANGED <<hasCompleted, timer, task, ownerPc, resets, deletions, badAccess>>

\* Mutant: hasCompleted_ is not tested.
HandlerEnqueuesAgain(h) ==
    /\ handlerPc[h] = "locked"
    /\ task' = "enqueued"
    /\ handlerPc' = [handlerPc EXCEPT ![h] = "enqueued"]
    /\ UNCHANGED <<mutex, hasCompleted, timer, ownerPc, resets, deletions, badAccess>>

HandlerEnqueue(h) ==
    /\ handlerPc[h] = "locked"
    /\ ~hasCompleted
    /\ task' = "enqueued"
    /\ handlerPc' = [handlerPc EXCEPT ![h] = "enqueued"]
    /\ UNCHANGED <<mutex, hasCompleted, timer, ownerPc, resets, deletions, badAccess>>

HandlerDeleteTimer(h) ==
    /\ handlerPc[h] = "enqueued"
    /\ timer' = "deleted"
    /\ deletions' = deletions + 1
    /\ handlerPc' = [handlerPc EXCEPT ![h] = "timerDeleted"]
    /\ UNCHANGED <<mutex, hasCompleted, task, ownerPc, resets, badAccess>>

HandlerComplete(h) ==
    /\ handlerPc[h] = "timerDeleted"
    /\ hasCompleted' = TRUE
    /\ mutex' = Nobody
    /\ handlerPc' = [handlerPc EXCEPT ![h] = "ended"]
    /\ UNCHANGED <<timer, task, ownerPc, resets, deletions, badAccess>>

HandlerStep(h) ==
    /\ ownerPc # "aborted"
    /\ \/ HandlerLock(h) \/ HandlerTooLate(h) \/ HandlerNothingToDo(h)
       \/ HandlerEnqueue(h) \/ HandlerDeleteTimer(h) \/ HandlerComplete(h)

-----------------------------------------------------------------------------
(* The owner *)

\* assert(timer_settime(...) == 0): the call fails on a deleted timer.
resetTimer(newDelay) ==
    /\ ownerPc = "idle"
    /\ resets < MaxResets
    /\ resets' = resets + 1
    /\ IF timer = "deleted"
       THEN ownerPc' = "aborted" /\ UNCHANGED timer
       ELSE timer' = SetTime(newDelay) /\ UNCHANGED ownerPc
    /\ UNCHANGED <<mutex, hasCompleted, task, handlerPc, deletions, badAccess>>

DtorLock ==
    /\ ownerPc = "idle"
    /\ mutex = Nobody
    /\ mutex' = Owner
    /\ ownerPc' = "dtor"
    /\ UNCHANGED <<hasCompleted, timer, task, handlerPc, resets, deletions, badAccess>>

DtorDeleteTimer ==
    /\ ownerPc = "dtor"
    /\ ~hasCompleted
    /\ timer' = "deleted"
    /\ deletions' = deletions + 1
    /\ ownerPc' = "cancel"
    /\ UNCHANGED <<mutex, hasCompleted, task, handlerPc, resets, badAccess>>

\* Mutant: the destructor forgets to delete the task.
DtorForgetsTask ==
    /\ ownerPc = "cancel"
    /\ hasCompleted' = TRUE
    /\ mutex' = Nobody
    /\ ownerPc' = "gone"
    /\ UNCHANGED <<timer, task, handlerPc, resets, deletions, badAccess>>

DtorCancel ==
    /\ ownerPc = "cancel"
    /\ task' = "deleted"
    /\ hasCompleted' = TRUE
    /\ mutex' = Nobody
    /\ ownerPc' = "gone"
    /\ UNCHANGED <<timer, handlerPc, resets, deletions, badAccess>>

DtorNothingToDo ==
    /\ ownerPc = "dtor"
    /\ hasCompleted
    /\ mutex' = Nobody
    /\ ownerPc' = "gone"
    /\ UNCHANGED <<hasCompleted, timer, task, handlerPc, resets, deletions, badAccess>>

Dtor == DtorDeleteTimer \/ DtorCancel \/ DtorNothingToDo

\* Nothing is left to happen: the task is settled, abort() has ended every thread,
\* or the timer stands still.
Terminated ==
    /\ \/ task \in {"performed", "deleted"} \/ ownerPc = "aborted"
       \/ timer = "disarmed"
    /\ UNCHANGED vars

Next ==
    \/ \E h \in Handlers : Expire(h) \/ HandlerStep(h)
    \/ Perform
    \/ \E newDelay \in Delays : resetTimer(newDelay)
    \/ DtorLock \/ Dtor
    \/ Terminated

\* Time passes, started threads run, the dispatcher serves its queue; nobody has
\* to reset or destroy.
Fairness ==
    /\ \A h \in Handlers : WF_vars(HandlerStep(h))
    /\ WF_vars(\E h \in Handlers : Expire(h))
    /\ WF_vars(Perform)
    /\ WF_vars(Dtor)

SafetySpec == Init /\ [][Next]_vars

Spec == SafetySpec /\ Fairness

-----------------------------------------------------------------------------
(* Properties *)

\* However many expiries and resets race, the task is handed over or deleted,
\* never both and never twice, and the timer is deleted once: whoever settles the
\* task finds it held, and once it is settled hasCompleted_ says so to everybody
\* who gets mutex_ later.  The unlocked timer_settime of resetTimer fails its
\* assertion only when the task has already been handed over.  (timeoutHandler,
\* resetTimer and the destructor, until a handler enters the destroyed object.)
SettledOnce ==
    \/ badAccess
    \/ /\ deletions <= 1
       /\ mutex = Nobody => (hasCompleted <=> task # "held")
       /\ mutex = Nobody => (hasCompleted <=> timer = "deleted")
       /\ ownerPc = "aborted" => task \in {"enqueued", "performed"}

Settled == task \in {"performed", "deleted"} \/ ownerPc = "aborted" \/ badAccess

\* The task is eventually performed, or deleted with the object, with one
\* exception: a timer that the constructor or the last resetTimer was given a
\* delay of zero for stands still, and the task waits for good.  A reset can
\* postpone the task, and a zero delay stop it, only until the timer has expired:
\* the thread started then settles the task whatever the owner sets afterwards.
TaskSettles ==
    /\ <>Settled \/ <>[](timer = "disarmed")
    /\ (timer = "expired") ~> Settled
=============================================================================
