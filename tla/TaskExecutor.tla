---------------------------- MODULE TaskExecutor ----------------------------
(***************************************************************************)
(* What an event dispatcher promises to its clients, without threads,      *)
(* locks or memory: a serial executor.  Tasks are accepted while it is     *)
(* open, executed one at a time in the order in which they were accepted,  *)
(* each at most once, and once its destruction has begun the tasks not yet *)
(* started are dropped.  Stated from the documentation of                  *)
(* EventDispatcherInterface and EventDispatcher; EventDispatcher.tla is    *)
(* shown to implement it.                                                  *)
(***************************************************************************)
EXTENDS Sequences

CONSTANTS
    Tasks,      \* the tasks clients may ever submit
    NoTask      \* not a task

VARIABLES
    pending,    \* accepted and not started, oldest first
    running,    \* the task being executed, or NoTask
    outcome,    \* what has become of each task
    mode        \* "open", "stopped" (refuses new tasks) or "dying"

vars == <<pending, running, outcome, mode>>

Outcomes == {"new", "accepted", "executed", "discarded"}

TypeOK ==
    /\ pending \in Seq(Tasks)
    /\ running \in Tasks \cup {NoTask}
    /\ outcome \in [Tasks -> Outcomes]
    /\ mode \in {"open", "stopped", "dying"}

Init ==
    /\ pending = <<>>
    /\ running = NoTask
    /\ outcome = [t \in Tasks |-> "new"]
    /\ mode = "open"

\* An open executor accepts a new task behind all the others.
Submit(t) ==
    /\ mode = "open"
    /\ outcome[t] = "new"
    /\ pending' = Append(pending, t)
    /\ outcome' = [outcome EXCEPT ![t] = "accepted"]
    /\ UNCHANGED <<running, mode>>

\* A stopped or dying executor discards the task it is offered.
Refuse(t) ==
    /\ mode # "open"
    /\ outcome[t] = "new"
    /\ outcome' = [outcome EXCEPT ![t] = "discarded"]
    /\ UNCHANGED <<pending, running, mode>>

\* The oldest pending task starts, if none is running; none starts any more
\* once the executor is dying.
Begin ==
    /\ mode # "dying"
    /\ running = NoTask
    /\ pending # <<>>
    /\ running' = Head(pending)
    /\ pending' = Tail(pending)
    /\ UNCHANGED <<outcome, mode>>

End ==
    /\ running # NoTask
    /\ running' = NoTask
    /\ outcome' = [outcome EXCEPT ![running] = "executed"]
    /\ UNCHANGED <<pending, mode>>

\* A dying executor throws its remaining tasks away, oldest first.
Drop ==
    /\ mode = "dying"
    /\ running = NoTask
    /\ pending # <<>>
    /\ pending' = Tail(pending)
    /\ outcome' = [outcome EXCEPT ![Head(pending)] = "discarded"]
    /\ UNCHANGED <<running, mode>>

Stop ==
    /\ mode = "open"
    /\ mode' = "stopped"
    /\ UNCHANGED <<pending, running, outcome>>

Resume ==
    /\ mode = "stopped"
    /\ mode' = "open"
    /\ UNCHANGED <<pending, running, outcome>>

\* Only a stopped executor starts to die, and it stays so.
Kill ==
    /\ mode = "stopped"
    /\ mode' = "dying"
    /\ UNCHANGED <<pending, running, outcome>>

Next ==
    \/ \E t \in Tasks : Submit(t) \/ Refuse(t)
    \/ Begin \/ End \/ Drop
    \/ Stop \/ Resume \/ Kill

Spec == Init /\ [][Next]_vars
=============================================================================
