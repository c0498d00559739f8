\* Two client threads and the loop; two operations end, one more task is enqueued.
CONSTANTS
    Completions = {o1, o2}
    ClientTasks = {t1}
    Callers = {c1, c2}
    Loop = Loop
    NoThread = NoThread
    NoTask = NoTask
SPECIFICATION Spec
INVARIANTS
    TypeOK
    DeadlockNeedsPendingTasks
PROPERTY CompletionRuns
\* Threads may deadlock, and a corrupted container ends a behaviour.
CHECK_DEADLOCK FALSE
