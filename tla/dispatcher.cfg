\* Two client threads, the loop thread and three tasks of two groups.  No
\* symmetry: temporal properties.
CONSTANTS
    t1 = t1
    t2 = t2
    t3 = t3
    g1 = g1
    g2 = g2
    Tasks = {t1, t2, t3}
    Groups = {g1, g2}
    id <- MCid
    Callers = {c1, c2}
    Loop = Loop
    NoThread = NoThread
    NoTask = NoTask
SPECIFICATION Spec
INVARIANTS
    TypeOK
    NoTaskStranded
    CountsMatchQueue
    TasksFreedOnce
    NotBusyMeansFinished
    NoLostWakeup
PROPERTIES
    ImplementsExecutor
    AcceptedTaskSettles
    DestructorEnds
