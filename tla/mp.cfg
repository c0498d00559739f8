\* Two dispatchers, two client threads, three tasks of two groups, both builds.
CONSTANTS
    t1 = t1
    t2 = t2
    t3 = t3
    g1 = g1
    g2 = g2
    Tasks = {t1, t2, t3}
    Groups = {g1, g2}
    id <- MCid
    hasher <- MChasher
    concurrentTaskCount = 2
    Callers = {c1, c2}
    NoTask = NoTask
SPECIFICATION Spec
INVARIANTS
    TypeOK
    GroupsAreSequential
    FalseMeansNoPendingJobsIfNoSpread
PROPERTY DestructionSettlesTasks
