\* Two operations of one group, with every kind of callback, in both builds.
CONSTANTS
    o1 = o1
    o2 = o2
    g1 = g1
    Ops = {o1, o2}
    Groups = {g1}
    id <- MCid
    Callbacks <- MCCallbacks
    NoOp = NoOp
SPECIFICATION Spec
INVARIANTS
    TypeOK
    BlocksOutliveOperation
    ReportedExactlyOnce
PROPERTY EndedIsReported
