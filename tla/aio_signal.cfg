\* Completion by signal against the documentation of the callbacks.
CONSTANTS
    o1 = o1
    o2 = o2
    g1 = g1
    Ops = {o1, o2}
    Groups = {g1}
    id <- MCid
    Callbacks <- MCCallbacks
    NoOp = NoOp
SPECIFICATION Spec
PROPERTY SignalledIsReported
