\* Four threads; the value starts at -1, as for a barrier of two tasks.  Six calls
\* of up: two to reach zero, and one for every thread that may sleep.
CONSTANTS
    SemThreads = {t1, t2, t3, t4}
    Threshold = 2
    initVal <- MCinitVal
    MaxUps = 6
SPECIFICATION SemSpec
INVARIANTS
    UnitsHaveTakers
    DownsAreCovered
PROPERTY DownReturns
