\* The four workers of the server, two callers of which one is the owner.
CONSTANTS
    w1 = w1  w2 = w2  w3 = w3  w4 = w4
    t1 = t1  t2 = t2  t3 = t3
    None = None
    Worker = {w1, w2, w3, w4}
    Caller = {main, other}
    Owner = main
    Task = {t1, t2, t3}
    Weight <- MCWeight
SPECIFICATION FairSpec
INVARIANTS TypeOK WriterIsBlocked NoLostWakeup WorkConserving ShutdownDrains
PROPERTIES ImplementsPool SendReturns DtorReturns
