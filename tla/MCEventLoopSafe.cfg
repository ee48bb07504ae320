\* Three clients, batches of two: more descriptors are ready than a batch holds.
CONSTANTS
    Fd = {f1, f2, f3}
    Listen = listen
    None = None
    MaxEvents = 2
    MaxChunks = 2
    MaxInbox = 2
    MaxBacklog = 1
SPECIFICATION Spec
SYMMETRY FdSymmetry
INVARIANTS TypeOK NoGhosts
PROPERTIES WatchedWhileLive
CHECK_DEADLOCK FALSE
