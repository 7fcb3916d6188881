\* README.md:80, "Deferred executor shutdown from future callbacks to avoid callback-thread
\* deadlocks or hangs", against the code: one pool, whose initializer raises, or whose worker
\* process dies.
SPECIFICATION Spec
CONSTANTS
    Executors = {e1}
    Futures = {f1, f2}
    WorkersPerPool = 1
    Callers = {}
    Loop = Loop
    Pools <- LockedBreakers
    Nobody = Nobody
INVARIANTS
    NoDeadlock
CHECK_DEADLOCK FALSE
