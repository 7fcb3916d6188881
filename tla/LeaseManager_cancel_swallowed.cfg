\* The checker's cancellation against its reaping of a timed-out wait.
SPECIFICATION Spec
CONSTANTS
    Clients = {c1}
    Leases = {l1}
    Futures = {}
    Executors = {e1, e2}
    CheckerTasks = {t1}
    Stoppers = {s1}
    MaxPools = 1
    MinPools = 1
    UnitsPerPool = 1
    Readings = {0}
    CreateMayFail = FALSE
    MayBreak = FALSE
    NoExecutor = NoExecutor
    NoLease = NoLease
    NoTask = NoTask
INVARIANTS
    CancellationIsKept
\* A manager nobody calls, with nothing under way, may rest.
CHECK_DEADLOCK FALSE
