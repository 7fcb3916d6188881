\* Work outlives the lease it was submitted under.
SPECIFICATION Spec
CONSTANTS
    Clients = {c1}
    Leases = {l1}
    Futures = {f1, f2}
    Executors = {e1, e2}
    CheckerTasks = {t1}
    Stoppers = {}
    MaxPools = 1
    MinPools = 1
    UnitsPerPool = 1
    Readings = {0}
    CreateMayFail = FALSE
    MayBreak = FALSE
    NoExecutor = NoExecutor
    NoLease = NoLease
    NoTask = NoTask
INVARIANTS
    WorkersBounded
\* A manager nobody calls, with nothing under way, may rest.
CHECK_DEADLOCK FALSE
