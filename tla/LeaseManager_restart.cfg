\* Two tasks stop the manager, and others restart it, while a lease, its future and the
\* callback go their ways.
SPECIFICATION Spec
CONSTANTS
    Clients = {c1}
    Leases = {l1}
    Futures = {f1}
    Executors = {e1, e2}
    CheckerTasks = {t1, t2}
    Stoppers = {s1, s2}
    MaxPools = 1
    MinPools = 1
    UnitsPerPool = 1
    Readings = {0}
    CreateMayFail = FALSE
    MayBreak = FALSE
    NoExecutor = NoExecutor
    NoLease = NoLease
    NoTask = NoTask
INVARIANTS
    StoppedIsEmpty
    OwnedOnce
    NothingLeaks
\* A manager nobody calls, with nothing under way, may rest.
CHECK_DEADLOCK FALSE
