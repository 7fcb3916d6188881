\* Two futures on leases of one executor, which may break; creating an executor may raise
\* at every place that creates one.
SPECIFICATION Spec
CONSTANTS
    Clients = {c1}
    Leases = {l1}
    Futures = {f1, f2}
    Executors = {e1, e2}
    CheckerTasks = {t1}
    Stoppers = {}
    MaxPools = 1
    MinPools = 1
    UnitsPerPool = 1
    Readings = {0}
    CreateMayFail = TRUE
    MayBreak = TRUE
    NoExecutor = NoExecutor
    NoLease = NoLease
    NoTask = NoTask
INVARIANTS
    OwnedOnce
    WorkIsOwners
    DrainingHasWork
    CapacityBound
PROPERTIES
    TaintedIsNotReused
    LeasesEndForCause
\* A manager nobody calls, with nothing under way, may rest.
CHECK_DEADLOCK FALSE
