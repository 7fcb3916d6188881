\* Two callers wait for the one executor while its last lease drains, and across a stop() and
\* a restart. No symmetry.
SPECIFICATION FairSpec
CONSTANTS
    Clients = {c1, c2}
    Leases = {l1}
    Futures = {f1}
    Executors = {e1, e2}
    CheckerTasks = {t1}
    Stoppers = {s1}
    MaxPools = 1
    MinPools = 1
    UnitsPerPool = 1
    Readings = {0}
    CreateMayFail = FALSE
    MayBreak = FALSE
    NoExecutor = NoExecutor
    NoLease = NoLease
    NoTask = NoTask
INVARIANTS
    NoStrandedWaiter
PROPERTIES
    ImplementsService
    ExpiredIsRevoked
    DrainCompletes
    WaiterIsServed
    DoomedIsShutDown
    StopCompletes
\* A manager nobody calls, with nothing under way, may rest.
CHECK_DEADLOCK FALSE
