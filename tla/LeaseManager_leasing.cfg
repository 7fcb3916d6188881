\* Two callers compete for one executor or two, as the size signal moves the target; one
\* future, so that leases drain.
SPECIFICATION Spec
CONSTANTS
    Clients = {c1, c2}
    Leases = {l1, l2}
    Futures = {f1}
    Executors = {e1, e2, e3}
    CheckerTasks = {t1}
    Stoppers = {}
    MaxPools = 2
    MinPools = 1
    UnitsPerPool = 1
    Readings = {0, 2}
    CreateMayFail = FALSE
    MayBreak = FALSE
    NoExecutor = NoExecutor
    NoLease = NoLease
    NoTask = NoTask
SYMMETRY ClientSymmetry
INVARIANTS
    TypeOK
    OwnedOnce
    CheckerCoversLeases
    NoStrandedWaiter
    CapacityBound
    FloorKept
    NothingLeaks
\* A manager nobody calls, with nothing under way, may rest.
CHECK_DEADLOCK FALSE
