\* Two callers, one of them perhaps in another thread, a batch of two, a stop() that may
\* be interrupted, a manager that refuses leases, drops work and raises from release().
SPECIFICATION FairSpec
CONSTANTS
    Items = {i1, i2}
    Stoppers = {s1}
    Threshold = 2
    WaitFors = {TRUE, FALSE}
    ReleaseMayRaise = TRUE
    MayInterrupt = TRUE
INVARIANTS
    TypeOK
    NothingForgotten
    NobodySleepsOverWork
    ReturnsDrained
PROPERTIES
    ImplementsService
    CancelledPendingNeverRuns
    AcceptedIsResolved
    StopEnds
