\* One executor of two workers, of every kind a manager may have, and one thread beside the
\* event loop. Fairness; no symmetry.
SPECIFICATION FairSpec
CONSTANTS
    Executors = {e1}
    Futures = {f1, f2, f3}
    WorkersPerPool = 2
    Callers = {c1}
    Loop = Loop
    Pools <- AllPools
    Nobody = Nobody
INVARIANTS
    TypeOK
    NeverBlocksItself
    LocksAreOrdered
PROPERTIES
    CallsEnd
    DoomedIsDrained
\* Every future is submitted once; then, and in the deadlock of pools that break under their
\* lock, nothing need happen.
CHECK_DEADLOCK FALSE
