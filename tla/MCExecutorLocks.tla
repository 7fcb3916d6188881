--------------------------- MODULE MCExecutorLocks ---------------------------
EXTENDS ExecutorLocks

\* What a manager may have: thread pools, and process pools of a CPython that resolves the
\* futures of a broken one under its lock, or without it.
SafeThreads       == [processes |-> FALSE, fails |-> FALSE, locked |-> TRUE]
FailingThreads    == [SafeThreads EXCEPT !.fails = TRUE]
LockedProcesses   == [FailingThreads EXCEPT !.processes = TRUE]
UnlockedProcesses == [LockedProcesses EXCEPT !.locked = FALSE]
AllPools == {SafeThreads, FailingThreads, LockedProcesses, UnlockedProcesses}

\* Those that break under their lock.
LockedBreakers == {FailingThreads, LockedProcesses}
=============================================================================
