---------------------------- MODULE LeaseManager ----------------------------
(***************************************************************************)
(* LeasedExecutorManager (manager.py): a bounded pool of executors that    *)
(* are leased to callers, with a background checker that revokes overdue   *)
(* leases and keeps the pool at its target size.                           *)
(*                                                                         *)
(* Who runs.  The event loop runs start, stop, acquire, release, the       *)
(* checker task and the callbacks of call_soon_threadsafe, one at a time   *)
(* between two awaits.  Worker threads run the submitted functions and the *)
(* done-callbacks of their futures.  self._lock makes each locked section  *)
(* atomic, so one action is one locked section, with the code of the call  *)
(* around it; what a callback still does after it left the section (shut   *)
(* an executor down, wake the waiters and the checker) is owed, and is a   *)
(* step of its own.                                                        *)
(*                                                                         *)
(* Abstractions.  Time: a lease's hard expiry passes in a step Expire,     *)
(* timers may fire whenever they are armed.  The deque of available        *)
(* executors is a set.  Lease ids, executors and futures come from finite  *)
(* sets and are used again; a reference to a lease id that left _leased,   *)
(* which can never be found there again (uuid4), becomes NoLease.          *)
(***************************************************************************)
EXTENDS Sizing, FiniteSets

CONSTANTS
    Clients,        \* tasks that acquire, submit and release
    Leases,         \* lease ids (uuid4 in the code)
    Futures,        \* futures of submitted work
    Executors,      \* executors of the backend
    CheckerTasks,   \* asyncio tasks running _checker_loop
    Stoppers,       \* tasks that may call stop()
    MaxPools, MinPools, UnitsPerPool,
    Readings,       \* what size_provider may answer
    CreateMayFail,  \* whether build_executor may raise
    MayBreak,       \* whether executors may break
    NoExecutor, NoLease, NoTask

ASSUME PoolAssumption ==
    /\ MaxPools \in Nat /\ MinPools \in Nat /\ UnitsPerPool \in Nat
    /\ 1 <= MinPools /\ MinPools <= MaxPools /\ 1 <= UnitsPerPool
    /\ Readings \subseteq Int

ASSUME FiniteAssumption ==
    IsFiniteSet(Leases) /\ IsFiniteSet(Executors) /\ IsFiniteSet(Futures)

ASSUME NoneAssumption ==
    NoExecutor \notin Executors /\ NoLease \notin Leases /\ NoTask \notin CheckerTasks

ASSUME FlagAssumption == CreateMayFail \in BOOLEAN /\ MayBreak \in BOOLEAN

VARIABLES
    started, stopping,  \* _started, _stopping
    bound,              \* _loop and both events are set (not None)
    available,          \* _available
    leased,             \* keys of _leased
    executor,           \* record.executor per lease
    pending,            \* record.pending_futures per lease
    releaseRequested,   \* leases whose record.release_requested is set
    expired,            \* leases past hard_expires_at
    status,             \* per executor: down, up, broken
    future,             \* per future: its state, the lease id its callback looks up, its executor
    owed,               \* callbacks that left the lock: the executor each has to shut down, if any
    deferred,           \* executors whose shutdown is queued on the loop or a thread
    reading,            \* what size_provider answers now
    pc, handle,         \* per client: where it is, and the lease it holds
    availSet,           \* _availability_event is set
    availQueued,        \* an _availability_event.set is queued on the loop
    scaleQueued,        \* a _scale_change_event.set is queued on the loop
    checkerTask,        \* _checker_task
    checker,            \* per checker task: where it is
    cancelled,          \* checker tasks with a cancellation on its way
    unwatched,          \* leases whose expiry the last checker pass did not count in
    awaiting            \* per stopper: the checker task its stop() awaits

managerVars == <<started, stopping, bound>>
leaseVars   == <<leased, executor, pending, releaseRequested, expired, unwatched>>
workVars    == <<status, future, owed, deferred>>
clientVars  == <<pc, handle>>
eventVars   == <<availSet, availQueued, scaleQueued>>
checkerVars == <<checkerTask, checker, cancelled, awaiting>>

vars == <<managerVars, available, leaseVars, workVars, reading, clientVars,
          eventVars, checkerVars>>

NoWork == [state |-> "none", lease |-> NoLease, executor |-> NoExecutor]

FutureStates == {"queued", "running", "done", "broken"}

TypeOK ==
    /\ started \in BOOLEAN /\ stopping \in BOOLEAN /\ bound \in BOOLEAN
    /\ available \subseteq Executors
    /\ leased \subseteq Leases
    /\ executor \in [Leases -> Executors \cup {NoExecutor}]
    /\ pending \in [Leases -> SUBSET Futures]
    /\ releaseRequested \subseteq leased
    /\ expired \subseteq leased
    /\ status \in [Executors -> {"down", "up", "broken"}]
    /\ future \in [Futures -> [state : FutureStates \cup {"none"},
                               lease : Leases \cup {NoLease},
                               executor : Executors \cup {NoExecutor}]]
    /\ owed \subseteq Executors \cup {NoExecutor}
    /\ deferred \subseteq Executors
    /\ reading \in Readings
    /\ pc \in [Clients -> {"idle", "waiting", "woken", "evicted", "holding"}]
    /\ handle \in [Clients -> Leases \cup {NoLease}]
    /\ availSet \in BOOLEAN /\ availQueued \in BOOLEAN /\ scaleQueued \in BOOLEAN
    /\ checkerTask \in CheckerTasks \cup {NoTask}
    /\ checker \in [CheckerTasks -> {"ready", "waiting", "reaping", "adrift", "done"}]
    /\ cancelled \subseteq CheckerTasks
    /\ unwatched \subseteq leased
    /\ awaiting \in [Stoppers -> CheckerTasks \cup {NoTask}]

Init ==
    /\ started = FALSE /\ stopping = FALSE /\ bound = FALSE
    /\ available = {} /\ leased = {}
    /\ executor = [l \in Leases |-> NoExecutor]
    /\ pending = [l \in Leases |-> {}]
    /\ releaseRequested = {} /\ expired = {}
    /\ status = [e \in Executors |-> "down"]
    /\ future = [f \in Futures |-> NoWork]
    /\ owed = {} /\ deferred = {}
    /\ reading \in Readings
    /\ pc = [c \in Clients |-> "idle"]
    /\ handle = [c \in Clients |-> NoLease]
    /\ availSet = FALSE /\ availQueued = FALSE /\ scaleQueued = FALSE
    /\ checkerTask = NoTask
    /\ checker = [t \in CheckerTasks |-> "done"]
    /\ cancelled = {} /\ unwatched = {}
    /\ awaiting = [s \in Stoppers |-> NoTask]

-----------------------------------------------------------------------------
\* Sizing.

Desired == DesiredCount(reading, MinPools, MaxPools, UnitsPerPool)

\* Mutants of Shortfall: the leases are not counted; the loop ends one too early, or
\* one too late.
ShortfallOfIdle(free, held) ==
    LET missing == Desired - Cardinality(free) IN IF missing > 0 THEN missing ELSE 0
ShortfallLessOne(free, held) ==
    LET missing == Desired - (Cardinality(free) + Cardinality(held))
    IN  IF missing > 1 THEN missing - 1 ELSE 0
ShortfallOneMore(free, held) ==
    LET missing == Desired - (Cardinality(free) + Cardinality(held))
    IN  IF missing >= 0 THEN missing + 1 ELSE 0

\* How many executors _ensure_minimum_locked creates for these two sets.
Shortfall(free, held) ==
    LET missing == Desired - (Cardinality(free) + Cardinality(held))
    IN  IF missing > 0 THEN missing ELSE 0

\* How many idle executors _shrink_idle_if_above_target_locked shuts down, by what the
\* size provider answers then.
Surplus(free, held) ==
    LET over == Cardinality(free) + Cardinality(held) - Desired'
    IN  IF over <= 0 THEN 0 ELSE IF over < Cardinality(free) THEN over ELSE Cardinality(free)

\* Executors build_executor can return: nothing refers to them any more.
Fresh == {e \in Executors : status[e] = "down" /\ \A f \in Futures : future[f].executor # e}

\* A canonical choice of n fresh executors; which ones does not matter.
NextExecutors(n) == CHOOSE S \in SUBSET Fresh : Cardinality(S) = n

\* The locked section creates n executors, made, and all succeed; or one raises
\* after those in made.  A step that needs more fresh executors than are left is
\* disabled: Executors is the bound.
Creates(made, n)     == Cardinality(made) = n /\ made = NextExecutors(n)
CreateRaises(made, n) ==
    CreateMayFail /\ Cardinality(made) < n /\ made = NextExecutors(Cardinality(made))

Held(ls) == {executor[l] : l \in ls}

\* Mutant of StatusAfter: the shutdown is forgotten.
StatusNotDown(down, made) ==
    [e \in Executors |-> IF e \in made THEN "up" ELSE status[e]]

\* The executors after those in down were shut down and those in made created.
StatusAfter(down, made) ==
    [e \in Executors |-> IF e \in down THEN "down" ELSE IF e \in made THEN "up" ELSE status[e]]

\* The futures after the leases in gone left _leased, the executors in down were shut
\* down with cancel_futures and the callbacks of those in called have run. The
\* callbacks of the futures cancelled here find no lease: it was popped before.
FutureAfter(gone, down, called) ==
    [f \in Futures |->
        IF f \in called \/ (future[f].state = "queued" /\ future[f].executor \in down) THEN NoWork
        ELSE IF future[f].lease \in gone THEN [future[f] EXCEPT !.lease = NoLease]
        ELSE future[f]]

\* Mutant of Drop: the release request outlives the record.
DropKeepsRequest(gone) ==
    /\ leased' = leased \ gone
    /\ executor' = [l \in Leases |-> IF l \in gone THEN NoExecutor ELSE executor[l]]
    /\ pending' = [l \in Leases |-> IF l \in gone THEN {} ELSE pending[l]]
    /\ releaseRequested' = releaseRequested
    /\ expired' = expired \ gone

\* The records of the leases in gone leave _leased.
Drop(gone) ==
    /\ leased' = leased \ gone
    /\ executor' = [l \in Leases |-> IF l \in gone THEN NoExecutor ELSE executor[l]]
    /\ pending' = [l \in Leases |-> IF l \in gone THEN {} ELSE pending[l]]
    /\ releaseRequested' = releaseRequested \ gone
    /\ expired' = expired \ gone

Forget(gone) == Drop(gone) /\ unwatched' = unwatched \ gone

\* The leases callers hold after those in gone left _leased.
HandleAfter(gone) ==
    [c \in Clients |-> IF handle[c] \in gone THEN NoLease ELSE handle[c]]

\* Mutants of WakeWaiters and WakeChecker: the call is missing.
WakesNoWaiters == UNCHANGED availQueued
WakesNoChecker == UNCHANGED scaleQueued

\* _wake_waiters and _wake_checker; nothing happens when the manager has no loop.
WakeWaiters == availQueued' = (availQueued \/ bound)
WakeChecker == scaleQueued' = (scaleQueued \/ bound)

-----------------------------------------------------------------------------
\* start() and stop().

FreshTasks == {t \in CheckerTasks : checker[t] = "done" /\ \A s \in Stoppers : awaiting[s] # t}

\* How many executors start() creates: those a checker task left over from an earlier run
\* put into the pool count.
StartNeed == Shortfall(available, leased)

\* start(): new events, the minimum of executors, a checker task.
Start ==
    /\ ~started
    /\ \E made \in SUBSET Fresh, t \in FreshTasks :
        /\ Creates(made, StartNeed)
        /\ t = CHOOSE free \in FreshTasks : TRUE
        /\ available' = available \cup made
        /\ status' = StatusAfter({}, made)
        /\ checkerTask' = t
        /\ checker' = [checker EXCEPT ![t] = "ready"]
    /\ started' = TRUE /\ stopping' = FALSE /\ bound' = TRUE
    /\ availSet' = FALSE /\ availQueued' = FALSE /\ scaleQueued' = FALSE
    /\ UNCHANGED <<leaseVars, future, owed, deferred, reading, clientVars, cancelled, awaiting>>

\* start() when creating an executor raises: all are shut down and the call raises.
\* The loop and the events stay set.
StartRaises ==
    /\ ~started
    /\ \E made \in SUBSET Fresh : CreateRaises(made, StartNeed)
    /\ available' = {}
    /\ status' = StatusAfter(available \cup Held(leased), {})
    /\ future' = FutureAfter(leased, available \cup Held(leased), {})
    /\ handle' = HandleAfter(leased)
    /\ Forget(leased)
    /\ stopping' = FALSE /\ bound' = TRUE
    /\ availSet' = FALSE /\ availQueued' = FALSE /\ scaleQueued' = FALSE
    /\ UNCHANGED <<started, owed, deferred, reading, pc, checkerVars>>

\* stop() up to its await of the checker task, which it cancels.  A started manager
\* has a checker task, so the branch without one is not taken.
StopCall(s) ==
    /\ started /\ awaiting[s] = NoTask /\ checkerTask # NoTask
    /\ stopping' = TRUE
    /\ cancelled' = IF checker[checkerTask] = "done" THEN cancelled ELSE cancelled \cup {checkerTask}
    /\ awaiting' = [awaiting EXCEPT ![s] = checkerTask]
    /\ UNCHANGED <<started, bound, available, leaseVars, workVars, reading, clientVars, eventVars,
                   checkerTask, checker>>

\* Mutant of EvictedPc: stop does not set the event it drops.
NobodyEvicted == pc

\* The waiters after stop set their event and dropped it.
EvictedPc ==
    [c \in Clients |-> IF pc[c] \in {"waiting", "woken"} THEN "evicted" ELSE pc[c]]

\* stop() after the await.  It takes down whatever the manager has then; the waiters'
\* event is set a last time and dropped.
StopFinish(s) ==
    /\ awaiting[s] # NoTask /\ checker[awaiting[s]] = "done"
    /\ awaiting' = [awaiting EXCEPT ![s] = NoTask]
    /\ checkerTask' = NoTask
    /\ available' = {}
    /\ status' = StatusAfter(available \cup Held(leased), {})
    /\ future' = FutureAfter(leased, available \cup Held(leased), {})
    /\ handle' = HandleAfter(leased)
    /\ Forget(leased)
    /\ started' = FALSE /\ stopping' = FALSE /\ bound' = FALSE
    /\ pc' = EvictedPc
    /\ checker' = [t \in CheckerTasks |-> IF checker[t] = "waiting" THEN "adrift" ELSE checker[t]]
    /\ availSet' = FALSE /\ availQueued' = FALSE /\ scaleQueued' = FALSE
    /\ UNCHANGED <<owed, deferred, reading, cancelled>>

-----------------------------------------------------------------------------
\* acquire().

\* The caller's attempt: a first one, or the next round of its loop. A waiter of the
\* present events clears the event first (finally); one of dropped events clears those.
Attempting(c) == pc[c] \in {"idle", "woken", "evicted"}
ClearOwnEvent(c) == availSet' = (availSet /\ pc[c] # "woken")

\* Executors _revoke_expired_leases_locked creates: only when it revoked something.
RevokeNeed == IF expired = {} THEN 0 ELSE Shortfall(available, leased \ expired)

\* With those that _take_or_create_available_locked adds when none is available.
AcquireNeed ==
    IF available = {} /\ RevokeNeed = 0 /\ Cardinality(leased \ expired) < MaxPools
    THEN 1 ELSE RevokeNeed

\* An attempt that ends with a new lease l on e.
AcquireGrant(c) ==
    /\ Attempting(c) /\ started /\ ~stopping
    /\ \E made \in SUBSET Fresh, l \in Leases \ leased :
        /\ Creates(made, AcquireNeed)
        /\ l = CHOOSE free \in Leases \ leased : TRUE
        /\ \E e \in available \cup made :
            /\ available' = (available \cup made) \ {e}
            /\ executor' = [k \in Leases |-> IF k = l THEN e
                                             ELSE IF k \in expired THEN NoExecutor ELSE executor[k]]
        /\ status' = StatusAfter(Held(expired), made)
        /\ future' = FutureAfter(expired, Held(expired), {})
        /\ leased' = (leased \ expired) \cup {l}
        /\ pending' = [k \in Leases |-> IF k \in expired \cup {l} THEN {} ELSE pending[k]]
        /\ releaseRequested' = releaseRequested \ expired
        /\ expired' = {}
        /\ unwatched' = (unwatched \ expired) \cup {l}
        /\ handle' = [HandleAfter(expired) EXCEPT ![c] = l]
    /\ pc' = [pc EXCEPT ![c] = "holding"]
    /\ ClearOwnEvent(c)
    /\ WakeChecker
    /\ UNCHANGED <<managerVars, owed, deferred, reading, availQueued, checkerVars>>

\* No executor to be had: the caller gives up (wait=False, the timeout has passed) or
\* waits for the event, which returns at once when it is already set. Revoking a lease
\* would have made room, so there is none overdue here.
AcquireBlocked(c) ==
    /\ Attempting(c) /\ started /\ ~stopping
    /\ expired = {} /\ available = {} /\ Cardinality(leased) >= MaxPools
    /\ ClearOwnEvent(c)
    /\ \/ pc' = [pc EXCEPT ![c] = "idle"]
       \/ pc' = [pc EXCEPT ![c] = IF availSet' THEN "woken" ELSE "waiting"]
    /\ UNCHANGED <<managerVars, available, leaseVars, workVars, reading, handle, availQueued,
                   scaleQueued, checkerVars>>

\* A waiter resumes and finds the manager stopped or stopping.
AcquireRefused(c) ==
    /\ pc[c] \in {"woken", "evicted"} /\ (~started \/ stopping)
    /\ pc' = [pc EXCEPT ![c] = "idle"]
    /\ ClearOwnEvent(c)
    /\ UNCHANGED <<managerVars, available, leaseVars, workVars, reading, handle, availQueued,
                   scaleQueued, checkerVars>>

\* Creating an executor raises inside acquire: the overdue leases are gone, the
\* executors made before the exception stay available, the caller gets the exception.
AcquireRaises(c) ==
    /\ Attempting(c) /\ started /\ ~stopping
    /\ \E made \in SUBSET Fresh :
        /\ CreateRaises(made, AcquireNeed)
        /\ available' = available \cup made
        /\ status' = StatusAfter(Held(expired), made)
    /\ future' = FutureAfter(expired, Held(expired), {})
    /\ handle' = HandleAfter(expired)
    /\ Forget(expired)
    /\ pc' = [pc EXCEPT ![c] = "idle"]
    /\ ClearOwnEvent(c)
    /\ UNCHANGED <<managerVars, owed, deferred, reading, availQueued, scaleQueued, checkerVars>>

\* The wait ends by its timeout or by a cancellation of the caller; finally clears the
\* event the caller waited for.
GiveUp(c) ==
    /\ pc[c] \in {"waiting", "woken", "evicted"}
    /\ pc' = [pc EXCEPT ![c] = "idle"]
    /\ availSet' = (availSet /\ pc[c] = "evicted")
    /\ UNCHANGED <<managerVars, available, leaseVars, workVars, reading, handle, availQueued,
                   scaleQueued, checkerVars>>

-----------------------------------------------------------------------------
\* Leaving _leased: retire and finalize.

\* Mutant of DebtOf: the executor is shut down although it went back to the pool.
DebtAlways(l, back) == executor[l]

\* What is left to shut down after the locked section.
DebtOf(l, back) == IF back = {} THEN executor[l] ELSE NoExecutor

\* The lease is popped, the executors in back (its own, or none) go back to the pool
\* and the minimum is restored. After the locked section an executor that did not go
\* back is shut down and both events are set: at once by a caller, later by a
\* callback. When creating an executor raises, neither happens. The futures in
\* called are those whose callback this is.
Leave(l, back, called, callback) ==
    LET need == Shortfall(available \cup back, leased \ {l})
        debt == DebtOf(l, back)
    IN  /\ \E made \in SUBSET Fresh :
            /\ \/ /\ Creates(made, need) /\ callback
                  /\ owed' = owed \cup {debt}
                  /\ status' = StatusAfter({}, made)
                  /\ future' = FutureAfter({l}, {}, called)
                  /\ UNCHANGED <<availQueued, scaleQueued>>
               \/ /\ Creates(made, need) /\ ~callback
                  /\ status' = StatusAfter({debt}, made)
                  /\ future' = FutureAfter({l}, {debt}, called)
                  /\ WakeWaiters /\ WakeChecker
                  /\ UNCHANGED owed
               \/ /\ CreateRaises(made, need)
                  /\ status' = StatusAfter({}, made)
                  /\ future' = FutureAfter({l}, {}, called)
                  /\ UNCHANGED <<owed, availQueued, scaleQueued>>
            /\ available' = available \cup back \cup made
        /\ Forget({l})

\* _retire_broken_record_locked; the expiry branch of _submit_for_lease does the same.
Retire(l, called, callback) == Leave(l, {}, called, callback)

\* Mutant of Keeps: no look at the hard expiry.
KeepsOverdue(l) ==
    ~stopping /\ Cardinality(available) + Cardinality(leased \ {l}) + 1 <= Desired

\* _finalize_released_record_locked: the executor goes back to the pool when the
\* manager is not stopping, the lease is not overdue and the target has room for it.
Keeps(l) ==
    /\ ~stopping /\ l \notin expired
    /\ Cardinality(available) + Cardinality(leased \ {l}) + 1 <= Desired

Finalize(l, called, callback) ==
    Leave(l, IF Keeps(l) THEN {executor[l]} ELSE {}, called, callback)

-----------------------------------------------------------------------------
\* What a lease holder does.

\* _submit_for_lease: the lease is overdue and is revoked (LeaseExpiredError), its
\* executor is broken and is retired (BrokenExecutor), or the work is queued and
\* tracked. With the lease gone the call only raises.
Submit(c) ==
    LET l == handle[c]
    IN  /\ pc[c] = "holding" /\ l \in leased /\ l \notin releaseRequested
        /\ \/ /\ l \in expired \/ status[executor[l]] = "broken"
              /\ Retire(l, {}, FALSE)
              /\ handle' = HandleAfter({l})
           \/ /\ l \notin expired /\ status[executor[l]] = "up"
              /\ \E f \in Futures :
                    /\ future[f] = NoWork
                    /\ f = CHOOSE g \in Futures : future[g] = NoWork
                    /\ future' = [future EXCEPT ![f] =
                                    [state |-> "queued", lease |-> l, executor |-> executor[l]]]
                    /\ pending' = [pending EXCEPT ![l] = @ \cup {f}]
              /\ UNCHANGED <<available, leased, executor, releaseRequested, expired, unwatched,
                             status, owed, handle, availQueued, scaleQueued>>
    /\ UNCHANGED <<managerVars, deferred, reading, pc, availSet, checkerVars>>

\* Mutant of Draining: release finalizes whatever is pending.
DrainingNever(l) == FALSE

\* record.pending_futures keeps the lease in its draining state.
Draining(l) == pending[l] # {}

\* ExecutorLease.release, which calls the manager once: a lease with work pending is
\* left draining, one without is finalized, one that is gone is let be.
Release(c) ==
    LET l == handle[c]
    IN  /\ pc[c] = "holding"
        /\ \/ /\ l \notin leased
              /\ UNCHANGED <<available, leaseVars, status, future, owed, availQueued, scaleQueued>>
           \/ /\ l \in leased /\ Draining(l)
              /\ releaseRequested' = releaseRequested \cup {l}
              /\ UNCHANGED <<available, leased, executor, pending, expired, unwatched, status,
                             future, owed, availQueued, scaleQueued>>
           \/ /\ l \in leased /\ ~Draining(l)
              /\ Finalize(l, {}, FALSE)
        /\ pc' = [pc EXCEPT ![c] = "idle"]
        /\ handle' = [handle EXCEPT ![c] = NoLease]
    /\ UNCHANGED <<managerVars, deferred, reading, availSet, checkerVars>>

\* The caller cancels a future whose work has not begun.
CancelFuture(f) ==
    /\ future[f].state = "queued"
    /\ future' = [future EXCEPT ![f].state = "done"]
    /\ UNCHANGED <<managerVars, available, leaseVars, status, owed, deferred, reading, clientVars,
                   eventVars, checkerVars>>

\* The hard expiry of a lease passes.
Expire(l) ==
    /\ l \in leased \ expired
    /\ expired' = expired \cup {l}
    /\ UNCHANGED <<managerVars, available, leased, executor, pending, releaseRequested, unwatched,
                   workVars, reading, clientVars, eventVars, checkerVars>>

\* The size signal changes; the application may call notify_scale_changed.
ChangeUnits ==
    /\ \E r \in Readings \ {reading} : reading' = r
    /\ scaleQueued' \in {scaleQueued, scaleQueued \/ bound}
    /\ UNCHANGED <<managerVars, available, leaseVars, workVars, clientVars, availSet, availQueued,
                   checkerVars>>

-----------------------------------------------------------------------------
\* The executors (concurrent.futures, as the code uses it) and the future callbacks.

\* A worker takes a queued work item; after shutdown or a break there is none left.
StartWork(f) ==
    /\ future[f].state = "queued" /\ status[future[f].executor] = "up"
    /\ future' = [future EXCEPT ![f].state = "running"]
    /\ UNCHANGED <<managerVars, available, leaseVars, status, owed, deferred, reading, clientVars,
                   eventVars, checkerVars>>

\* The function ends; its exception may itself be a BrokenExecutor of another pool.
EndWork(f) ==
    /\ future[f].state = "running"
    /\ \/ future' = [future EXCEPT ![f].state = "done"]
       \/ MayBreak /\ future' = [future EXCEPT ![f].state = "broken"]
    /\ UNCHANGED <<managerVars, available, leaseVars, status, owed, deferred, reading, clientVars,
                   eventVars, checkerVars>>

\* A worker process dies or an initializer fails: the executor fails the work it has
\* queued, and of the running work what ran in the lost workers.
Break(e) ==
    /\ MayBreak /\ status[e] = "up"
    /\ status' = [status EXCEPT ![e] = "broken"]
    /\ \E lost \in SUBSET {f \in Futures : future[f].state = "running" /\ future[f].executor = e} :
        future' = [f \in Futures |->
                     IF f \in lost \/ (future[f].state = "queued" /\ future[f].executor = e)
                     THEN [future[f] EXCEPT !.state = "broken"] ELSE future[f]]
    /\ UNCHANGED <<managerVars, available, leaseVars, owed, deferred, reading, clientVars,
                   eventVars, checkerVars>>

\* Mutants of LastOf: the callback leaves a drained lease alone; the first callback of a
\* released lease finalizes it.
LastOfNone(f, l) == FALSE
LastOfAny(f, l) == l \in releaseRequested

\* f is the future that a released lease l was still waiting for.
LastOf(f, l) == l \in releaseRequested /\ pending[l] \ {f} = {}

\* _on_lease_future_done up to the end of its locked section: a BrokenExecutor retires
\* the lease, the last future of a released lease finalizes it.
Callback(f) ==
    LET l == future[f].lease
    IN  /\ future[f].state \in {"done", "broken"}
        /\ \/ /\ l \in leased /\ future[f].state = "broken"
              /\ Retire(l, {f}, TRUE)
              /\ handle' = HandleAfter({l})
           \/ /\ l \in leased /\ future[f].state = "done" /\ LastOf(f, l)
              /\ Finalize(l, {f}, TRUE)
              /\ UNCHANGED handle
           \/ /\ l \in leased /\ future[f].state = "done" /\ ~LastOf(f, l)
              /\ pending' = [pending EXCEPT ![l] = @ \ {f}]
              /\ future' = [future EXCEPT ![f] = NoWork]
              /\ UNCHANGED <<available, leased, executor, releaseRequested, expired, unwatched,
                             status, owed, handle, availQueued, scaleQueued>>
           \/ /\ l \notin leased
              /\ future' = [future EXCEPT ![f] = NoWork]
              /\ UNCHANGED <<available, leaseVars, status, owed, handle, availQueued, scaleQueued>>
    /\ UNCHANGED <<managerVars, deferred, reading, pc, availSet, checkerVars>>

\* Mutant of Defers: the shutdown is lost when stop() has dropped the loop.
DefersToLoop(debt) == deferred' = IF bound THEN deferred \cup ({debt} \ {NoExecutor}) ELSE deferred

\* _shutdown_executor_from_callback: the executor to shut down, if any, is queued on the
\* loop, and without a loop on a thread.
Defers(debt) == deferred' = deferred \cup ({debt} \ {NoExecutor})

\* The rest of the callback: it has the executor shut down and wakes the waiters and
\* the checker.
Settle(debt) ==
    /\ debt \in owed
    /\ owed' = owed \ {debt}
    /\ Defers(debt)
    /\ WakeWaiters /\ WakeChecker
    /\ UNCHANGED <<managerVars, available, leaseVars, status, future, reading, clientVars, availSet,
                   checkerVars>>

\* A queued _shutdown_executor runs.
RunShutdown(e) ==
    /\ e \in deferred
    /\ deferred' = deferred \ {e}
    /\ status' = StatusAfter({e}, {})
    /\ future' = FutureAfter({}, {e}, {})
    /\ UNCHANGED <<managerVars, available, leaseVars, owed, reading, clientVars, eventVars, checkerVars>>

-----------------------------------------------------------------------------
\* Callbacks of call_soon_threadsafe on the loop.

\* Mutant of Resumed: the event resumes one of its waiters.
ResumedOne ==
    IF \A c \in Clients : pc[c] # "waiting" THEN {}
    ELSE {CHOOSE c \in Clients : pc[c] = "waiting"}

\* Event.set() resumes every task that waits for the event.
Resumed == {c \in Clients : pc[c] = "waiting"}

\* _availability_event.set().
SetAvailability ==
    /\ availQueued
    /\ availQueued' = FALSE /\ availSet' = TRUE
    /\ pc' = [c \in Clients |-> IF c \in Resumed THEN "woken" ELSE pc[c]]
    /\ UNCHANGED <<managerVars, available, leaseVars, workVars, reading, handle, scaleQueued, checkerVars>>

\* _scale_change_event.set(). The flag itself is not kept: a pass clears it when it
\* begins, and no callback runs between that and the pass's wait.
SetScaleChange ==
    /\ scaleQueued
    /\ scaleQueued' = FALSE
    /\ checker' = [t \in CheckerTasks |-> IF checker[t] = "waiting" THEN "ready" ELSE checker[t]]
    /\ UNCHANGED <<managerVars, available, leaseVars, workVars, reading, clientVars, availSet,
                   availQueued, checkerTask, cancelled, awaiting>>

-----------------------------------------------------------------------------
\* _checker_loop and _wait_for_checker_event.

\* The timeout of the wait. The task cancels its wait on the event and awaits that
\* inside suppress(CancelledError): it is reaping. A task whose event was dropped by
\* stop() has only its timeout.
CheckerTimer(t) ==
    /\ checker[t] \in {"waiting", "adrift"} /\ t \notin cancelled
    /\ checker' = [checker EXCEPT ![t] = "reaping"]
    /\ UNCHANGED <<managerVars, available, leaseVars, workVars, reading, clientVars, eventVars,
                   checkerTask, cancelled, awaiting>>

\* Mutant of Cancellable: only the wait lets a cancellation through.
CancellableInWait(t) == checker[t] = "waiting"

\* Where a cancellation of the task gets through.
Cancellable(t) == checker[t] \in {"ready", "waiting", "adrift"}

\* A cancellation ends the task.
CheckerCancelled(t) ==
    /\ t \in cancelled /\ Cancellable(t)
    /\ checker' = [checker EXCEPT ![t] = "done"]
    /\ cancelled' = cancelled \ {t}
    /\ UNCHANGED <<managerVars, available, leaseVars, workVars, reading, clientVars, eventVars,
                   checkerTask, awaiting>>

\* Mutant of Resumes: after a timeout the task is not resumed.
ResumesOnEvent(t) == checker[t] = "ready" /\ t \notin cancelled

\* The task goes on to its next pass. Coming from reaping it does so even when it was
\* cancelled meanwhile: suppress ate the cancellation.
Resumes(t) == checker[t] = "reaping" \/ (checker[t] = "ready" /\ t \notin cancelled)

\* One pass: revoke what is overdue, restore the minimum, shrink what is idle above the
\* target (the size provider is asked again for that), look up the next expiry, wake
\* the waiters, wait.
CheckerPass(t) ==
    LET held == leased \ expired
    IN  /\ Resumes(t) /\ bound
        /\ reading' \in Readings
        /\ \E made \in SUBSET Fresh : \E idle \in SUBSET (available \cup made) :
            LET full == available \cup made
            IN  /\ Creates(made, Shortfall(available, held))
                /\ Cardinality(idle) = Surplus(full, held)
                /\ available' = full \ idle
                /\ status' = StatusAfter(Held(expired) \cup idle, made)
                /\ future' = FutureAfter(expired, Held(expired) \cup idle, {})
        /\ handle' = HandleAfter(expired)
        /\ Drop(expired) /\ unwatched' = {}
        /\ WakeWaiters
        /\ checker' = [checker EXCEPT ![t] = "waiting"]
        /\ cancelled' = cancelled \ {t}
        /\ UNCHANGED <<managerVars, owed, deferred, pc, availSet, scaleQueued,
                       checkerTask, awaiting>>

\* A pass in which creating an executor raises: the task logs it and ends.
CheckerCrashes(t) ==
    /\ Resumes(t) /\ bound
    /\ \E made \in SUBSET Fresh :
        /\ CreateRaises(made, Shortfall(available, leased \ expired))
        /\ available' = available \cup made
        /\ status' = StatusAfter(Held(expired), made)
    /\ future' = FutureAfter(expired, Held(expired), {})
    /\ handle' = HandleAfter(expired)
    /\ Forget(expired)
    /\ checker' = [checker EXCEPT ![t] = "done"]
    /\ cancelled' = cancelled \ {t}
    /\ UNCHANGED <<managerVars, owed, deferred, reading, pc, eventVars, checkerTask, awaiting>>

\* A task that outlived its manager's stop finds no event: the assertion fails.
CheckerUnbound(t) ==
    /\ Resumes(t) /\ ~bound
    /\ checker' = [checker EXCEPT ![t] = "done"]
    /\ cancelled' = cancelled \ {t}
    /\ UNCHANGED <<managerVars, available, leaseVars, workVars, reading, clientVars, eventVars,
                   checkerTask, awaiting>>

-----------------------------------------------------------------------------
Resume(c) ==
    /\ pc[c] \in {"woken", "evicted"}
    /\ AcquireGrant(c) \/ AcquireBlocked(c) \/ AcquireRefused(c) \/ AcquireRaises(c)

Call(c) ==
    \/ pc[c] = "idle" /\ (AcquireGrant(c) \/ AcquireBlocked(c) \/ AcquireRaises(c))
    \/ Submit(c) \/ Release(c)

CheckerStep(t) ==
    \/ CheckerCancelled(t) \/ CheckerPass(t) \/ CheckerCrashes(t) \/ CheckerUnbound(t)

Next ==
    \/ Start \/ StartRaises
    \/ \E s \in Stoppers : StopCall(s) \/ StopFinish(s)
    \/ \E c \in Clients : Call(c) \/ Resume(c) \/ GiveUp(c)
    \/ \E f \in Futures : StartWork(f) \/ EndWork(f) \/ CancelFuture(f) \/ Callback(f)
    \/ \E e \in Executors : Break(e) \/ RunShutdown(e)
    \/ \E l \in Leases : Expire(l)
    \/ \E debt \in Executors \cup {NoExecutor} : Settle(debt)
    \/ \E t \in CheckerTasks : CheckerTimer(t) \/ CheckerStep(t)
    \/ SetAvailability \/ SetScaleChange
    \/ ChangeUnits

Spec == Init /\ [][Next]_vars

\* The loop runs what is ready, threads go on, and the submitted functions end. Nobody
\* has to call anything, least of all release(), and timers need not fire: the check
\* interval may last forever.
Fairness ==
    /\ \A c \in Clients : WF_vars(Resume(c))
    /\ WF_vars(SetAvailability) /\ WF_vars(SetScaleChange)
    /\ \A t \in CheckerTasks : WF_vars(CheckerStep(t))
    /\ \A s \in Stoppers : WF_vars(StopFinish(s))
    /\ \A f \in Futures : WF_vars(StartWork(f)) /\ WF_vars(EndWork(f)) /\ WF_vars(Callback(f))
    /\ \A e \in Executors \cup {NoExecutor} : WF_vars(Settle(e)) /\ WF_vars(RunShutdown(e))

FairSpec == Spec /\ Fairness

-----------------------------------------------------------------------------
\* Safety.

\* Everything the manager owns or still has to shut down.
Owned == available \cup Held(leased)
Doomed == (owed \ {NoExecutor}) \cup deferred

\* max_pools bounds the executors the manager owns through every path that creates
\* one: start, acquire, the checker, and the replacement of a lease that leaves from
\* a worker thread.
CapacityBound == Cardinality(available) + Cardinality(leased) <= MaxPools

\* A started manager never falls below min_pools, whichever call or callback takes
\* an executor away (while creating executors succeeds).
FloorKept == started => Cardinality(available) + Cardinality(leased) >= MinPools

\* An executor has one owner: one lease, or the pool, or the thread that has to shut
\* it down; and one that can still be leased or used has not been shut down.
OwnedOnce ==
    /\ \A l \in leased : executor[l] \in Executors \ (available \cup Doomed)
    /\ \A k, l \in leased : executor[k] = executor[l] => k = l
    /\ available \cap Doomed = {}
    /\ \A e \in Owned : status[e] # "down"

\* Leases do not share an executor's workers one after the other: no work is queued
\* or running on an available executor, and all work on a leased one is its lease's
\* and is tracked, so releasing cannot hand it over early.
WorkIsOwners ==
    \A f \in Futures : future[f].state \in {"queued", "running"} =>
        /\ future[f].executor \notin available
        /\ \A l \in leased : executor[l] = future[f].executor =>
                future[f].lease = l /\ f \in pending[l]

\* A draining lease waits for something: each future it tracks is one whose callback
\* is still to come, and there is at least one.
DrainingHasWork ==
    \A l \in leased :
        /\ l \in releaseRequested => pending[l] # {}
        /\ \A f \in pending[l] : future[f].state # "none" /\ future[f].lease = l

\* No executor is lost: whatever was created and not shut down is owned, or some
\* callback or queued call is about to shut it down.
NothingLeaks ==
    \A e \in Executors : status[e] # "down" => e \in Owned \cup Doomed

\* While the checker sleeps, its timeout counts in every lease, or its wakeup is on
\* the way: a lease shorter than the check interval is revoked in time.
CheckerCoversLeases ==
    started /\ ~stopping /\ checker[checkerTask] = "waiting" => unwatched = {} \/ scaleQueued

\* There is room for one more lease.
Roomy == available # {} \/ Cardinality(leased) < MaxPools

\* No lost wakeup, although each waiter clears the event it shares with the others:
\* with room and a waiter, a set of the event is queued, or somebody who will queue
\* one (a callback, the checker) is on the way.
NoStrandedWaiter ==
    \A c \in Clients : pc[c] = "waiting" /\ ~stopping =>
        /\ started /\ ~availSet
        /\ Roomy => \/ availQueued \/ scaleQueued \/ owed # {}
                    \/ checker[checkerTask] \in {"ready", "reaping"}

\* A stopped manager owns nothing, has no checker and nobody waits for it, whatever
\* calls and callbacks ran between stop's call and its end.
StoppedIsEmpty ==
    ~started =>
        /\ Owned = {} /\ checkerTask = NoTask
        /\ \A c \in Clients : pc[c] \notin {"waiting", "woken"}

\* A lease that leaves past its hard expiry, or by the callback of a future that
\* failed with BrokenExecutor, takes its executor along: neither the pool nor a new
\* lease has it after the step.
TaintedIsNotReused ==
    [][\A l \in leased \ leased' :
          \/ l \in expired
          \/ \E f \in pending[l] : future[f].state = "broken" /\ future'[f] = NoWork
        => executor[l] \notin Owned']_vars

\* A lease ends for a cause (it is overdue, its executor broke, the manager stops, or its
\* holder released it), and for a release alone never before its own work is over: what
\* was submitted under a lease in good standing is neither cancelled nor cut off.
Broke(l) == status[executor[l]] = "broken" \/ \E f \in pending[l] : future[f].state = "broken"
Releases(l) == l \in releaseRequested \/ \E c \in Clients : handle[c] = l /\ handle'[c] = NoLease
LeasesEndForCause ==
    [][\A l \in leased \ leased' :
          \/ l \in expired \/ Broke(l) \/ ~started'
          \/ /\ Releases(l)
             /\ \A f \in Futures : future[f].lease = l => future[f].state \in {"done", "broken"}]_vars

\* Where an executor is for those who lease, and who has it: LeaseService in terms of
\* this module.
TenantOf(e) == {l \in leased : executor[l] = e}
PlaceOf(e) ==
    IF e \in available THEN "idle"
    ELSE IF TenantOf(e) # {} THEN IF TenantOf(e) \subseteq releaseRequested THEN "draining" ELSE "leased"
    ELSE IF e \in Doomed THEN "parting" ELSE "none"
AtWork == {future[f].executor : f \in {g \in Futures : future[g].state \in {"queued", "running"}}}

Service == INSTANCE LeaseService WITH
    place  <- [e \in Executors |-> PlaceOf(e)],
    tenant <- [e \in Executors |-> IF TenantOf(e) = {} THEN NoLease ELSE CHOOSE l \in TenantOf(e) : TRUE],
    busy   <- AtWork

\* The manager keeps the promises of LeaseService: an executor is built or granted with
\* nobody's work on it, is used by its tenant alone and only before the release, goes
\* back only when that work is over, and what was given up does not come back.
ImplementsService == Service!Spec

-----------------------------------------------------------------------------
\* Liveness, under FairSpec.

\* If the checker's timer fires, an overdue lease is revoked even if its holder never
\* calls again.
TimersFire == \A t \in CheckerTasks : WF_vars(CheckerTimer(t))
ExpiredIsRevoked == TimersFire => \A l \in Leases : []<>(l \notin expired)

\* A released lease whose work ends leaves the manager, without the checker too.
DrainCompletes == \A l \in Leases : []<>(l \notin releaseRequested)

\* Of the callers that wait together, nobody waits forever while there is room forever
\* (others may still be faster), without the checker's interval to look after them:
\* whoever makes room wakes them all, or the one it woke takes the room.
WaiterIsServed == \A c \in Clients : []<>~(pc[c] \in {"waiting", "woken"} /\ Roomy)

\* An executor the manager gave up is shut down in the end, also when stop() ran in
\* between, and also when its callback comes after the loop was dropped.
DoomedIsShutDown == \A e \in Executors : []<>(e \in Owned \/ status[e] = "down")

\* The cancellation by the stop() of s is on its way to the checker, or did its work.
CancelKept(s) == awaiting[s] \in cancelled \/ checker[awaiting[s]] = "done"

\* A stop() that does not end has lost its cancellation, and it is lost to a checker that
\* is just reaping its wait, and nowhere else; for that see CancellationIsKept.
StopCompletes ==
    /\ [][\A s \in Stoppers : awaiting'[s] # NoTask /\ ~CancelKept(s)' =>
            \/ checker[awaiting'[s]] = "reaping"
            \/ awaiting[s] = awaiting'[s] /\ ~CancelKept(s)]_vars
    /\ \A s \in Stoppers : []<>(awaiting[s] = NoTask \/ ~CancelKept(s))

-----------------------------------------------------------------------------
\* What the repository says and the code does not do.

\* manager.py:649, "Wait for checker wakeup or timeout without swallowing
\* cancellation": while stop() awaits the checker, its cancellation is still on the
\* way or the checker has ended.
CancellationIsKept == \A s \in Stoppers : awaiting[s] # NoTask => CancelKept(s)

\* guides/process-backend.rst:97, "leasepool retires that executor instead of returning
\* it to the available pool": an executor that broke while it was leased is not
\* available when its lease ends.
BrokenIsRetired ==
    [][\A l \in leased \ leased' :
          status[executor[l]] = "broken" => executor[l] \notin available']_vars

\* concepts.rst:36, "up to 2 executor objects" of 4 workers, "up to 8 worker threads total
\* for that manager": no more than max_pools executors have workers at work.
WorkersBounded ==
    Cardinality({future[f].executor : f \in {g \in Futures : future[g].state = "running"}}) <= MaxPools
=============================================================================
