--------------------------- MODULE ExecutorLocks ---------------------------
(***************************************************************************)
(* The locks of a LeasedExecutorManager: its own, self._lock, and in each  *)
(* of its executors, thread pools or process pools, the _shutdown_lock.    *)
(*                                                                         *)
(* The manager calls submit() and some shutdown()s under its lock and the  *)
(* other shutdown()s outside it.  Some of what an executor does resolves   *)
(* futures under the executor's lock, and the callbacks of these,          *)
(* _on_lease_future_done, take the manager's: shutdown() and               *)
(* _initializer_failed() of a thread pool, terminate_broken() of a process *)
(* pool in the CPython versions that lock there.  The manager's lock is    *)
(* reentrant, the executor's is not.                                       *)
(*                                                                         *)
(* A critical section that waits for nothing is one step, taken when its   *)
(* lock is free.  LeaseManager has what these sections decide; here it is  *)
(* whether a lease is overdue, a drained executor kept, the pool too big:  *)
(* any of it may be.  A worker is <<its executor, its number>>; of a       *)
(* process pool, number 1 is the thread that manages it, which alone       *)
(* resolves its futures, and the others do not exist.                      *)
(***************************************************************************)
EXTENDS Naturals, FiniteSets

CONSTANTS
    Executors, Futures,
    WorkersPerPool,
    Callers,        \* threads that submit, or run a deferred shutdown
    Loop,           \* the thread of the event loop
    Pools,          \* the kinds of executors the manager may have
    Nobody

Workers == Executors \X (1..WorkersPerPool)
Others  == {Loop} \cup Callers
Threads == Others \cup Workers

PoolKinds ==
    [processes : BOOLEAN,   \* process pools, else thread pools
     fails     : BOOLEAN,   \* initializers may raise, worker processes die
     locked    : BOOLEAN]   \* terminate_broken() takes the lock; thread pools always do

ASSUME LocksAssumption ==
    /\ WorkersPerPool \in Nat /\ Pools \subseteq PoolKinds
    /\ Loop \notin Callers /\ Others \cap Workers = {} /\ Nobody \notin Threads
    /\ Nobody \notin Executors /\ Nobody \notin Futures

VARIABLES
    lock,       \* who holds self._lock
    guard,      \* per executor: who holds its _shutdown_lock
    lease,      \* per executor: where it is (one not built yet is unused)
    broken,     \* executors that broke: an initializer raised, a process died
    shut,       \* executors somebody called shutdown() of
    deferred,   \* executors whose shutdown a callback deferred, or stop() has to do
    state, home,    \* per future: its state, its executor
    pending,    \* futures in the pending_futures of their lease, with the callback
    at,         \* per thread: where it is
    on, item,   \* per thread: the executor and the future it deals with
    pool        \* what the backend's executors are

vars == <<lock, guard, lease, broken, shut, deferred, state, home, pending, at, on, item, pool>>

TypeOK ==
    /\ lock \in Threads \cup {Nobody}
    /\ guard \in [Executors -> Threads \cup {Nobody}]
    /\ lease \in [Executors -> {"unused", "pooled", "leased", "draining", "gone"}]
    /\ broken \subseteq Executors /\ shut \subseteq Executors /\ deferred \subseteq Executors
    /\ state \in [Futures -> {"none", "queued", "running", "done", "broken"}]
    /\ home \in [Futures -> Executors \cup {Nobody}]
    /\ pending \subseteq Futures
    /\ at \in [Threads -> {"idle", "submit", "hook", "close", "drain", "notify", "more",
                           "new", "init", "failing", "ready", "run", "report", "dead"}]
    /\ on \in [Threads -> Executors \cup {Nobody}]
    /\ item \in [Threads -> Futures \cup {Nobody}]
    /\ pool \in PoolKinds
    /\ \A t \in Threads : lock = t => at[t] \in {"submit", "hook", "close", "drain", "notify", "more"}
    /\ \A t \in Threads, e \in Executors :
        guard[e] = t <=> on[t] = e /\ at[t] \in {"drain", "notify"}

Init ==
    /\ lock = Nobody /\ guard = [e \in Executors |-> Nobody]
    /\ lease = [e \in Executors |-> "unused"]
    /\ broken = {} /\ shut = {} /\ deferred = {}
    /\ state = [f \in Futures |-> "none"] /\ home = [f \in Futures |-> Nobody]
    /\ pending = {}
    /\ at = [t \in Threads |-> IF t \in Workers THEN "new" ELSE "idle"]
    /\ on = [t \in Threads |-> IF t \in Workers THEN t[1] ELSE Nobody]
    /\ item = [t \in Threads |-> Nobody]
    /\ pool \in Pools

futureVars == <<state, home, pending>>
poolVars   == <<lease, broken, shut, deferred>>

-----------------------------------------------------------------------------
\* The manager.

Free(t)  == lock \in {Nobody, t}
Queue(e) == {f \in Futures : home[f] = e /\ state[f] = "queued"}
Unresolved(e) == {f \in Futures : home[f] = e /\ state[f] \in {"queued", "running"}}
PendingOn(e) == {f \in pending : home[f] = e}

Moves(t, place) == at' = [at EXCEPT ![t] = place]

\* Mutant of Unlocks: a way out of a locked section that keeps the lock.
UnlocksNot == UNCHANGED lock

Unlocks == lock' = Nobody

\* t goes on to shutdown() of e.
Closes(t, e) == Moves(t, "close") /\ on' = [on EXCEPT ![t] = e]

\* acquire: from the pool, or an executor built for it.
Acquire(e) ==
    /\ at[Loop] = "idle" /\ lock = Nobody
    /\ lease[e] \in {"unused", "pooled"}
    /\ lease' = [lease EXCEPT ![e] = "leased"]
    /\ UNCHANGED <<lock, guard, broken, shut, deferred, futureVars, at, on, item, pool>>

\* _submit_for_lease up to executor.submit; an overdue lease is popped instead, and its
\* executor shut down outside the lock.
SubmitCall(t, e) ==
    /\ at[t] = "idle" /\ lock = Nobody /\ lease[e] = "leased"
    /\ \E f \in Futures : state[f] = "none"
    /\ \/ /\ lock' = t /\ Moves(t, "submit") /\ on' = [on EXCEPT ![t] = e]
          /\ UNCHANGED lease
       \/ /\ lease' = [lease EXCEPT ![e] = "gone"]
          /\ Closes(t, e)
          /\ UNCHANGED lock
    /\ UNCHANGED <<guard, broken, shut, deferred, futureVars, item, pool>>

\* executor.submit, which takes the executor's lock under the manager's. A broken pool
\* raises: the lease is retired and the executor shut down outside the lock.
SubmitToExecutor(t) ==
    /\ at[t] = "submit" /\ guard[on[t]] = Nobody
    /\ \/ /\ on[t] \in broken
          /\ lease' = [lease EXCEPT ![on[t]] = "gone"]
          /\ Unlocks /\ Moves(t, "close")
          /\ UNCHANGED <<state, home, item>>
       \/ /\ on[t] \notin broken
          /\ \E f \in Futures :
              /\ state[f] = "none"
              /\ state' = [state EXCEPT ![f] = "queued"]
              /\ home' = [home EXCEPT ![f] = on[t]]
              /\ item' = [item EXCEPT ![t] = f]
          /\ Moves(t, "hook") /\ UNCHANGED <<lease, lock>>
    /\ UNCHANGED <<guard, broken, shut, deferred, pending, on, pool>>

\* Mutant of Defers: the callback shuts the executor down itself.
ShutsDownInside(t, e, place) == Moves(t, "close") /\ UNCHANGED deferred

\* _shutdown_executor_from_callback: t goes on, the shutdown is left to the event loop.
Defers(t, e, place) == Moves(t, place) /\ deferred' = deferred \cup {e}

\* The rest of _on_lease_future_done for f in t, which goes on at place: under the lock,
\* the lease drops the future and is retired if f shows a broken executor, or finalized
\* if it was released and f was the last: its executor is kept or not.
Settled(t, f, place) ==
    LET e == home[f]
        last == lease[e] = "draining" /\ PendingOn(e) \subseteq {f}
    IN  /\ pending' = pending \ {f}
        /\ \/ /\ lease[e] \in {"leased", "draining"} /\ (state[f] = "broken" \/ last)
              /\ lease' = [lease EXCEPT ![e] = "gone"]
              /\ Defers(t, e, place)
           \/ /\ state[f] # "broken" /\ last
              /\ lease' = [lease EXCEPT ![e] = "pooled"]
              /\ Moves(t, place) /\ UNCHANGED deferred
           \/ /\ lease[e] \notin {"leased", "draining"} \/ (state[f] # "broken" /\ ~last)
              /\ Moves(t, place) /\ UNCHANGED <<lease, deferred>>

\* The end of _submit_for_lease: add_done_callback runs the callback at once when the
\* future is done by then.
Hook(t) ==
    /\ at[t] = "hook"
    /\ \/ /\ state[item[t]] \in {"queued", "running"}
          /\ pending' = pending \cup {item[t]}
          /\ Moves(t, "idle") /\ UNCHANGED <<lease, deferred>>
       \/ /\ state[item[t]] \in {"done", "broken"}
          /\ Settled(t, item[t], "idle")
    /\ Unlocks
    /\ item' = [item EXCEPT ![t] = Nobody]
    /\ UNCHANGED <<guard, broken, shut, state, home, on, pool>>

\* _revoke_expired_leases_locked and _shrink_idle_if_above_target_locked pop a lease or
\* an idle executor and shut it down, under the lock, one after the other.
Discard(e) ==
    /\ (at[Loop] = "idle" /\ lock = Nobody) \/ at[Loop] = "more"
    /\ lease[e] \in {"leased", "draining", "pooled"}
    /\ lease' = [lease EXCEPT ![e] = "gone"]
    /\ lock' = Loop
    /\ Closes(Loop, e)
    /\ UNCHANGED <<guard, broken, shut, deferred, futureVars, item, pool>>

Unlock ==
    /\ at[Loop] = "more"
    /\ Unlocks /\ Moves(Loop, "idle")
    /\ UNCHANGED <<guard, poolVars, futureVars, on, item, pool>>

\* Mutant of Popped: the executor is shut down before its lease is popped.
PoppedLater(e) == UNCHANGED lease

Popped(e) == lease' = [lease EXCEPT ![e] = "gone"]

\* release: with futures pending the lease drains, without it is finalized, and the
\* executor kept or shut down outside the lock.
Release(e) ==
    /\ at[Loop] = "idle" /\ lock = Nobody /\ lease[e] = "leased"
    /\ \/ /\ PendingOn(e) # {}
          /\ lease' = [lease EXCEPT ![e] = "draining"]
          /\ UNCHANGED <<at, on>>
       \/ /\ PendingOn(e) = {}
          /\ lease' = [lease EXCEPT ![e] = "pooled"]
          /\ UNCHANGED <<at, on>>
       \/ /\ PendingOn(e) = {}
          /\ Popped(e) /\ Closes(Loop, e)
    /\ UNCHANGED <<lock, guard, broken, shut, deferred, futureVars, item, pool>>

\* stop takes all executors away under the lock and shuts them down outside it.
Stop ==
    /\ at[Loop] = "idle" /\ lock = Nobody
    /\ \E e \in Executors : lease[e] \in {"pooled", "leased", "draining"}
    /\ deferred' = deferred \cup {e \in Executors : lease[e] \in {"pooled", "leased", "draining"}}
    /\ lease' = [e \in Executors |-> IF lease[e] = "unused" THEN "unused" ELSE "gone"]
    /\ UNCHANGED <<lock, guard, broken, shut, futureVars, at, on, item, pool>>

\* A deferred shutdown, on the event loop or in a thread of its own.
RunDeferred(t, e) ==
    /\ at[t] = "idle" /\ e \in deferred
    /\ deferred' = deferred \ {e}
    /\ Closes(t, e)
    /\ UNCHANGED <<lock, guard, lease, broken, shut, futureVars, item, pool>>

-----------------------------------------------------------------------------
\* The executor: what happens under its lock.

\* shutdown(), and what a pool that breaks does, take the lock of the executor.
EnterDrain(t) ==
    /\ at[t] \in {"close", "failing"} /\ guard[on[t]] = Nobody
    /\ guard' = [guard EXCEPT ![on[t]] = t]
    /\ IF at[t] = "failing" THEN broken' = broken \cup {on[t]} /\ UNCHANGED shut
                            ELSE shut' = shut \cup {on[t]} /\ UNCHANGED broken
    /\ Moves(t, "drain")
    /\ UNCHANGED <<lock, lease, deferred, futureVars, on, item, pool>>

\* Mutant of Drainable: the shutdown does not cancel futures.
DrainableNone(t) == IF t \in Workers THEN Queue(on[t]) ELSE {}

\* What t has to resolve under the lock: a thread pool's waiting work, or whatever a broken
\* process pool had to do. shutdown() of a process pool only sets flags.
Drainable(t) ==
    IF ~pool.processes THEN Queue(on[t])
    ELSE IF t \in Workers THEN Unresolved(on[t]) ELSE {}

\* A future is resolved; its callback, if it has one, runs there and then.
DrainOne(t, f) ==
    /\ at[t] = "drain" /\ f \in Drainable(t)
    /\ state' = [state EXCEPT ![f] = IF t \in Workers THEN "broken" ELSE "done"]
    /\ IF f \in pending THEN Moves(t, "notify") /\ item' = [item EXCEPT ![t] = f]
                        ELSE UNCHANGED <<at, item>>
    /\ UNCHANGED <<lock, guard, poolVars, home, pending, on, pool>>

\* The callback: under the executor's lock, or in the worker that resolved the future.
Callback(t) ==
    /\ at[t] \in {"notify", "report"} /\ Free(t)
    /\ Settled(t, item[t], IF at[t] = "notify" THEN "drain" ELSE "ready")
    /\ item' = [item EXCEPT ![t] = Nobody]
    /\ UNCHANGED <<lock, guard, broken, shut, state, home, on, pool>>

LeaveDrain(t) ==
    /\ at[t] = "drain" /\ Drainable(t) = {}
    /\ guard' = [guard EXCEPT ![on[t]] = Nobody]
    /\ Moves(t, IF t \in Workers THEN "dead" ELSE IF lock = t THEN "more" ELSE "idle")
    /\ UNCHANGED <<lock, poolVars, futureVars, on, item, pool>>

-----------------------------------------------------------------------------
\* The executor's workers, and the thread that manages a process pool.

\* submit starts a worker, or that thread.
StartWorker(w) ==
    /\ at[w] = "new" /\ \E f \in Futures : home[f] = w[1]
    /\ IF pool.processes THEN w[2] = 1 /\ Moves(w, "ready") ELSE Moves(w, "init")
    /\ UNCHANGED <<lock, guard, poolVars, futureVars, on, item, pool>>

\* A worker thread's initializer, which may raise.
Initializer(w) ==
    /\ at[w] = "init"
    /\ Moves(w, "ready") \/ (pool.fails /\ Moves(w, "failing"))
    /\ UNCHANGED <<lock, guard, poolVars, futureVars, on, item, pool>>

\* A worker process dies: terminate_broken() follows, under the lock or without it.
ProcessDies(w) ==
    /\ pool.processes /\ pool.fails
    /\ at[w] = "ready" /\ on[w] \notin broken
    /\ IF pool.locked THEN Moves(w, "failing") /\ UNCHANGED broken
                      ELSE broken' = broken \cup {on[w]} /\ UNCHANGED at
    /\ UNCHANGED <<lock, guard, lease, shut, deferred, futureVars, on, item, pool>>

\* A worker thread takes work; the thread that manages processes passes it on to them.
TakeWork(w, f) ==
    /\ at[w] = "ready" /\ f \in Queue(w[1])
    /\ state' = [state EXCEPT ![f] = "running"]
    /\ IF pool.processes THEN w[1] \notin broken /\ UNCHANGED <<at, item>>
                         ELSE Moves(w, "run") /\ item' = [item EXCEPT ![w] = f]
    /\ UNCHANGED <<lock, guard, poolVars, home, pending, on, pool>>

\* The work w can report the end of.
InHand(w, f) ==
    IF pool.processes THEN at[w] = "ready" /\ w[1] \notin broken /\ home[f] = w[1] /\ state[f] = "running"
                      ELSE at[w] = "run" /\ item[w] = f

\* w resolves f outside the executor's lock.
Resolves(w, f, how) ==
    /\ state' = [state EXCEPT ![f] = how]
    /\ IF f \in pending THEN Moves(w, "report") /\ item' = [item EXCEPT ![w] = f]
                        ELSE Moves(w, "ready") /\ item' = [item EXCEPT ![w] = Nobody]
    /\ UNCHANGED <<lock, guard, poolVars, home, pending, on, pool>>

EndWork(w, f) == InHand(w, f) /\ Resolves(w, f, "done")

\* What the thread that manages a process pool resolves without the lock: all that is left
\* of a pool that broke so, and the waiting work of one that was shut down.
Discards(w, f) ==
    /\ pool.processes /\ at[w] = "ready"
    /\ \/ w[1] \in broken /\ f \in Unresolved(w[1]) /\ Resolves(w, f, "broken")
       \/ w[1] \in shut \ broken /\ f \in Queue(w[1]) /\ Resolves(w, f, "done")

-----------------------------------------------------------------------------
\* What t does next where it is under way, and not at its own choice.
Continue(t) ==
    \/ SubmitToExecutor(t) \/ Hook(t)
    \/ EnterDrain(t) \/ (\E f \in Futures : DrainOne(t, f)) \/ Callback(t) \/ LeaveDrain(t)
    \/ t \in Workers /\ (StartWorker(t) \/ \E f \in Futures : Discards(t, f))

Worker(w) ==
    \/ Initializer(w) \/ ProcessDies(w)
    \/ \E f \in Futures : TakeWork(w, f) \/ EndWork(w, f)

Next ==
    \/ \E t \in Threads : Continue(t)
    \/ \E w \in Workers : Worker(w)
    \/ \E e \in Executors : Acquire(e) \/ Discard(e) \/ Release(e)
    \/ \E t \in Others, e \in Executors : SubmitCall(t, e) \/ RunDeferred(t, e)
    \/ Unlock \/ Stop

Spec == Init /\ [][Next]_vars

\* Threads run; a lock that is free again and again is obtained (the operating system
\* wakes the threads that wait for it); the event loop and the threads started for it
\* run the deferred shutdowns.
Fairness ==
    /\ \A t \in Threads : SF_vars(Continue(t))
    /\ WF_vars(Unlock)
    /\ \A e \in Executors : WF_vars(\E t \in Others : RunDeferred(t, e))

FairSpec == Spec /\ Fairness

-----------------------------------------------------------------------------
\* Who holds the lock t waits for.
Blocker(t) ==
    IF at[t] \in {"submit", "close", "failing"} THEN guard[on[t]]
    ELSE IF at[t] \in {"notify", "report"} /\ ~Free(t) THEN lock
    ELSE Nobody

\* manager.py:1127, "Calling shutdown() synchronously from those callback contexts can
\* deadlock": no thread waits for an executor's lock that it holds itself, not even in
\* the callbacks of a pool that breaks.
NeverBlocksItself == \A t \in Threads : Blocker(t) # t

\* README.md:80, "to avoid callback-thread deadlocks or hangs": no two threads hold what
\* the other waits for. The callbacks that run under an executor's lock want the manager's
\* lock, and somebody who holds that one may want this executor's.
NoDeadlock == \A t \in Threads : Blocker(t) # Nobody => Blocker(Blocker(t)) # t

\* Pools that break resolve their futures under their lock.
BreaksLocked == pool.fails /\ (pool.processes => pool.locked)

\* In _initializer_failed or a terminate_broken that locks, or about to be.
FailsPool(t) == t \in Workers /\ at[t] \in {"failing", "drain", "notify"}

\* Nobody waits for a thread that waits itself, so there is no cycle of waits, of any length,
\* but where a pool breaks under its lock: who else resolves futures under an executor's
\* lock popped its lease or its place in the pool before.
LocksAreOrdered ==
    \A t \in Threads : Blocker(t) # Nobody /\ Blocker(Blocker(t)) # Nobody =>
        \E w \in {t, Blocker(t), Blocker(Blocker(t))} : FailsPool(w)

\* Under FairSpec, where pools do not break under their lock: whoever submits, revokes,
\* releases or shuts down comes out of it, and an executor given up has its waiting work
\* cancelled.
CallsEnd == \A t \in Others : (at[t] # "idle" /\ ~BreaksLocked) ~> at[t] = "idle"
DoomedIsDrained ==
    \A f \in Futures : (state[f] = "queued" /\ lease[home[f]] = "gone" /\ ~BreaksLocked)
                            ~> state[f] # "queued"
=============================================================================
