# leasepool in TLA+

A specification of [leasepool](../src/README.md) (`src/src/leasepool`), a Python
library that lends `ThreadPoolExecutor`s and `ProcessPoolExecutor`s to the tasks
of an asyncio application for a limited time. The modules are translated from the
code; TLC checks them on small instances, and TLAPS proves part of what is checked
for every value of the constants. Paths below are relative to the repository.

## Inventory

| Component | State | Operations | Modelled |
|---|---|---|---|
| `LeasedExecutorManager` (`manager.py`) | `_available`, `_leased` with one `_LeaseRecord` per lease, `_started`, `_stopping`, `_loop`, two `asyncio.Event`s, `_checker_task` | `start`, `stop`, `acquire`, `release`, `_submit_for_lease`, `_on_lease_future_done`, `_checker_loop`, `notify_scale_changed` | `LeaseManager` |
| Sizing (`manager.py:816-840`) | none; reads `size_provider` | `_unit_count_locked`, `_desired_executor_count_locked` | `Sizing`, and its use in `LeaseManager` |
| `ExecutorLease`, `_LeasedExecutorProxy` | `_released`, the lease id | `run`, `submit`, `release` | as `Submit` and `Release` of a client of `LeaseManager` |
| Executors (`backends.py`, `concurrent.futures`) | work queue, workers, broken or shut down | `submit`, `shutdown(wait=False, cancel_futures=True)`, future callbacks | environment of `LeaseManager` |
| `WorkGrinder` (`grinder.py`) | `_pending`, `_condition`, `_task`, `_started`, `_stopping`, the batch in hand | `start`, `stop`, `submit`, `enqueue`, `submit_from_thread`, `_grinder_loop`, `_process_batch`, cleanup of cancelled items | `WorkGrinder` |
| Lock order of manager and executors | `_lock` (an `RLock`) and the own lock of each thread or process pool | `submit` and `shutdown` under the manager's lock, callbacks under the executor's | `ExecutorLocks` |
| Process logging (`_process_logging.py`, `manager.py:867-962`) | log queue, listener, context | start and stop of the bridge, the composed worker initializer | no, see the end |
| Validation, owner-loop checks, statistics, exceptions, exports | none | raise, or read under the lock, before any state changes | no: nothing to explore; the validated ranges are `PoolAssumption` and `GrinderAssumption` |

How they interact. All loop code (`start`, `stop`, `acquire`, `release`, the
checker, `call_soon_threadsafe` callbacks, the grinder) interleaves at awaits.
Worker threads run the submitted functions and then, in the same thread, the
future's done-callback, which takes `_lock` and changes the pool. What a callback
has left to do after its locked section (shut an executor down, wake the waiters,
wake the checker) it posts to the loop, or to a thread when the loop is gone. The
grinder is a client: it acquires one lease per batch, submits and releases it.

What is hard here, and what makes each part correct:

- one executor must never have two owners, nor go back to the pool with work of an
  old lease on it, while expiry, release, the last future, a broken future, `stop`
  and the checker race for the same lease: `OwnedOnce`, `WorkIsOwners`,
  `DrainingHasWork`, `TaintedIsNotReused`; nor may any of them take a lease in good standing
  away, or its work: `LeasesEndForCause`;
- creation happens on five paths and must respect `max_pools` and the minimum, also
  when creating raises half way: `CapacityBound`, `FloorKept`, `NothingLeaks`;
- one event is shared by all waiters, and each waiter clears it: `NoStrandedWaiter`,
  `WaiterIsServed`;
- the checker sleeps on the expiries it saw: `CheckerCoversLeases`,
  `ExpiredIsRevoked`;
- `stop` gives the loop away in its middle: `StoppedIsEmpty`, `StopCompletes`,
  `DoomedIsShutDown`;
- the manager calls an executor under its own lock, and an executor calls the manager
  back under its: `NeverBlocksItself`, `LocksAreOrdered`, `CallsEnd`;
- an item of the grinder changes hands (its caller, the queue, a batch, an executor)
  while its caller, a failing batch, a crash of the loop and a `stop` each may resolve
  it: `NothingForgotten`, `ImplementsService`, `CancelledPendingNeverRuns`;
- the grinder loop sleeps on a condition that others notify at any time:
  `NobodySleepsOverWork`, `AcceptedIsResolved`, `ReturnsDrained`, `StopEnds`.

`PROJECT.json` lists every hazard with its line, those no property covers yet too.

## Modules

| Module | What it is |
|---|---|
| `Sizing` | the sizing rule as operators, both exact and with the quotient rounded to a binary float as Python's `/` does |
| `MCSizing`, `SizingProofs` | enumerates the inputs of `Sizing`, with the reference definition in its properties; theorems with their proofs |
| `LeaseManager` | the manager, its clients, its executors, the loop and the checker; properties and fairness |
| `LeaseService` | what the manager promises its callers, one executor at a time; `LeaseManager` implements it |
| `MCLeaseManager` | adds the symmetry of the clients; all `LeaseManager_*.cfg` use it |
| `LeaseManagerProofs` | theorems about `LeaseManager` and their proofs |
| `LeaseServiceProofs` | that it implements `LeaseService`, with the proof |
| `WorkGrinder` | the grinder, its callers, its loop with the condition's lock; manager and executor as its environment |
| `WorkService` | what the grinder promises its callers, one item at a time; `WorkGrinder` implements it |
| `MCWorkGrinder`, `WorkGrinderProofs` | for TLC, and theorems with their proofs |
| `ExecutorLocks` | who holds and who wants the manager's lock and the executors' own, in every place that takes one |
| `MCExecutorLocks`, `ExecutorLocksProofs` | for TLC, and theorems with their proofs |

### LeaseManager and the code

| Code | Here |
|---|---|
| `_available`, `_leased` | `available` (a set), `leased`; the record's fields are `executor`, `pending`, `releaseRequested`; `now >= hard_expires_at` is `expired` |
| `_started`, `_stopping`, `_loop is not None` | `started`, `stopping`, `bound` |
| `_checker_task`, the tasks running `_checker_loop` | `checkerTask`, `checker` (`ready`: will run a pass; `waiting`: in the wait; `reaping`: awaiting its cancelled inner wait; `adrift`: waiting on an event `stop` dropped; `done`), `cancelled` |
| `_availability_event` | `availSet`, and `availQueued` while `call_soon_threadsafe(event.set)` is on its way; a waiter is `waiting`, `woken` (resumed, has not run yet) or `evicted` (its event was dropped by `stop`) |
| `_scale_change_event` | `scaleQueued`; the flag itself cannot be seen, see `SetScaleChange` |
| executors | `status` (`down`, `up`, `broken`); `deferred` for shutdowns queued by `_shutdown_executor_from_callback` |
| futures | `future`: `queued`, `running`, and `done` or `broken` until the callback has run |
| a callback between its locked section and its end | `owed` |
| `start`; its `except` branch | `Start`; `StartRaises` |
| `stop` before and after `await self._checker_task` | `StopCall`, `StopFinish` |
| `acquire`: one turn of its loop | `AcquireGrant`, `AcquireBlocked`, `AcquireRefused`, `AcquireRaises`; its wait ending otherwise: `GiveUp` |
| `_submit_for_lease`, `release`, `_on_lease_future_done` | `Submit`, `Release`, `Callback` with `Settle` |
| `_finalize_released_record_locked`, `_retire_broken_record_locked` | `Finalize`, `Retire`, both by `Leave` |
| one pass of `_checker_loop`, its crash, its failed assertion | `CheckerPass`, `CheckerCrashes`, `CheckerUnbound`; `_wait_for_checker_event` is `CheckerTimer`, `CheckerCancelled` and `Resumes` |
| `_revoke_expired_leases_locked`, `_ensure_minimum_locked`, `_shrink_idle_if_above_target_locked` | `expired` leaving in the steps that call it, `Shortfall`, `drop` in `CheckerPass` |

Granularity. `_lock` makes a locked section atomic; loop code is atomic between
awaits. A loop-side call therefore is one action from its start to its next await.
What such a call does after it left the lock (shut the popped executor down, queue
the event sets) is in the same action: until that executor is shut down nothing
refers to it any more, so a worker thread in between cannot tell. A worker's
callback is two actions, because the loop, with a whole `stop`, can run between.

Abstractions, each with what it costs:

- time is the step `Expire` and timers that may fire whenever armed: more orders
  than clocks allow, never fewer;
- `Readings` are the integers the size provider may answer; a negative one stands
  for a provider that raises, both give 0 units. A checker
  pass asks once for the minimum and again for the shrink and may get different
  answers; in the other steps one answer serves the whole locked section;
- lease ids, executors and futures are finite and used again. A lease id outside
  `_leased` never comes back, so it becomes `NoLease`; an executor is used again
  only when it is down and no future refers to it;
- the `deque` is a set: `acquire` may take any member, more than FIFO allows;
- a caller that must wait registers with the event in the step that found nothing;
  in Python 3.11 `wait_for` with a timeout starts an inner task, one loop turn later;
- one event loop that is not closed; callers use a lease only through its object,
  from the loop;
- `Break` may hit any executor that is up, which for threads means a failing
  initializer; `EndWork` may also end in a `BrokenExecutor` of another pool;
- log forwarding, names, owners, statistics and logging are left out.

### WorkGrinder and the code

| Code | Here |
|---|---|
| `_started` (and `_loop is not None`), `_stopping`, `_task is not None` | `started`, `stopping`, `task` |
| where `_grinder_loop` is | `loop`: `ready` (about to look at `_pending`), `waiting`/`timed` (in `condition.wait()` without and with a timeout), `leasing`/`gathering` (in `_process_batch`, before and after the submissions), `crashing` (its exception handler wants the lock), `returned`/`crashed`/`cancelled` (ended) |
| `wait_for` before Python 3.12, which runs `condition.wait()` in a task of its own | `handsOver`; then also `arming` (that task has not begun, the lock is held), `woken` (notified, wants the lock), `handing` (has the lock, which the loop gets later) |
| `_pending`, `max_wait_seconds` since `created_at`, the batch in hand | `pending`, `ripe`, `batch` (sets) |
| `item.result_future`; its function in the executor | `outcome`; `work` |
| `submit_from_thread` between the caller's thread and the loop | `posted` |
| `enqueue` waiting for the condition's lock; tasks queued for it | `entering`; `lockQueue`, first come first served |
| `_remove_cancelled_pending_item` scheduled by the future's done-callback | `removing` |
| `stop` waiting for the lock, or awaiting the task; `cancel_pending=True` | `stopAt`; `harsh` |
| `enqueue`, `submit` | `Enqueue`, `EnqueueResumes`; for another thread `Post`, then `Enqueue` or `PostRefused` |
| `stop` up to the lock, its locked section, after its await; its caller cancelled | `StopCall`, `StopResumes` (`StopSection`), `StopReturns`; `StopInterrupted`, also in the turn after the loop ended; `StopOver` is its end |
| the caller of `enqueue` or `submit` cancelled, waiting for the lock too; its future cancelled | `CancelItem` |
| `_wait_for_next_batch` | `TakeBatch`, `Rest`, `LoopQueues`, `WaitForTask`, `Timer` |
| `_process_batch` | `Leased`, `LeaseRefused`, `Gathered`, `BatchCancelled` |
| the loop's `except` branches | `LoopCancelled`, `Crash` |

The manager appears as what `acquire`, `run_in_executor` and `release` may do: grant or
raise (`Leased`, `LeaseRefused`), take a part of the batch and raise for the rest
(`Leased` chooses any subset), drop waiting work (`LoseWork`), raise from `release`
when restoring the minimum fails (`ReleaseMayRaise`). This is more than
`LeaseManager` does, so the properties hold over it.

Left out: a `start()` while a `stop()` is coming back. That `stop()` then clears
`_started` under the new loop, which goes on as an orphan; the model would need a second
loop in every action, and no text promises anything of it.

### ExecutorLocks and the code

`lock` is `self._lock`, `guard[e]` the `_shutdown_lock` of an executor, `at`,
`on` and `item` are the place, executor and future of each thread. A critical section
that takes no other lock is one action, enabled when its lock is free. Those that do
are cut where the second lock is wanted: `SubmitCall`, `SubmitToExecutor`, `Hook` for
`_submit_for_lease`; `Discard`, `EnterDrain`, `DrainOne`, `LeaveDrain`, `Unlock` for a
revocation or a shrink; `Release`, `Stop` and `RunDeferred` for shutdowns outside the
lock; `Callback` for `_on_lease_future_done` in whichever thread and under whichever lock
resolved the future. Which lease is overdue or how big the pool should be is left open
here: any of it may be, `LeaseManager` has what decides it.

The executors' own code is CPython's and modelled as external, so it is stated here what it
is taken to do; `pool` says which kind of executor the backend builds:

- `submit` and `shutdown` take the executor's `_shutdown_lock`, which is not reentrant;
- a thread pool cancels its waiting work inside `shutdown(cancel_futures=True)`, and fails it
  inside `_initializer_failed`, under that lock both times; its workers resolve what they
  ran without it. An interpreter pool is a thread pool in this respect;
- a process pool resolves its futures in the one thread that manages it, here worker 1.
  `shutdown` only sets flags for that thread, which then cancels the waiting work without the
  lock (`Discards`), and so it resolves results (`EndWork`);
- when a worker process dies that thread runs `terminate_broken`, which fails every pending
  future, running ones too. Recent CPython (3.12 and later, late 3.11 releases) does it under
  the `_shutdown_lock` (`pool.locked`), older ones without it (`Discards` again). Both are
  in the run `locks`.

### The abstract services

`LeaseService` says what may become of one executor: built or granted only with nobody's
work on it and within `max_pools`; used by its tenant alone, and not after the release;
back in the pool only when that work is over; once given up, gone. `LeaseManager` maps
onto it by `PlaceOf`, `TenantOf` and `AtWork`: expiry, events, the checker, callbacks and
`stop` disappear. `WorkService` says what may become of one item: its function goes to an
executor at most once and never after its caller was told of a failure; the caller
gets the result of its own function, or the failure of it, once. `WorkGrinder` maps onto
it by its own `outcome` and `work`. Both let any number of executors (items) move in one
step, each by a move of its own, because a batch, a `stop` or a pass of the checker does.

## Runs

Bounds are the sizes of the constant sets in each `.cfg`; nothing else is bounded.
When a step needs more fresh executors or futures than are left, it waits until one
is free: `Executors` has one more than `MaxPools` so that a given-up executor with
running work coexists with a full pool.

| Run | Instance | Shows |
|---|---|---|
| `sizing` | readings -2..15, units per pool 1..9, pools up to 16, 4-bit floats | The float path yields the least covering count within the pool bounds, and equals the exact ceiling, for units within the significand. 4 bits stand for CPython's 53 and make every rounding case occur; `SizingProofs` has it for any width |
| `leasing` | 2 clients, 2 leases, 1 future, 3 executors, min 1, max 2, target moving between 1 and 2 | Competition for executors with overdue and draining leases: ownership, wakeups, the checker's timeout, the bounds of the pool, no leak |
| `working` | 2 futures, max 1, breaks, failing creation | Work stays with its lease and a lease with its holder, tainted executors are not used again, the pool's bound and one owner per executor survive partial failure, in callbacks too |
| `restart` | 2 stoppers, 2 checker tasks, 1 client, 1 future | Concurrent `stop`s, restarts and an orphaned checker, callbacks before, between and after them: what is stopped is empty, nothing is owned twice, left behind, or lost with the loop |
| `live` | `FairSpec`, 2 clients, 1 lease, 1 future, `stop`, without symmetry | Two callers wait on the one event at a time, while the lease drains: each clears it for the other, and neither stays behind while there is room, without the checker's interval to look after it. Overdue leases, drains, shutdowns and `stop` come to their end, and the manager implements `LeaseService` |
| `grinder` | `FairSpec`, 2 items, threshold 2, one `stop` at a time, both kinds of `wait_for` | No item forgotten, run twice or answered twice, no sleep over work, liveness, and that the grinder implements `WorkService` |
| `locks` | `FairSpec`, 1 executor of 2 workers, 1 thread beside the loop's, 3 futures; thread pools whose initializers raise or do not, both kinds of process pools | No thread blocks itself; nobody waits for a thread that waits, but where a pool breaks under its lock. Where none does, everybody gets on, and the waiting work of an executor given up is cancelled |
| `cancel_swallowed` | `stop`, 1 checker | violation 1, below |
| `broken_returned` | breaks | violation 2, below |
| `workers_exceeded` | 2 futures, max 1 | violation 3, below |
| `grinder_undrained` | 2 items, nothing fails, nobody interrupts | violation 4, below |
| `locks_deadlock` | 1 thread pool or process pool of 1 worker, the loop only | violation 5, below |

`CHECK_DEADLOCK` is off in the manager's runs (a manager nobody calls may rest) and in
those of the locks (every future is submitted once, and then all may be over).
Every property has a mutant in `PROJECT.json`: the definition it depends on,
changed as a plausible bug would change it, makes TLC report it. The mutated
operators stand directly above the definitions they replace.

Why the bounds suffice. Manager: every race above is between at most two leases or two
executors and one checker, one `stop` (two in `restart`), and one future that is the
last and one that is not (`working`). Two callers wait at a time only in `live`, where a
draining lease keeps the one executor while both want it; in `leasing` one waits at a time.
`MaxPools` 2 with `MinPools` 1 tells a full pool, one at the minimum and one between apart.
What no run has, and only the theorems speak of: more than two waiters, or two of them
across two `stop`s (`NoStrandedWaiterHolds`); creation that raises half way through several
executors, or in a `start` that meets a checker task left over from an earlier run
(`CapacityHolds`, `OwnershipHolds`). Grinder: with threshold 2 and two items a batch is due
by size or by time only, an item may be in the batch, pending or entering while the other is
elsewhere, and `run_in_executor` may fail between the two. Locks: a deadlock needs two locks
and two threads, and three futures let one worker run, one wait and one be submitted. A
second executor adds a lock to a chain of waits: `LocksAreOrderedHolds` is proved for any
number, `CallsEnd` is checked for one. A process pool has one thread that resolves futures,
whatever the number of its processes.

Fairness (`Fairness` of each module).
- Manager: the loop runs every callback and task that is ready, threads get on with
  callbacks, submitted functions end. Submitted functions that never end are the
  application's affair (`DrainCompletes` is about those that do). Weak throughout: no action
  needed here is disabled again and again by others. Timers are left out: the check interval
  may be hours, and a waiter has to be woken by whoever makes room. Only `ExpiredIsRevoked`
  needs the checker's timer and has it as its premise (`TimersFire`).
- Grinder: the loop runs what is ready, items get older, `acquire` comes back, submitted
  functions end. Weak throughout: the lock's queue is served in order.
- Locks: strong for what a thread does next, because another thread may take a lock again
  and again; the operating system lets one who waits for it have it in the end. Deferred
  shutdowns are run. Nothing is assumed of initializers, processes or submitted functions.

Nothing is assumed about callers: neither `release` nor `acquire`, `stop`, `start`,
`enqueue` or a cancellation ever has to happen.

### What the documentation says and the code does not

1. `CancellationIsKept`. `_wait_for_checker_event` promises not to swallow
   cancellation (`manager.py:649`). When its wait has timed out, it awaits the
   cancelled inner wait under `suppress(CancelledError)`; a `stop()` that cancels
   the checker in that loop turn has its cancellation suppressed, the checker goes
   on to its next pass, and `stop()` awaits it for good while the manager refuses
   every `acquire`. `StopCompletes` states what holds: a cancellation that meets
   the checker anywhere else ends `stop`.
2. `BrokenIsRetired`. `guides/process-backend.rst:96` says a broken process pool is
   retired and not returned. The manager only learns of a break from a tracked
   future or a submit; an executor whose worker dies while its lease has no tracked future
   left (none submitted, or the last one ended) is returned and leased again. `TaintedIsNotReused` states what holds.
3. `WorkersBounded`. `concepts.rst:38` bounds the worker threads of a manager. A
   revoked executor is shut down without waiting and no longer counted, and its
   running function works on beside its replacement.
4. `StopDrains`. `README.md:335` says that the grinder's `stop()` drains queued work. On
   Python 3.11, which the package supports, `wait_for`
   hands the condition's lock over during several loop turns (`grinder.py:495`). An
   `enqueue` that passed its look at `_stopping` and then queued for the lock can get it
   after the loop found nothing pending and ended: its item stays pending after `stop()`
   came back, and its future is never resolved. `ReturnsDrained` states what holds where
   `wait_for` does not do this.
5. `NoDeadlock`. `README.md:80` promises deferred shutdowns "to avoid callback-thread
   deadlocks or hangs". A worker thread whose initializer raises resolves the executor's
   queued futures under that executor's lock, and their callbacks want the manager's; a
   submit or a revocation holds the manager's and wants the executor's (`manager.py:720`).
   Both threads wait for good, the one of the event loop among them. A process pool whose
   worker process dies does the same in recent CPython: the run has both, and either alone
   (`Pools` of one kind) violates the property. `LocksAreOrdered` states that a pool that breaks under its lock is
   the only way there (`DeadlockNeedsLockedBreak`), `CallsEnd` that everybody gets on where
   none does.

One more, met while proving: `docs/source/api/manager.rst:47` says of `stop()` "Stop the
checker task". A second `stop()` that awaited the same task comes back after a restart,
takes the new pool down and forgets the new checker task, which goes on. When a later
`start()` raises it leaves the loop bound, and that task builds executors for a manager
that is not started. `StoppedByOneHolds` shows that this takes two tasks that stop the
manager, `StoppedHolds` that the pool stays empty while creation succeeds.

## Proofs

Checked by TLAPS, without anything taken on trust, for all constants that satisfy the
assumptions of each module: `PoolAssumption` (pool bounds ordered and positive, readings
integers, finite sets of leases, executors and futures), `SizingAssumption` (a significand
of one bit or more), `GrinderAssumption` (a positive
threshold, finitely many items, any stoppers), `LocksAssumption` (the threads, executors
and futures told apart).

| Theorem | Says | Rests on |
|---|---|---|
| `LeaseManagerProofs`: `TypeCorrect`, `TypeOKHolds` | `TypeOK` always holds, and every lease has an executor | `TypeInv`, inductive by itself |
| `CapacityHolds` | `CapacityBound` always holds | itself, on `TypeInv` |
| `OwnershipHolds` | `OwnedOnce` always holds | `OwnInv`, on `TypeInv` |
| `WorkIsolated` | `WorkIsOwners` always holds | itself, on `OwnInv` |
| `TaintedHolds` | `TaintedIsNotReused` | `OwnInv` |
| `LeasesEndForCauseHolds` | `LeasesEndForCause` | `Tracked`, on `TypeInv` |
| `StoppedHolds` | `StoppedIsEmpty` always holds, if creating executors never raises | `StoppedInv` |
| `StoppedByOneHolds` | `StoppedIsEmpty` always holds, and no checker task outlives `stop`, if one task at a time stops the manager | `SoloInv` |
| `CheckerCovers` | `CheckerCoversLeases` always holds | `CheckerInv` |
| `DrainingHolds` | `DrainingHasWork` always holds | `DrainInv`, on `OwnInv` |
| `NothingLeaksHolds` | `NothingLeaks` always holds, if creating executors never raises | itself, on `TypeInv` |
| `FloorHolds` | `FloorKept` always holds, if creating executors never raises | itself, on `OwnInv` |
| `NoStrandedWaiterHolds` | `NoStrandedWaiter` always holds, if creating executors never raises | `WaiterInv`, on `StoppedIsEmpty` |
| `LeaseServiceProofs`: `LeaseServiceImplemented` | `Spec => ImplementsService`: the manager implements `LeaseService` | `OwnInv`, `WorkIsOwners`, `CapacityBound` |
| `WorkGrinderProofs`: `TypeOKHolds`, `NothingForgottenHolds`, `NobodySleepsOverWorkHolds`, `ReturnsDrainedHolds` | these invariants always hold | `IInv` |
| `CancelledPendingNeverRunsHolds` | an item cancelled while pending never runs | `IInv`, and two facts a step keeps |
| `ServiceImplemented` | `Spec => ImplementsService`: the grinder implements `WorkService` | `IInv` |
| `AnswersAreTrueHolds`, `AnswersAreFinalHolds` | what an item's future says is true of its function, and stays; no function runs twice or behind an error | `ServiceImplemented`, and that `WorkService` has it |
| `ExecutorLocksProofs`: `LocksTyped`, `NeverBlocksItselfHolds`, `LocksAreOrderedHolds` | these invariants always hold | `IInv` |
| `DeadlockNeedsLockedBreak` | no two threads hold what the other waits for, where no pool breaks under its lock: thread pools whose initializers do not raise, process pools whose processes do not die or whose `terminate_broken` does not lock | `LocksAreOrdered` |
| `SizingProofs`: `FloatIsExactHolds` | `FloatIsExact` always holds: the float path counts exactly for units below `2^Precision` | `CeilFloatExact` |
| `LeastCoveringHolds` | `LeastCoveringCount` always holds, if `MaxUnits < 2^Precision` | `FloatIsExact`, `Ceiling` |

How the arguments go.

Manager. `TypeInv` adds to the types that every lease has an executor,
without which the executor a finalized lease gives back need not be one.

Capacity: `EnsureBound` shows that restoring the minimum cannot pass `MaxPools`,
because the target never does (`DesiredBounds`, for every answer of the size
provider). Each way a lease leaves makes room for one (`LeaveBound`, `RevokeBound`),
and `acquire` either takes a pooled executor or creates one below the bound
(`GrantBound`).

Ownership: `OwnedOnce` alone is not inductive. The deferred shutdown of an executor
could run twice, the second time on one that is in use again; `OwnInv` adds that
what is to be shut down is still up and that one party only is to do it.

One case split for all: `StepCases` shows that every step of the manager either carries
executors between owners (`Carries`: leases leave, executors go back to the pool, fresh ones
come, others go down), grants a lease, or is one of six small things (a submit, a release
that drains, the end of a callback, a deferred shutdown, the settling of one, work that
goes on). Each invariant about executors has one argument per case (`OwnMove`,
`WorkMove`, `GrantOwn`, `GrantWork`), and so has the refinement.

Work: a lease finalized into the pool has no tracked future going on, and
`WorkIsOwners` before the step says that no untracked work is on its executor.

Why leases end: `Tracked` says that work which names a lease is in that lease's set, so a
release that finds the set empty, or the callback of its last member, finds no other work
of that lease. `Tracked` is inductive by `StepCases`; the theorem then looks at the few
actions that take a lease away.

Draining: `DrainInv` adds that tracked work is on the lease's own executor, because a
shutdown of another one must not take it away (`KeptWork`).

Leaks, the floor and waiters: all three fail where creating an executor raises (the popped
executor is then never shut down, the pool is short, nobody is woken), so the theorems and
the runs that check them assume that it succeeds. The floor is counted with the leases:
revoking and creating happen under one lock, and a shrink never goes below the
minimum for the reading it took. For waiters, a wakeup that only the checker can pass on is
worth something only while the checker goes on: `WaiterInv` adds that a started manager
that is not stopping has a live checker task which nobody cancelled.

Refinement: the mapping is stated by what owns an executor, so `PlacesKnown` first says
which place and tenant each owner means (one owner each, by `OwnInv`); `CarriedMove` and
`GrantMove` then read the move of one executor off the step.

Stop: a checker task that outlived `stop` is harmless because it finds no loop:
`StoppedInv` adds `bound = started`. A `start` that raises breaks exactly that, which
is why `StoppedHolds` and the run `restart` assume that creation succeeds. Without
that assumption it is enough that nobody stops the manager twice at once: then the
checker task of a started manager is the only one, the `stop` under way awaits that one,
and nothing is left to run when it has ended (`SoloInv`).

Checker: what is new since its last snapshot has been granted by an `acquire` that
queued its wakeup, which needs that a started manager has a loop (`CheckerInv`).

Grinder. `IInv` is `TypeOK`, `NothingForgotten`, `ReturnsDrained` and three facts about
what hangs together. `Placed`: an item that is pending or on its way in has not been
handed to an executor, and one in the batch of a loop that has no lease yet neither;
without it nothing keeps an item from being submitted twice. `Resting`: a sleeping loop
has not missed anything, which is what each `Notify` is for. `Agreed`: the flags, the
task and the loop's end go together, so that a `stop()` awaits a loop that is there.
The refinement follows step by step: each action gives each item one move of
`WorkService`, and `Answers` gives an item the outcome of its own function.

What `WorkService` promises its callers is proved of it alone, by one look at each move of
an item, and carries over to the grinder by `ServiceImplemented`.

Sizing. The significand exists: `Normalised` finds the exponent as the least power of two
that brings a large quotient below `2^Precision`, or a small one up to `2^(Precision - 1)`.
`Least` (a nonempty set of naturals has a least element) stands for induction, and is itself
proved from the library's facts about the inclusion of finite sets; that `2^(k+1)` is twice
`2^k` is proved by counting subsets (`Power`), because no prover here knows powers.
`CeilFloatExact`: with fewer than `2^Precision` units an exponent that is not negative
leaves only the divisor 1, and the quotient is exact; with a negative one a quotient that is
a fraction lies above the integer below it by `1/d` at least, more than half the distance
between two floats there, so rounding does not reach that integer (`Rounding`).

Locks. `IInv` is `Shape` (what a thread is doing fits what it holds and what its future
is) and `Ordered`: whoever resolves futures under an executor's lock has popped its
lease before, unless the pool is breaking under it, so nobody who holds the manager's
lock still wants that executor's. What CPython's executors do under their lock is an
assumption of the model, listed above; the theorems say nothing of an executor that does
more there.

## Only model-checked, and not modelled

Liveness stays with TLC: the provers reason neither about fairness nor `ENABLED`
(`ExpiredIsRevoked`, `DrainCompletes`, `WaiterIsServed`, `DoomedIsShutDown`,
`StopCompletes`, `AcceptedIsResolved`, `StopEnds`, `CallsEnd`, `DoomedIsDrained`). Every
other property of a passing run is a theorem. `LeaseManager` uses the exact ceiling; that
this is what the code computes is `FloatIsExact`, for unit counts below `2^53` and while
the quotient neither overflows nor leaves the normal floats, which `Sizing` does not model.

Not modelled:
- process log forwarding: its listener starts inside `start()` and stops inside `stop()`,
  each within one step of `LeaseManager`; the rest configures the handlers of the child
  process and leaves the transport to `multiprocessing`. A listener that raises from
  `stop()` (it must have failed to start) is the one way it touches the manager's state;
- the executors' own scheduling beyond what the manager can see of it;
- validation, owner-loop checks, statistics, exceptions and exports, which change no
  state.

## Plan

What is left, most important first:

1. The grinder as a client of `LeaseService` in one specification: a lease that expires in
   the middle of a batch, a `stop` of the manager before the grinder's.
2. A grinder restarted while an earlier `stop()` is coming back, with two loops.
3. The listener of process log forwarding across a failing `start()` and `stop()`.
