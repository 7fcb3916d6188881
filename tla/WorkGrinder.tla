----------------------------- MODULE WorkGrinder -----------------------------
(***************************************************************************)
(* WorkGrinder (grinder.py): batches the items of many callers, leases an  *)
(* executor for a batch, and answers each caller's future.                 *)
(*                                                                         *)
(* Who runs.  All of it runs on one event loop, one task at a time between *)
(* two awaits; only the submitted functions and the first half of          *)
(* submit_from_thread run elsewhere.  self._condition's lock is never held *)
(* over an await but in one case: before Python 3.12, asyncio.wait_for     *)
(* runs condition.wait() in a task of its own, and the lock is handed to   *)
(* that task and back over several turns of the loop (handsOver).  Tasks   *)
(* that meet the lock then queue up, first come first served.              *)
(*                                                                         *)
(* Abstractions.  The deque of pending items and a batch are sets.  Time:  *)
(* an item gets ripe (it has waited max_wait_seconds) in a step of its     *)
(* own.  The manager is what acquire, run_in_executor and release may do.  *)
(* The grinder loop stands at "ready" between a batch and its next look at *)
(* the pending items, where it does not await: nothing it does then looks  *)
(* at what another task may change there.                                  *)
(***************************************************************************)
EXTENDS Naturals, Sequences, FiniteSets

CONSTANTS
    Items,              \* work items, each submitted once
    Stoppers,           \* tasks that may call stop()
    Threshold,          \* batch_size_threshold
    WaitFors,           \* whether asyncio.wait_for hands the lock to a task; may be either
    ReleaseMayRaise,    \* whether the manager may raise from release()
    MayInterrupt        \* whether the caller of stop() may be cancelled (a timeout)

ASSUME GrinderAssumption ==
    /\ Threshold \in Nat \ {0} /\ IsFiniteSet(Items)
    /\ WaitFors \subseteq BOOLEAN /\ ReleaseMayRaise \in BOOLEAN /\ MayInterrupt \in BOOLEAN

VARIABLES
    started, stopping,  \* _started (_loop is set just as long), _stopping
    task,               \* _task is set (not None)
    loop,               \* where the grinder loop is
    batch,              \* the items it is processing
    cancelling,         \* a cancellation of the loop's task is on its way
    pending,            \* _pending
    ripe,               \* pending items older than max_wait_seconds
    posted,             \* items of submit_from_thread still on their way to the loop
    entering,           \* items whose enqueue waits for the condition's lock
    outcome,            \* item.result_future: none yet, open, or how it was resolved
    work,               \* what became of the item's function
    removing,           \* cancelled items whose removal from _pending is scheduled
    lockQueue,          \* tasks waiting for the condition's lock
    stopAt,             \* per stopper: where it is
    harsh,              \* stoppers that called stop(cancel_pending=True)
    handsOver           \* wait_for runs condition.wait() in a task of its own

grinderVars == <<started, stopping, task>>
loopVars    == <<loop, batch, cancelling>>
queueVars   == <<pending, ripe, removing>>
callerVars  == <<posted, entering>>
stopVars    == <<stopAt, harsh>>

vars == <<grinderVars, loopVars, queueVars, callerVars, outcome, work, lockQueue, stopVars,
          handsOver>>

Ended    == {"returned", "crashed", "cancelled"}
Waits    == {"waiting", "timed", "arming", "woken", "handing"}
Working  == {"leasing", "gathering"}
Outcomes == {"none", "open", "result", "error", "cancelled"}
WorkOver == {"returned", "raised", "lost"}

TypeOK ==
    /\ started \in BOOLEAN /\ stopping \in BOOLEAN /\ task \in BOOLEAN
    /\ loop \in Ended \cup Waits \cup Working \cup {"ready", "crashing"}
    /\ batch \subseteq Items /\ (batch # {} => loop \in Working) /\ cancelling \in BOOLEAN
    /\ pending \subseteq Items /\ ripe \subseteq pending /\ removing \subseteq Items
    /\ posted \subseteq Items /\ entering \subseteq Items
    /\ outcome \in [Items -> Outcomes]
    /\ work \in [Items -> {"no", "queued", "running"} \cup WorkOver]
    /\ stopAt \in [Stoppers -> {"idle", "locking", "awaiting"}] /\ harsh \subseteq Stoppers
    /\ handsOver \in BOOLEAN

Init ==
    /\ started = FALSE /\ stopping = FALSE /\ task = FALSE
    /\ loop = "returned" /\ batch = {} /\ cancelling = FALSE
    /\ pending = {} /\ ripe = {} /\ removing = {}
    /\ posted = {} /\ entering = {}
    /\ outcome = [i \in Items |-> "none"]
    /\ work = [i \in Items |-> "no"]
    /\ lockQueue = <<>>
    /\ stopAt = [s \in Stoppers |-> "idle"] /\ harsh = {}
    /\ handsOver \in WaitFors

-----------------------------------------------------------------------------
\* The condition: its lock and its waiters.

\* wait_for holds the lock over an await.
Held == loop \in {"arming", "handing"}

IsQueued(x) == \E k \in 1..Len(lockQueue) : lockQueue[k] = x

\* async with self._condition, when the lock is free and nobody is ahead; and when not.
Enters(x) ==
    /\ ~Held
    /\ \/ lockQueue = <<>> /\ UNCHANGED lockQueue
       \/ lockQueue # <<>> /\ Head(lockQueue) = x /\ lockQueue' = Tail(lockQueue)
Queues(x) ==
    /\ Held \/ lockQueue # <<>>
    /\ ~IsQueued(x)
    /\ lockQueue' = Append(lockQueue, x)
LeavesQueue(x) ==
    lockQueue' = IF IsQueued(x) THEN SelectSeq(lockQueue, LAMBDA y : y # x) ELSE lockQueue

\* The loop is in condition.wait(), the only waiter there is; the loop after a notify, of
\* one waiter or of all.
Asleep == loop \in {"waiting", "timed"} /\ ~cancelling
Woken  == IF loop = "timed" /\ handsOver THEN "woken" ELSE "ready"

\* Mutant of Notify: the waiter is not notified.
NotifyNobody == UNCHANGED loop

Notify == loop' = IF Asleep THEN Woken ELSE loop

\* Mutant of Drop: the age of the oldest item outlives it.
DropStaleAge(gone) == pending' = pending \ gone /\ UNCHANGED ripe

\* Items leave _pending.
Drop(gone) == pending' = pending \ gone /\ ripe' = ripe \ gone

\* The futures after those still open among the items in gone were resolved to how.
\* A future that is done is left alone.
Resolved(gone, how) ==
    [i \in Items |-> IF i \in gone /\ outcome[i] = "open" THEN how ELSE outcome[i]]

-----------------------------------------------------------------------------
\* enqueue(), submit() and submit_from_thread().

\* Mutant of Admits: a stopping grinder still takes items.
AdmitsStopping == started

Admits == started /\ ~stopping

\* Mutant of Put: fewer items than the threshold wake nobody.
PutQuietly(i) ==
    /\ pending' = pending \cup {i}
    /\ IF Cardinality(pending') >= Threshold THEN Notify ELSE UNCHANGED loop

\* The locked section of enqueue.  It notifies one waiter or, at the threshold, all.
Put(i) == pending' = pending \cup {i} /\ Notify

\* enqueue, also for an item from another thread: it creates the future, then takes
\* the lock and appends the item, or waits for the lock.
Enqueue(i) ==
    /\ outcome[i] = "none" /\ Admits
    /\ outcome' = [outcome EXCEPT ![i] = "open"]
    /\ posted' = posted \ {i}
    /\ \/ Enters(<<"enqueue", i>>) /\ Put(i) /\ UNCHANGED entering
       \/ Queues(<<"enqueue", i>>) /\ entering' = entering \cup {i} /\ UNCHANGED <<pending, loop>>
    /\ UNCHANGED <<grinderVars, batch, cancelling, ripe, removing, work, stopVars, handsOver>>

EnqueueResumes(i) ==
    /\ i \in entering
    /\ Enters(<<"enqueue", i>>) /\ Put(i)
    /\ entering' = entering \ {i}
    /\ UNCHANGED <<grinderVars, batch, cancelling, ripe, removing, posted, outcome, work, stopVars,
                   handsOver>>

\* submit_from_thread: it looks at the flags on the caller's thread and posts submit()
\* to the loop, which looks again.
Post(i) ==
    /\ outcome[i] = "none" /\ i \notin posted /\ Admits
    /\ posted' = posted \cup {i}
    /\ UNCHANGED <<grinderVars, loopVars, queueVars, entering, outcome, work, lockQueue, stopVars,
                   handsOver>>

PostRefused(i) ==
    /\ i \in posted /\ ~Admits
    /\ posted' = posted \ {i}
    /\ outcome' = [outcome EXCEPT ![i] = "error"]
    /\ UNCHANGED <<grinderVars, loopVars, queueVars, entering, work, lockQueue, stopVars, handsOver>>

\* The caller cancels its future, or is cancelled in submit(), or in an enqueue() that waits
\* for the lock: nothing is appended then. Of an item that is not pending the scheduled
\* removal finds nothing: only those of pending items are kept.
CancelItem(i) ==
    /\ outcome[i] = "open"
    /\ outcome' = [outcome EXCEPT ![i] = "cancelled"]
    /\ removing' = IF started /\ i \in pending THEN removing \cup {i} ELSE removing
    /\ entering' = entering \ {i} /\ LeavesQueue(<<"enqueue", i>>)
    /\ UNCHANGED <<grinderVars, loopVars, pending, ripe, posted, work, stopVars, handsOver>>

\* _remove_cancelled_pending_item, which waits for the lock if it has to; the done
\* callback does not schedule it when it finds the grinder without a loop.
Remove(i) ==
    /\ i \in removing
    /\ \/ /\ Enters(<<"remove", i>>)
          /\ removing' = removing \ {i}
          /\ Drop({i})
          /\ IF i \in pending THEN Notify ELSE UNCHANGED loop
       \/ Queues(<<"remove", i>>) /\ UNCHANGED <<pending, ripe, removing, loop>>
       \/ /\ ~started /\ ~IsQueued(<<"remove", i>>)
          /\ removing' = removing \ {i}
          /\ UNCHANGED <<pending, ripe, loop, lockQueue>>
    /\ UNCHANGED <<grinderVars, batch, cancelling, callerVars, outcome, work, stopVars, handsOver>>

-----------------------------------------------------------------------------
\* start() and stop().

\* Not while a stop() is coming back: that one would undo the start halfway.
Start ==
    /\ ~started /\ \A s \in Stoppers : stopAt[s] = "idle"
    /\ started' = TRUE /\ stopping' = FALSE /\ task' = TRUE
    /\ loop' = "ready"
    /\ UNCHANGED <<batch, cancelling, queueVars, callerVars, outcome, work, lockQueue, stopVars,
                   handsOver>>

Live == loop \notin Ended

\* The CancelledError of the grinder task leaves a gentle stop(), and the flags as they are.
Raises(harshly) == loop = "cancelled" /\ ~harshly

\* The locked section of stop() and what follows up to its await of the task: a harsh
\* stop cancels the pending futures and the task. It does not await a task that ended
\* before, or was forgotten by another stop().
StopSection(s, harshly) ==
    /\ IF harshly
       THEN Drop(pending) /\ outcome' = Resolved(pending, "cancelled")
       ELSE UNCHANGED <<pending, ripe, outcome>>
    /\ Notify
    /\ cancelling' = (cancelling \/ (harshly /\ Live))
    /\ \/ /\ Live
          /\ stopAt' = [stopAt EXCEPT ![s] = "awaiting"] /\ stopping' = TRUE
          /\ UNCHANGED <<started, task>>
       \/ /\ ~Live
          /\ stopAt' = [stopAt EXCEPT ![s] = "idle"] /\ task' = FALSE
          /\ IF task /\ Raises(harshly) THEN stopping' = TRUE /\ UNCHANGED started
                                       ELSE stopping' = FALSE /\ started' = FALSE

StopCall(s, harshly) ==
    /\ stopAt[s] = "idle" /\ started
    /\ harsh' = IF harshly THEN harsh \cup {s} ELSE harsh \ {s}
    /\ \/ Enters(<<"stop", s>>) /\ StopSection(s, harshly)
       \/ /\ Queues(<<"stop", s>>)
          /\ stopping' = TRUE /\ stopAt' = [stopAt EXCEPT ![s] = "locking"]
          /\ UNCHANGED <<started, task, pending, ripe, outcome, loop, cancelling>>
    /\ UNCHANGED <<batch, removing, callerVars, work, handsOver>>

StopResumes(s) ==
    /\ stopAt[s] = "locking"
    /\ Enters(<<"stop", s>>) /\ StopSection(s, s \in harsh)
    /\ UNCHANGED <<batch, removing, callerVars, work, harsh, handsOver>>

\* stop() is over; the task is forgotten in either case.
StopOver(s, raises) ==
    /\ stopAt' = [stopAt EXCEPT ![s] = "idle"]
    /\ task' = FALSE
    /\ IF raises THEN UNCHANGED <<started, stopping>> ELSE started' = FALSE /\ stopping' = FALSE

\* The caller of stop() is cancelled: waiting for the lock it leaves, awaiting the
\* task it cancels that instead. When the task has just ended, the CancelledError is that
\* of the caller: a gentle stop raises it, a harsh one takes it for the task's.
StopInterrupted(s) ==
    /\ MayInterrupt
    /\ \/ /\ stopAt[s] = "locking" /\ stopAt' = [stopAt EXCEPT ![s] = "idle"]
          /\ LeavesQueue(<<"stop", s>>) /\ UNCHANGED <<grinderVars, cancelling>>
       \/ /\ stopAt[s] = "awaiting" /\ Live /\ ~cancelling
          /\ cancelling' = TRUE
          /\ UNCHANGED <<grinderVars, stopAt, lockQueue>>
       \/ /\ stopAt[s] = "awaiting" /\ ~Live /\ s \notin harsh
          /\ StopOver(s, TRUE)
          /\ UNCHANGED <<cancelling, lockQueue>>
    /\ UNCHANGED <<loop, batch, queueVars, callerVars, outcome, work, harsh, handsOver>>

\* stop() after the await of the task.
StopReturns(s) ==
    /\ stopAt[s] = "awaiting" /\ ~Live
    /\ StopOver(s, Raises(s \in harsh))
    /\ UNCHANGED <<loopVars, queueVars, callerVars, outcome, work, lockQueue, harsh, handsOver>>

-----------------------------------------------------------------------------
\* _grinder_loop and _wait_for_next_batch.

\* The loop looks at the pending items: it gets the lock, or wait_for gave it the lock
\* back. A cancellation that meets wait_for then is lost.
Looks ==
    \/ /\ loop = "ready" /\ ~cancelling
       /\ Enters(<<"loop", "loop">>) /\ UNCHANGED cancelling
    \/ /\ loop = "handing" /\ cancelling' = FALSE
       /\ UNCHANGED lockQueue

\* Mutant of Due: time alone does not make a batch due.
DueBySize == stopping \/ Cardinality(pending) >= Threshold

Due == stopping \/ Cardinality(pending) >= Threshold \/ ripe # {}

\* Mutant of LiveBatch: cancelled items are not filtered out.
WholeBatch == pending

LiveBatch == {i \in pending : outcome[i] # "cancelled"}

\* A batch is due: the loop drains the pending items and, unless all were cancelled,
\* goes for a lease.
TakeBatch ==
    /\ Looks /\ pending # {} /\ Due
    /\ Drop(pending)
    /\ batch' = LiveBatch
    /\ loop' = IF LiveBatch = {} THEN "ready" ELSE "leasing"
    /\ UNCHANGED <<grinderVars, removing, callerVars, outcome, work, stopVars, handsOver>>

\* No batch is due: it waits to be notified, with a timeout while items are pending; or
\* it ends, when the grinder is stopping and nothing is pending.
Rest ==
    /\ Looks
    /\ \/ /\ pending # {} /\ ~Due
          /\ loop' = IF handsOver THEN "arming" ELSE "timed"
       \/ /\ pending = {}
          /\ loop' = IF stopping THEN "returned" ELSE "waiting"
    /\ UNCHANGED <<grinderVars, batch, queueVars, callerVars, outcome, work, stopVars,
                   handsOver>>

\* The loop has to wait for the lock.
LoopQueues ==
    /\ loop \in {"ready", "woken", "crashing"} /\ Queues(<<"loop", "loop">>)
    /\ UNCHANGED <<grinderVars, loopVars, queueVars, callerVars, outcome, work, stopVars, handsOver>>

\* wait_for's own task: it gives the lock up and waits; woken, it takes the lock again
\* and hands it over to the loop.
WaitForTask ==
    /\ \/ loop = "arming" /\ loop' = "timed" /\ UNCHANGED lockQueue
       \/ /\ loop = "woken" /\ Enters(<<"loop", "loop">>)
          /\ loop' = "handing"
    /\ UNCHANGED <<grinderVars, batch, cancelling, queueVars, callerVars, outcome, work, stopVars,
                   handsOver>>

\* The timeout of the timed wait.
Timer ==
    /\ loop = "timed" /\ ~cancelling /\ ripe # {}
    /\ loop' = Woken
    /\ UNCHANGED <<grinderVars, batch, cancelling, queueVars, callerVars, outcome, work, lockQueue,
                   stopVars, handsOver>>

Ripen(i) ==
    /\ i \in pending \ ripe
    /\ ripe' = ripe \cup {i}
    /\ UNCHANGED <<grinderVars, loopVars, pending, removing, callerVars, outcome, work, lockQueue,
                   stopVars, handsOver>>

\* A cancellation ends the loop between batches, wherever it awaits.
LoopCancelled ==
    /\ cancelling
    /\ \/ loop \in {"ready", "waiting", "timed", "arming", "woken"}
       \/ loop = "crashing" /\ IsQueued(<<"loop", "loop">>)
    /\ cancelling' = FALSE
    /\ loop' = "cancelled"
    /\ LeavesQueue(<<"loop", "loop">>)
    /\ UNCHANGED <<grinderVars, batch, queueVars, callerVars, outcome, work, stopVars, handsOver>>

\* The handler of an exception in the loop fails what is pending; the loop ends and the
\* grinder stays started.
Crash ==
    /\ loop = "crashing" /\ Enters(<<"loop", "loop">>)
    /\ cancelling' = FALSE
    /\ loop' = "crashed"
    /\ Drop(pending)
    /\ outcome' = Resolved(pending, "error")
    /\ UNCHANGED <<grinderVars, batch, removing, callerVars, work, stopVars, handsOver>>

-----------------------------------------------------------------------------
\* _process_batch.

\* Where the loop goes after the release of the lease, which may raise.
AfterRelease == {"ready"} \cup (IF ReleaseMayRaise THEN {"crashing"} ELSE {})

\* Mutant of Unsent: those a failed submission left out are forgotten.
UnsentForgotten(sent) == {}

\* The items run_in_executor did not take, because it raised for one of them.
Unsent(sent) == batch \ sent

\* The lease is granted and the items in sent are submitted, those cancelled meanwhile
\* too; the first exception fails the rest.
Leased ==
    /\ loop = "leasing" /\ ~cancelling
    /\ \E sent \in SUBSET batch :
        /\ work' = [i \in Items |-> IF i \in sent THEN "queued" ELSE work[i]]
        /\ outcome' = Resolved(Unsent(sent), "error")
        /\ batch' = sent
        /\ \/ sent # {} /\ loop' = "gathering"
           \/ sent = {} /\ \E next \in AfterRelease : loop' = next
    /\ UNCHANGED <<grinderVars, cancelling, queueVars, callerVars, lockQueue, stopVars, handsOver>>

\* acquire() raises: the batch fails.
LeaseRefused ==
    /\ loop = "leasing" /\ ~cancelling
    /\ outcome' = Resolved(batch, "error")
    /\ batch' = {}
    /\ loop' = "ready"
    /\ UNCHANGED <<grinderVars, cancelling, queueVars, callerVars, work, lockQueue, stopVars, handsOver>>

\* Mutant of Answers: what gather returned is set without asking whether the future is done.
AnswersAll ==
    [i \in Items |-> IF i \notin batch THEN outcome[i]
                     ELSE IF work[i] = "returned" THEN "result" ELSE "error"]

\* The futures of the batch after what gather returned was passed on.
Answers ==
    [i \in Items |-> IF i \notin batch \/ outcome[i] # "open" THEN outcome[i]
                     ELSE IF work[i] = "returned" THEN "result" ELSE "error"]

\* All work of the batch is over: the futures are answered and the lease released.
Gathered ==
    /\ loop = "gathering" /\ ~cancelling
    /\ \A i \in batch : work[i] \in WorkOver
    /\ outcome' = Answers
    /\ batch' = {}
    /\ \E next \in AfterRelease : loop' = next
    /\ UNCHANGED <<grinderVars, cancelling, queueVars, callerVars, work, lockQueue, stopVars, handsOver>>

\* A cancellation in a batch: the executor futures that wait and the open futures are
\* cancelled; the lease is released, and drains.
BatchCancelled ==
    /\ cancelling /\ loop \in Working
    /\ cancelling' = FALSE
    /\ work' = [i \in Items |-> IF i \in batch /\ work[i] = "queued" THEN "lost" ELSE work[i]]
    /\ outcome' = Resolved(batch, "cancelled")
    /\ batch' = {}
    /\ \/ loop' = "cancelled"
       \/ /\ ReleaseMayRaise /\ loop = "gathering"
          /\ loop' = "crashing"
    /\ UNCHANGED <<grinderVars, queueVars, callerVars, lockQueue, stopVars, handsOver>>

-----------------------------------------------------------------------------
\* The leased executor: it runs the functions, or drops those that wait (shut down by
\* the manager, or broken).

Work(i, from, to) ==
    /\ work[i] = from
    /\ work' = [work EXCEPT ![i] = to]
    /\ UNCHANGED <<grinderVars, loopVars, queueVars, callerVars, outcome, lockQueue, stopVars, handsOver>>

BeginWork(i) == Work(i, "queued", "running")
EndWork(i)   == Work(i, "running", "returned") \/ Work(i, "running", "raised")
LoseWork(i)  == Work(i, "queued", "lost")

-----------------------------------------------------------------------------
LoopStep ==
    \/ TakeBatch \/ Rest \/ LoopQueues \/ WaitForTask
    \/ Timer \/ LoopCancelled \/ Crash
    \/ Gathered \/ BatchCancelled

Manager == Leased \/ LeaseRefused

Next ==
    \/ Start
    \/ \E s \in Stoppers :
        \/ StopCall(s, TRUE) \/ StopCall(s, FALSE)
        \/ StopResumes(s) \/ StopInterrupted(s) \/ StopReturns(s)
    \/ \E i \in Items :
        \/ Enqueue(i) \/ EnqueueResumes(i) \/ Post(i) \/ PostRefused(i)
        \/ CancelItem(i) \/ Remove(i) \/ Ripen(i)
        \/ BeginWork(i) \/ EndWork(i) \/ LoseWork(i)
    \/ LoopStep \/ Manager

Spec == Init /\ [][Next]_vars

\* The event loop runs what is ready, time passes, the manager answers acquire (callers
\* release their leases), and the submitted functions end. Nobody has to enqueue,
\* cancel, stop or start anything.
Fairness ==
    /\ WF_vars(LoopStep) /\ WF_vars(Manager)
    /\ \A s \in Stoppers : WF_vars(StopResumes(s)) /\ WF_vars(StopReturns(s))
    /\ \A i \in Items :
        /\ WF_vars(EnqueueResumes(i)) /\ WF_vars(i \in posted /\ (Enqueue(i) \/ PostRefused(i)))
        /\ WF_vars(Remove(i)) /\ WF_vars(Ripen(i))
        /\ WF_vars(BeginWork(i)) /\ WF_vars(EndWork(i))

FairSpec == Spec /\ Fairness

-----------------------------------------------------------------------------
\* Safety.

\* No accepted item is forgotten: while its future is open, its enqueue is on the way,
\* or it is pending, or the grinder loop has it in its batch.
NothingForgotten ==
    \A i \in Items : outcome[i] = "open" => i \in entering \cup pending \cup batch

\* The loop does not sleep over work: it sleeps without a timeout only when nothing is
\* pending, with one only when less than a batch is, and never when a stop() awaits it.
NobodySleepsOverWork ==
    Asleep =>
        /\ IF loop = "waiting" THEN pending = {}
                               ELSE pending # {} /\ Cardinality(pending) < Threshold
        /\ stopping => \A s \in Stoppers : stopAt[s] # "awaiting"

\* A loop that ended of itself has drained everything: nothing is pending, no accepted
\* item is still on its way in. (Where wait_for does not hand the lock over.)
ReturnsDrained ==
    ~handsOver /\ task /\ loop = "returned" => pending = {} /\ entering = {}

\* An item whose future is cancelled while it is pending is never run.
CancelledPendingNeverRuns ==
    \A i \in Items : [](i \in pending /\ outcome[i] = "cancelled" => [](work[i] = "no"))

\* The grinder keeps the promises of WorkService.
Service == INSTANCE WorkService WITH
    work <- [i \in Items |-> IF work[i] \in {"queued", "running"} THEN "handed" ELSE work[i]]
ImplementsService == Service!Spec

-----------------------------------------------------------------------------
\* Liveness, under FairSpec.

\* An accepted item is resolved, unless the grinder loop ends first.
AcceptedIsResolved == \A i \in Items : outcome[i] = "open" ~> outcome[i] # "open" \/ ~Live

\* stop() ends.
StopEnds == \A s \in Stoppers : stopAt[s] # "idle" ~> stopAt[s] = "idle"

-----------------------------------------------------------------------------
\* What the repository says and the code does not do.

\* README.md:335, "Drains already queued work before stopping": stop() without
\* cancel_pending comes back from a grinder in which nothing is pending.
StopDrains ==
    [][\A s \in Stoppers \ harsh : stopAt[s] # "idle" /\ stopAt'[s] = "idle" /\ ~started' =>
          pending = {}]_vars
=============================================================================
