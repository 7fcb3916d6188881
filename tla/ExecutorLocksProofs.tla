------------------------ MODULE ExecutorLocksProofs ------------------------
(***************************************************************************)
(* Theorems of ExecutorLocks, for any executors, futures, threads, workers *)
(* per pool and kinds of pools.  The inductive invariant has two halves: Shape (where *)
(* a thread is says what it deals with and whether it holds the manager's  *)
(* lock) and Ordered (whoever shuts an executor down is the only one, and  *)
(* the lease was popped before), from which the absence of deadlock        *)
(* follows.                                                                *)
(***************************************************************************)
EXTENDS ExecutorLocks, TLAPS

WorkerPlaces == {"new", "init", "failing", "ready", "run", "report", "dead", "drain", "notify"}
OtherPlaces  == {"idle", "submit", "hook", "close", "more", "drain", "notify"}

Shape ==
    /\ TypeOK
    /\ \A t \in Workers : on[t] \in Executors /\ on[t] = t[1] /\ at[t] \in WorkerPlaces
    /\ \A t \in Others : at[t] \in OtherPlaces /\ (at[t] # "idle" => on[t] \in Executors)
    /\ \A t \in Workers : at[t] = "init" => ~pool.processes
    /\ lock \notin Workers
    /\ \A t \in Threads : at[t] \in {"submit", "hook", "more"} => lock = t
    /\ \A t \in Threads : at[t] \in {"hook", "notify", "report", "run"} =>
            item[t] \in Futures /\ state[item[t]] # "none"
    /\ \A f \in Futures : state[f] # "none" => home[f] \in Executors

Closing(t) == at[t] \in {"close", "drain", "notify"}

Ordered ==
    /\ \A t \in Threads : at[t] = "submit" => lease[on[t]] = "leased"
    /\ \A t \in Others : Closing(t) => lease[on[t]] = "gone" /\ on[t] \notin deferred
    /\ \A t, u \in Others : Closing(t) /\ Closing(u) /\ on[t] = on[u] => t = u
    /\ \A e \in deferred : lease[e] = "gone"
    /\ ~BreaksLocked => \A w \in Workers : at[w] \notin {"failing", "drain", "notify"}

IInv == Shape /\ Ordered

\* Loop and pool threads are apart, and none of them is Nobody.
LEMMA ThreadFacts ==
    /\ Threads = Others \cup Workers /\ Others \cap Workers = {} /\ Loop \in Others
    /\ \A t \in Threads : t # Nobody
    /\ Nobody \notin Executors /\ Nobody \notin Futures
    /\ \A w \in Workers : w[1] \in Executors
BY LocksAssumption DEF Threads, Others, Workers

\* The invariant holds throughout: the owner of the manager's lock is the only one that pops
\* leases, and a callback that pops one does so before anybody shuts its executor down.
THEOREM IInvHolds == Spec => []IInv
<1>1. Init => IInv
  BY ThreadFacts, LocksAssumption DEF Init, IInv, Shape, Ordered, TypeOK, BreaksLocked, Closing, WorkerPlaces,
     OtherPlaces
<1>2. IInv /\ [Next]_vars => IInv'
  <2> SUFFICES ASSUME IInv, [Next]_vars PROVE IInv'
    OBVIOUS
  <2> USE DEF IInv, Shape, Ordered, TypeOK, BreaksLocked, PoolKinds, Closing, WorkerPlaces, OtherPlaces, Moves, futureVars,
              poolVars
  <2>1. ASSUME NEW t \in Threads, SubmitToExecutor(t) PROVE IInv'
    BY <2>1, ThreadFacts DEF SubmitToExecutor, Unlocks
  <2>2. ASSUME NEW t \in Threads, Hook(t) PROVE IInv'
    BY <2>2, ThreadFacts DEF Hook, Unlocks, Settled, Defers, PendingOn
  <2>3. ASSUME NEW t \in Threads, EnterDrain(t) PROVE IInv'
    BY <2>3, ThreadFacts DEF EnterDrain
  <2>4. ASSUME NEW t \in Threads, NEW f \in Futures, DrainOne(t, f) PROVE IInv'
    BY <2>4, ThreadFacts DEF DrainOne, Drainable, Queue, Unresolved
  <2>5. ASSUME NEW t \in Threads, Callback(t) PROVE IInv'
    BY <2>5, ThreadFacts DEF Callback, Free, Settled, Defers
  <2>6. ASSUME NEW t \in Threads, LeaveDrain(t) PROVE IInv'
    BY <2>6, ThreadFacts DEF LeaveDrain
  <2>7. ASSUME NEW w \in Workers, StartWorker(w) PROVE IInv'
    BY <2>7, ThreadFacts DEF StartWorker
  <2>8. ASSUME NEW w \in Workers, Initializer(w) PROVE IInv'
    BY <2>8, ThreadFacts DEF Initializer
  <2>9. ASSUME NEW w \in Workers, NEW f \in Futures, TakeWork(w, f) PROVE IInv'
    BY <2>9, ThreadFacts DEF TakeWork, Queue
  <2>10. ASSUME NEW w \in Workers, NEW f \in Futures, EndWork(w, f) PROVE IInv'
    BY <2>10, ThreadFacts DEF EndWork, InHand, Resolves
  <2>11. ASSUME NEW e \in Executors, Acquire(e) PROVE IInv'
    BY <2>11, ThreadFacts DEF Acquire
  <2>12. ASSUME NEW e \in Executors, Discard(e) PROVE IInv'
    BY <2>12, ThreadFacts DEF Discard, Closes
  <2>13. ASSUME NEW e \in Executors, Release(e) PROVE IInv'
    BY <2>13, ThreadFacts DEF Release, Popped, Closes
  <2>14. ASSUME NEW t \in Others, NEW e \in Executors, SubmitCall(t, e) PROVE IInv'
    BY <2>14, ThreadFacts DEF SubmitCall, Closes
  <2>15. ASSUME NEW t \in Others, NEW e \in Executors, RunDeferred(t, e) PROVE IInv'
    BY <2>15, ThreadFacts DEF RunDeferred, Closes
  <2>16. ASSUME Unlock PROVE IInv'
    BY <2>16, ThreadFacts DEF Unlock, Unlocks
  <2>17. ASSUME Stop PROVE IInv'
    BY <2>17, ThreadFacts DEF Stop
  <2>18. ASSUME NEW w \in Workers, NEW f \in Futures, Discards(w, f) PROVE IInv'
    BY <2>18, ThreadFacts DEF Discards, Resolves, Queue, Unresolved
  <2>19. ASSUME NEW w \in Workers, ProcessDies(w) PROVE IInv'
    BY <2>19, ThreadFacts DEF ProcessDies
  <2>20. CASE UNCHANGED vars
    BY <2>20 DEF vars
  <2> QED
    BY <2>1, <2>2, <2>3, <2>4, <2>5, <2>6, <2>7, <2>8, <2>9, <2>10, <2>11, <2>12, <2>13,
       <2>14, <2>15, <2>16, <2>17, <2>18, <2>19, <2>20 DEF Next, Continue, Worker
<1> QED BY <1>1, <1>2, PTL DEF Spec

\* Every variable keeps its type, and a lock is held where the code holds it.
THEOREM LocksTyped == Spec => []TypeOK
<1>1. IInv => TypeOK
  BY DEF IInv, Shape
<1> QED BY IInvHolds, <1>1, PTL

\* manager.py:1127: no thread ever waits for an executor's lock that it holds itself,
\* because shutdown() is never called from a callback.
THEOREM NeverBlocksItselfHolds == Spec => []NeverBlocksItself
<1>1. IInv => NeverBlocksItself
  BY ThreadFacts DEF IInv, Shape, TypeOK, NeverBlocksItself, Blocker, Free, WorkerPlaces,
     OtherPlaces
<1> QED BY IInvHolds, <1>1, PTL

\* README.md:80: but for pools that break under their lock, whoever holds the manager's lock
\* or one of its executors' can go on, whatever the number of executors, workers and callers.
THEOREM LocksAreOrderedHolds == Spec => []LocksAreOrdered
<1>1. IInv => LocksAreOrdered
  <2> SUFFICES ASSUME IInv, NEW t \in Threads, Blocker(t) # Nobody,
                      Blocker(Blocker(t)) # Nobody,
                      ~FailsPool(t), ~FailsPool(Blocker(t)), ~FailsPool(Blocker(Blocker(t)))
               PROVE  FALSE
    BY DEF LocksAreOrdered
  <2>1. ASSUME NEW u \in Threads, at[u] \in {"submit", "close"}, guard[on[u]] # Nobody
        PROVE  FailsPool(guard[on[u]])
    <3>1. /\ on[u] \in Executors /\ guard[on[u]] \in Threads
          /\ on[guard[on[u]]] = on[u] /\ at[guard[on[u]]] \in {"drain", "notify"}
      BY <2>1, ThreadFacts DEF IInv, Shape, TypeOK, WorkerPlaces
    <3>2. guard[on[u]] \in Workers
      BY <2>1, <3>1, ThreadFacts DEF IInv, Shape, Ordered, Closing, WorkerPlaces
    <3> QED BY <3>1, <3>2 DEF FailsPool
  <2>2. CASE at[t] \in {"submit", "close", "failing"}
    <3>1. at[t] # "failing"
      BY ThreadFacts DEF FailsPool, IInv, Shape, OtherPlaces
    <3> QED BY <2>1, <2>2, <3>1 DEF Blocker
  <2>3. CASE at[t] \in {"notify", "report"}
    <3>1. Blocker(t) = lock /\ lock \in Threads
      BY <2>3 DEF Blocker, IInv, Shape, TypeOK
    <3>2. at[lock] \in {"submit", "close"}
      BY <3>1, ThreadFacts DEF Blocker, Free, IInv, Shape, TypeOK
    <3> QED BY <2>1, <3>1, <3>2 DEF Blocker
  <2> QED BY <2>2, <2>3 DEF Blocker
<1> QED BY IInvHolds, <1>1, PTL

\* So the deadlock of README.md:80 takes a thread pool whose initializer raises, or a process
\* pool of a CPython that fails the futures of a broken one under its lock.
THEOREM DeadlockNeedsLockedBreak == Spec => [](~BreaksLocked => NoDeadlock)
<1>1. IInv /\ LocksAreOrdered => (~BreaksLocked => NoDeadlock)
  BY ThreadFacts DEF IInv, Ordered, LocksAreOrdered, FailsPool, NoDeadlock
<1> QED BY IInvHolds, LocksAreOrderedHolds, <1>1, PTL
=============================================================================
