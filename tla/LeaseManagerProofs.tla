------------------------- MODULE LeaseManagerProofs -------------------------
(***************************************************************************)
(* Proofs about LeaseManager, for every value of its constants.            *)
(*                                                                         *)
(* TypeInv (types, and every lease has an executor) is inductive by        *)
(* itself; the other invariants are inductive on top of it.                *)
(***************************************************************************)
EXTENDS LeaseManager, FiniteSetTheorems, TLAPS

\* Every lease holds an executor: what a finalized lease gives back is one.
TypeInv == TypeOK /\ \A l \in leased : executor[l] \in Executors

-----------------------------------------------------------------------------
\* The target is a number between the pool bounds, whatever the provider says.
LEMMA DesiredBounds ==
    ASSUME reading \in Readings
    PROVE  Desired \in Int /\ MinPools <= Desired /\ Desired <= MaxPools
<1>1. UnitCount(reading) \in Int
  BY PoolAssumption DEF UnitCount
<1>2. CeilDiv(UnitCount(reading), UnitsPerPool) \in Int
  BY <1>1, PoolAssumption DEF CeilDiv
<1> QED
  BY <1>2, PoolAssumption DEF Desired, DesiredCount

\* Shutting down and creating executors keeps the status function typed.
LEMMA StatusAfterType ==
    ASSUME TypeOK, NEW down, NEW made
    PROVE  StatusAfter(down, made) \in [Executors -> {"down", "up", "broken"}]
BY DEF TypeOK, StatusAfter

\* The futures stay typed through a shutdown, a lost lease and a callback.
LEMMA FutureAfterType ==
    ASSUME TypeOK, NEW gone, NEW down, NEW called
    PROVE  FutureAfter(gone, down, called)
             \in [Futures -> [state : FutureStates \cup {"none"},
                              lease : Leases \cup {NoLease},
                              executor : Executors \cup {NoExecutor}]]
BY DEF TypeOK, FutureAfter, NoWork

\* Once leases are gone each client still holds a lease or none.
LEMMA HandleAfterType ==
    ASSUME TypeOK, NEW gone
    PROVE  HandleAfter(gone) \in [Clients -> Leases \cup {NoLease}]
BY DEF TypeOK, HandleAfter

\* Dropping leases keeps the lease variables typed.
LEMMA DropType ==
    ASSUME TypeInv, NEW gone, Drop(gone)
    PROVE  /\ leased' \subseteq Leases
           /\ executor' \in [Leases -> Executors \cup {NoExecutor}]
           /\ pending' \in [Leases -> SUBSET Futures]
           /\ releaseRequested' \subseteq leased'
           /\ expired' \subseteq leased'
           /\ \A l \in leased' : executor'[l] \in Executors
BY DEF TypeInv, TypeOK, Drop

\* The same with the leases the checker has not seen yet.
LEMMA ForgetType ==
    ASSUME TypeInv, NEW gone, Forget(gone)
    PROVE  /\ leased' \subseteq Leases
           /\ executor' \in [Leases -> Executors \cup {NoExecutor}]
           /\ pending' \in [Leases -> SUBSET Futures]
           /\ releaseRequested' \subseteq leased'
           /\ expired' \subseteq leased'
           /\ unwatched' \subseteq leased'
           /\ \A l \in leased' : executor'[l] \in Executors
<1>1. Drop(gone) /\ unwatched' = unwatched \ gone
  BY DEF Forget
<1>2. leased' = leased \ gone
  BY <1>1 DEF Drop
<1> QED
  BY <1>1, <1>2, DropType DEF TypeInv, TypeOK

\* Leaving _leased keeps every variable it touches typed.
LEMMA LeaveType ==
    ASSUME TypeInv, NEW l \in leased, NEW back \in SUBSET {executor[l]},
           NEW called, NEW callback \in BOOLEAN,
           Leave(l, back, called, callback)
    PROVE  /\ available' \subseteq Executors
           /\ leased' \subseteq Leases
           /\ executor' \in [Leases -> Executors \cup {NoExecutor}]
           /\ pending' \in [Leases -> SUBSET Futures]
           /\ releaseRequested' \subseteq leased'
           /\ expired' \subseteq leased'
           /\ unwatched' \subseteq leased'
           /\ \A k \in leased' : executor'[k] \in Executors
           /\ status' \in [Executors -> {"down", "up", "broken"}]
           /\ future' \in [Futures -> [state : FutureStates \cup {"none"},
                                       lease : Leases \cup {NoLease},
                                       executor : Executors \cup {NoExecutor}]]
           /\ owed' \subseteq Executors \cup {NoExecutor}
           /\ availQueued' \in BOOLEAN
           /\ scaleQueued' \in BOOLEAN
<1>1. Forget({l})
  BY DEF Leave
<1>2. executor[l] \in Executors /\ back \subseteq Executors /\ DebtOf(l, back) \in Executors \cup {NoExecutor}
  BY DEF TypeInv, TypeOK, DebtOf
<1>3. PICK made \in SUBSET Fresh : available' = available \cup back \cup made
  BY DEF Leave
<1>4. available' \subseteq Executors
  BY <1>2, <1>3 DEF Fresh, TypeInv, TypeOK
<1>5. TypeOK
  BY DEF TypeInv
<1>6. \A down, new : StatusAfter(down, new) \in [Executors -> {"down", "up", "broken"}]
  BY <1>5, StatusAfterType
<1>7. \A gone, down : FutureAfter(gone, down, called)
             \in [Futures -> [state : FutureStates \cup {"none"},
                              lease : Leases \cup {NoLease},
                              executor : Executors \cup {NoExecutor}]]
  BY <1>5, FutureAfterType
<1>8. /\ status' \in [Executors -> {"down", "up", "broken"}]
      /\ future' \in [Futures -> [state : FutureStates \cup {"none"},
                                  lease : Leases \cup {NoLease},
                                  executor : Executors \cup {NoExecutor}]]
  BY <1>6, <1>7 DEF Leave
<1>9. owed' \subseteq Executors \cup {NoExecutor}
  BY <1>2, <1>5 DEF Leave, TypeOK
<1>10. availQueued' \in BOOLEAN /\ scaleQueued' \in BOOLEAN
  BY <1>5 DEF Leave, WakeWaiters, WakeChecker, TypeOK
<1> QED
  BY <1>1, <1>4, <1>8, <1>9, <1>10, ForgetType

\* Every variable keeps its type, and every lease an executor.
THEOREM TypeCorrect == Spec => []TypeInv
<1>1. Init => TypeInv
  <2> SUFFICES ASSUME Init PROVE TypeInv
    OBVIOUS
  <2>1. NoWork \in [state : FutureStates \cup {"none"}, lease : Leases \cup {NoLease},
                    executor : Executors \cup {NoExecutor}]
    BY DEF NoWork
  <2>2. future \in [Futures -> [state : FutureStates \cup {"none"}, lease : Leases \cup {NoLease},
                                executor : Executors \cup {NoExecutor}]]
    BY <2>1 DEF Init
  <2> QED
    BY <2>2 DEF Init, TypeInv, TypeOK
<1>2. TypeInv /\ [Next]_vars => TypeInv'
  <2> SUFFICES ASSUME TypeInv, [Next]_vars PROVE TypeInv'
    OBVIOUS
  <2> USE DEF TypeInv
  <2>1. ASSUME Start PROVE TypeInv'
    <3>1. PICK made \in SUBSET Fresh, t \in FreshTasks :
            /\ available' = available \cup made
            /\ status' = StatusAfter({}, made)
            /\ checkerTask' = t
            /\ checker' = [checker EXCEPT ![t] = "ready"]
      BY <2>1 DEF Start, StartNeed
    <3>2. status' \in [Executors -> {"down", "up", "broken"}]
      BY <3>1, StatusAfterType
    <3>3. /\ checkerTask' \in CheckerTasks
          /\ checker' \in [CheckerTasks -> {"ready", "waiting", "reaping", "adrift", "done"}]
          /\ available' \subseteq Executors
      BY <3>1 DEF TypeOK, FreshTasks, Fresh
    <3> QED
      BY <2>1, <3>2, <3>3 DEF Start, TypeOK, leaseVars, clientVars
  <2>2. ASSUME StartRaises PROVE TypeInv'
    BY <2>2, StatusAfterType, FutureAfterType, HandleAfterType, ForgetType
       DEF StartRaises, TypeOK, checkerVars
  <2>3. ASSUME NEW s \in Stoppers, StopCall(s) PROVE TypeInv'
    BY <2>3 DEF StopCall, TypeOK, leaseVars, workVars, clientVars, eventVars
  <2>4. ASSUME NEW s \in Stoppers, StopFinish(s) PROVE TypeInv'
    BY <2>4, StatusAfterType, FutureAfterType, HandleAfterType, ForgetType
       DEF StopFinish, EvictedPc, TypeOK
  <2>5. ASSUME NEW c \in Clients, AcquireGrant(c) PROVE TypeInv'
    BY <2>5, StatusAfterType, FutureAfterType, HandleAfterType
       DEF AcquireGrant, ClearOwnEvent, WakeChecker, Fresh, TypeOK, managerVars, checkerVars
  <2>6. ASSUME NEW c \in Clients, AcquireBlocked(c) PROVE TypeInv'
    BY <2>6 DEF AcquireBlocked, ClearOwnEvent, TypeOK, managerVars, leaseVars, workVars, checkerVars
  <2>7. ASSUME NEW c \in Clients, AcquireRefused(c) PROVE TypeInv'
    BY <2>7 DEF AcquireRefused, ClearOwnEvent, TypeOK, managerVars, leaseVars, workVars, checkerVars
  <2>8. ASSUME NEW c \in Clients, AcquireRaises(c) PROVE TypeInv'
    BY <2>8, StatusAfterType, FutureAfterType, HandleAfterType, ForgetType
       DEF AcquireRaises, ClearOwnEvent, Fresh, TypeOK, managerVars, checkerVars
  <2>9. ASSUME NEW c \in Clients, GiveUp(c) PROVE TypeInv'
    BY <2>9 DEF GiveUp, TypeOK, managerVars, leaseVars, workVars, checkerVars
  <2>10. ASSUME NEW c \in Clients, Submit(c) PROVE TypeInv'
    <3> DEFINE l == handle[c]
    <3>1. CASE l \in leased /\ Retire(l, {}, FALSE) /\ handle' = HandleAfter({l})
      BY <2>10, <3>1, LeaveType, HandleAfterType
         DEF Submit, Retire, TypeOK, managerVars, checkerVars
    <3>2. CASE /\ l \in leased
               /\ \E f \in Futures :
                    /\ future' = [future EXCEPT ![f] =
                                    [state |-> "queued", lease |-> l, executor |-> executor[l]]]
                    /\ pending' = [pending EXCEPT ![l] = @ \cup {f}]
               /\ UNCHANGED <<available, leased, executor, releaseRequested, expired, unwatched,
                              status, owed, handle, availQueued, scaleQueued>>
      BY <2>10, <3>2 DEF Submit, TypeOK, FutureStates, managerVars, checkerVars
    <3> QED
      BY <2>10, <3>1, <3>2 DEF Submit
  <2>11. ASSUME NEW c \in Clients, Release(c) PROVE TypeInv'
    <3> DEFINE l == handle[c]
    <3>1. CASE l \in leased /\ Finalize(l, {}, FALSE)
      <4> DEFINE back == IF Keeps(l) THEN {executor[l]} ELSE {}
      <4>1. Leave(l, back, {}, FALSE) /\ back \in SUBSET {executor[l]}
        BY <3>1 DEF Finalize
      <4> HIDE DEF back
      <4> QED
        BY <2>11, <3>1, <4>1, LeaveType DEF Release, TypeOK, managerVars, checkerVars
    <3>2. CASE l \in leased /\ ~Finalize(l, {}, FALSE)
      BY <2>11, <3>2 DEF Release, TypeOK, managerVars, checkerVars
    <3>3. CASE l \notin leased
      BY <2>11, <3>3 DEF Release, TypeOK, managerVars, leaseVars, checkerVars
    <3> QED
      BY <3>1, <3>2, <3>3
  <2>12. ASSUME NEW f \in Futures, StartWork(f) PROVE TypeInv'
    <3>1. future' \in [Futures -> [state : FutureStates \cup {"none"},
                                 lease : Leases \cup {NoLease},
                                 executor : Executors \cup {NoExecutor}]]
      BY <2>12 DEF StartWork, TypeOK, FutureStates
    <3> QED
      BY <2>12, <3>1 DEF StartWork, TypeOK, managerVars, leaseVars, clientVars, eventVars, checkerVars
  <2>13. ASSUME NEW f \in Futures, EndWork(f) PROVE TypeInv'
    <3>1. future' \in [Futures -> [state : FutureStates \cup {"none"},
                                 lease : Leases \cup {NoLease},
                                 executor : Executors \cup {NoExecutor}]]
      <4>1. PICK how \in {"done", "broken"} : future' = [future EXCEPT ![f].state = how]
        BY <2>13 DEF EndWork
      <4>2. [future[f] EXCEPT !.state = how] \in [state : FutureStates \cup {"none"},
                                                 lease : Leases \cup {NoLease},
                                                 executor : Executors \cup {NoExecutor}]
        <5>1. future[f] \in [state : FutureStates \cup {"none"}, lease : Leases \cup {NoLease},
                             executor : Executors \cup {NoExecutor}]
          BY DEF TypeOK
        <5> QED BY ONLY <5>1, how \in {"done", "broken"} DEF FutureStates
      <4> QED BY <4>1, <4>2 DEF TypeOK
    <3> QED
      BY <2>13, <3>1 DEF EndWork, TypeOK, managerVars, leaseVars, clientVars, eventVars, checkerVars
  <2>14. ASSUME NEW f \in Futures, CancelFuture(f) PROVE TypeInv'
    <3>1. future' \in [Futures -> [state : FutureStates \cup {"none"},
                                 lease : Leases \cup {NoLease},
                                 executor : Executors \cup {NoExecutor}]]
      BY <2>14 DEF CancelFuture, TypeOK, FutureStates
    <3> QED
      BY <2>14, <3>1 DEF CancelFuture, TypeOK, managerVars, leaseVars, clientVars, eventVars, checkerVars
  <2>15. ASSUME NEW f \in Futures, Callback(f) PROVE TypeInv'
    <3> DEFINE l == future[f].lease
    <3>1. CASE l \in leased /\ Retire(l, {f}, TRUE) /\ handle' = HandleAfter({l})
      BY <2>15, <3>1, LeaveType, HandleAfterType
         DEF Callback, Retire, TypeOK, managerVars, checkerVars
    <3>2. CASE l \in leased /\ Finalize(l, {f}, TRUE) /\ UNCHANGED handle
      <4> DEFINE back == IF Keeps(l) THEN {executor[l]} ELSE {}
      <4>1. Leave(l, back, {f}, TRUE) /\ back \in SUBSET {executor[l]}
        BY <3>2 DEF Finalize
      <4> HIDE DEF back
      <4> QED
        BY <2>15, <3>2, <4>1, LeaveType DEF Callback, TypeOK, managerVars, checkerVars
    <3>3. CASE /\ future' = [future EXCEPT ![f] = NoWork]
               /\ pending' = [pending EXCEPT ![l] = @ \ {f}]
               /\ UNCHANGED <<available, leased, executor, releaseRequested, expired, unwatched,
                              status, owed, handle, availQueued, scaleQueued>>
      BY <2>15, <3>3 DEF Callback, NoWork, TypeOK, managerVars, checkerVars
    <3>4. CASE /\ future' = [future EXCEPT ![f] = NoWork]
               /\ UNCHANGED <<available, leaseVars, status, owed, handle, availQueued, scaleQueued>>
      BY <2>15, <3>4 DEF Callback, NoWork, TypeOK, managerVars, leaseVars, checkerVars
    <3> QED
      BY <2>15, <3>1, <3>2, <3>3, <3>4 DEF Callback
  <2>16. ASSUME NEW e \in Executors, Break(e) PROVE TypeInv'
    BY <2>16 DEF Break, TypeOK, FutureStates, managerVars, leaseVars, clientVars, eventVars, checkerVars
  <2>17. ASSUME NEW e \in Executors, RunShutdown(e) PROVE TypeInv'
    BY <2>17, StatusAfterType, FutureAfterType
       DEF RunShutdown, TypeOK, managerVars, leaseVars, clientVars, eventVars, checkerVars
  <2>18. ASSUME NEW l \in Leases, Expire(l) PROVE TypeInv'
    BY <2>18 DEF Expire, TypeOK, managerVars, workVars, clientVars, eventVars, checkerVars
  <2>19. ASSUME NEW debt \in Executors \cup {NoExecutor}, Settle(debt) PROVE TypeInv'
    BY <2>19 DEF Settle, Defers, WakeWaiters, WakeChecker, TypeOK, managerVars, leaseVars, clientVars, checkerVars
  <2>20. ASSUME NEW t \in CheckerTasks, CheckerTimer(t) PROVE TypeInv'
    BY <2>20 DEF CheckerTimer, TypeOK, managerVars, leaseVars, workVars, clientVars, eventVars
  <2>21. ASSUME NEW t \in CheckerTasks, CheckerCancelled(t) PROVE TypeInv'
    BY <2>21 DEF CheckerCancelled, TypeOK, managerVars, leaseVars, workVars, clientVars, eventVars
  <2>22. ASSUME NEW t \in CheckerTasks, CheckerPass(t) PROVE TypeInv'
    BY <2>22, StatusAfterType, FutureAfterType, HandleAfterType, DropType
       DEF CheckerPass, WakeWaiters, Fresh, TypeOK, managerVars
  <2>23. ASSUME NEW t \in CheckerTasks, CheckerCrashes(t) PROVE TypeInv'
    BY <2>23, StatusAfterType, FutureAfterType, HandleAfterType, ForgetType
       DEF CheckerCrashes, Fresh, TypeOK, managerVars, eventVars
  <2>24. ASSUME NEW t \in CheckerTasks, CheckerUnbound(t) PROVE TypeInv'
    BY <2>24 DEF CheckerUnbound, TypeOK, managerVars, leaseVars, workVars, clientVars, eventVars
  <2>25. ASSUME SetAvailability PROVE TypeInv'
    BY <2>25 DEF SetAvailability, Resumed, TypeOK, managerVars, leaseVars, workVars, checkerVars
  <2>26. ASSUME SetScaleChange PROVE TypeInv'
    BY <2>26 DEF SetScaleChange, TypeOK, managerVars, leaseVars, workVars, clientVars
  <2>27. ASSUME ChangeUnits PROVE TypeInv'
    BY <2>27 DEF ChangeUnits, TypeOK, managerVars, leaseVars, workVars, clientVars, checkerVars
  <2>28. ASSUME UNCHANGED vars PROVE TypeInv'
    BY <2>28 DEF vars, TypeOK, managerVars, leaseVars, workVars, clientVars, eventVars, checkerVars
  <2> QED
    BY <2>1, <2>2, <2>3, <2>4, <2>5, <2>6, <2>7, <2>8, <2>9, <2>10, <2>11, <2>12, <2>13, <2>14,
       <2>15, <2>16, <2>17, <2>18, <2>19, <2>20, <2>21, <2>22, <2>23, <2>24, <2>25, <2>26, <2>27,
       <2>28
       DEF Next, Call, Resume, CheckerStep
<1> QED
  BY <1>1, <1>2, PTL DEF Spec

\* TypeOK, the type invariant the runs check.
THEOREM TypeOKHolds == Spec => []TypeOK
<1>1. TypeInv => TypeOK
  BY DEF TypeInv
<1> QED
  BY <1>1, TypeCorrect, PTL

-----------------------------------------------------------------------------
\* Capacity.

\* Sets of executors and of leases are finite and have a size.
LEMMA Sizes ==
    /\ \A S \in SUBSET Executors : IsFiniteSet(S) /\ Cardinality(S) \in Nat
    /\ \A S \in SUBSET Leases : IsFiniteSet(S) /\ Cardinality(S) \in Nat
BY FiniteAssumption, FS_Subset, FS_CardinalityType

\* A union is no larger than its parts together.
LEMMA UnionSize ==
    ASSUME NEW S \in SUBSET Executors, NEW T \in SUBSET Executors
    PROVE  Cardinality(S \cup T) <= Cardinality(S) + Cardinality(T)
<1>1. Cardinality(S \cup T) = Cardinality(S) + Cardinality(T) - Cardinality(S \cap T)
  BY Sizes, FS_Union
<1>2. S \cap T \in SUBSET Executors
  OBVIOUS
<1> QED
  BY <1>1, <1>2, Sizes

\* A part of a set of executors, or of leases, is no larger than the set.
LEMMA SubsetSize ==
    /\ \A S \in SUBSET Executors : \A T \in SUBSET S : Cardinality(T) <= Cardinality(S)
    /\ \A S \in SUBSET Leases : \A T \in SUBSET S : Cardinality(T) <= Cardinality(S)
BY Sizes, FS_Subset

\* Restoring the minimum keeps the bound: it never creates past the target.
LEMMA EnsureBound ==
    ASSUME reading \in Readings,
           NEW free \in SUBSET Executors, NEW held \in SUBSET Leases, NEW made \in SUBSET Executors,
           Cardinality(free) + Cardinality(held) <= MaxPools,
           Cardinality(made) <= Shortfall(free, held)
    PROVE  Cardinality(free \cup made) + Cardinality(held) <= MaxPools
<1>1. Cardinality(free) \in Nat /\ Cardinality(held) \in Nat /\ Cardinality(made) \in Nat
  BY Sizes
<1>2. Cardinality(free \cup made) \in Nat
  BY Sizes, free \cup made \in SUBSET Executors
<1>3. Cardinality(free \cup made) <= Cardinality(free) + Cardinality(made)
  BY UnionSize
<1>4. MaxPools \in Int /\ Desired \in Int /\ Desired <= MaxPools
  BY DesiredBounds, PoolAssumption
<1> QED
  BY <1>1, <1>2, <1>3, <1>4 DEF Shortfall

\* What Creates and CreateRaises have in common.
LEMMA MadeSize ==
    ASSUME NEW made \in SUBSET Fresh, NEW n \in Int, Creates(made, n) \/ CreateRaises(made, n)
    PROVE  made \in SUBSET Executors /\ Cardinality(made) <= n
<1>1. made \in SUBSET Executors
  BY DEF Fresh
<1> QED
  BY <1>1, Sizes DEF Creates, CreateRaises

\* What is missing to the floor is a number of executors.
LEMMA ShortfallType ==
    ASSUME reading \in Readings, NEW free \in SUBSET Executors, NEW held \in SUBSET Leases
    PROVE  Shortfall(free, held) \in Nat
BY DesiredBounds, Sizes DEF Shortfall

\* A lease that leaves makes room for what it gives back.
LEMMA LeaveBound ==
    ASSUME TypeInv, CapacityBound, NEW l \in leased, NEW back \in SUBSET {executor[l]},
           NEW called, NEW callback \in BOOLEAN, Leave(l, back, called, callback)
    PROVE  CapacityBound'
<1> DEFINE held == leased \ {l}
           free == available \cup back
<1>1. /\ available \in SUBSET Executors /\ leased \in SUBSET Leases /\ reading \in Readings
      /\ executor[l] \in Executors /\ back \in SUBSET Executors
  BY DEF TypeInv, TypeOK
<1>2. held \in SUBSET Leases /\ free \in SUBSET Executors
  BY <1>1
<1>3. Cardinality(held) = Cardinality(leased) - 1
  BY <1>1, Sizes, FS_RemoveElement
<1>4. Cardinality(back) <= 1
  <2>1. Cardinality({executor[l]}) = 1
    BY FS_Singleton
  <2>2. {executor[l]} \in SUBSET Executors
    BY <1>1
  <2>3. Cardinality(back) <= Cardinality({executor[l]})
    BY <2>2, SubsetSize
  <2> QED
    BY <2>1, <2>3
<1>5. Cardinality(free) <= Cardinality(available) + Cardinality(back)
  BY <1>1, UnionSize
<1>6. Cardinality(free) + Cardinality(held) <= MaxPools
  BY <1>1, <1>2, <1>3, <1>4, <1>5, Sizes, PoolAssumption DEF CapacityBound
<1>7. leased' = held
  BY DEF Leave, Forget, Drop
<1>8. PICK made \in SUBSET Fresh :
        /\ available' = free \cup made
        /\ Creates(made, Shortfall(free, held)) \/ CreateRaises(made, Shortfall(free, held))
  BY DEF Leave
<1> HIDE DEF held, free
<1>9. Shortfall(free, held) \in Int
  BY <1>1, <1>2, ShortfallType
<1>10. made \in SUBSET Executors /\ Cardinality(made) <= Shortfall(free, held)
  BY <1>8, <1>9, MadeSize
<1> QED
  BY <1>1, <1>2, <1>6, <1>7, <1>8, <1>10, EnsureBound DEF CapacityBound

\* Revoking the overdue leases and restoring the minimum keeps the bound.
LEMMA RevokeBound ==
    ASSUME TypeInv, CapacityBound
    PROVE  /\ leased \ expired \in SUBSET Leases
           /\ Cardinality(available) + Cardinality(leased \ expired) <= MaxPools
<1>1. available \in SUBSET Executors /\ leased \in SUBSET Leases /\ leased \ expired \in SUBSET leased
  BY DEF TypeInv, TypeOK
<1>2. Cardinality(leased \ expired) <= Cardinality(leased)
  BY <1>1, SubsetSize
<1> QED
  BY <1>1, <1>2, Sizes, PoolAssumption DEF CapacityBound

\* acquire takes one executor out of the pool and adds one lease.
LEMMA GrantBound ==
    ASSUME TypeInv, CapacityBound, NEW c \in Clients, AcquireGrant(c)
    PROVE  CapacityBound'
<1> DEFINE rest == leased \ expired
<1>1. available \in SUBSET Executors /\ leased \in SUBSET Leases /\ reading \in Readings
  BY DEF TypeInv, TypeOK
<1>2. rest \in SUBSET Leases /\ Cardinality(available) + Cardinality(rest) <= MaxPools
  BY RevokeBound
<1>3. PICK made \in SUBSET Fresh, l \in Leases \ leased, e \in Executors :
        /\ Creates(made, AcquireNeed)
        /\ e \in available \cup made
        /\ available' = (available \cup made) \ {e}
        /\ leased' = rest \cup {l}
  <2>1. PICK made \in SUBSET Fresh, l \in Leases \ leased :
          /\ Creates(made, AcquireNeed)
          /\ \E e \in available \cup made : available' = (available \cup made) \ {e}
          /\ leased' = rest \cup {l}
    BY DEF AcquireGrant
  <2>2. available \cup made \in SUBSET Executors
    BY <1>1, <2>1 DEF Fresh
  <2> QED
    BY <2>1, <2>2
<1>4. l \notin rest
  BY <1>3
<1>5. made \in SUBSET Executors /\ Cardinality(made) = AcquireNeed
  BY <1>3 DEF Fresh, Creates
<1> HIDE DEF rest
<1>6. Cardinality(leased') = Cardinality(rest) + 1
  BY <1>2, <1>3, <1>4, Sizes, FS_AddElement
<1>7. available \cup made \in SUBSET Executors
  BY <1>1, <1>5
<1>8. Cardinality(available') = Cardinality(available \cup made) - 1
  BY <1>3, <1>7, Sizes, FS_RemoveElement
<1>9. RevokeNeed \in Nat
  BY <1>1, ShortfallType DEF RevokeNeed, TypeInv, TypeOK
<1>10. CASE available = {} /\ RevokeNeed = 0 /\ Cardinality(rest) < MaxPools
  <2>1. AcquireNeed = 1
    BY <1>10 DEF AcquireNeed, rest
  <2>2. Cardinality(available \cup made) = 1
    BY <1>5, <1>10, <2>1
  <2> QED
    BY <1>2, <1>6, <1>8, <1>10, <2>2, Sizes, PoolAssumption DEF CapacityBound
<1>11. CASE ~(available = {} /\ RevokeNeed = 0 /\ Cardinality(rest) < MaxPools)
  <2>1. AcquireNeed = RevokeNeed
    BY <1>11 DEF AcquireNeed, rest
  <2>2. Cardinality(available \cup made) + Cardinality(rest) <= MaxPools
    <3>1. CASE expired = {}
      <4>1. Cardinality(made) = 0
        BY <1>5, <2>1, <3>1 DEF RevokeNeed
      <4>2. made = {}
        BY <1>5, <4>1, Sizes, FS_EmptySet
      <4>3. available \cup made = available
        BY <4>2
      <4> QED
        BY <1>2, <4>3
    <3>2. CASE expired # {}
      <4>1. Cardinality(made) <= Shortfall(available, rest)
        BY <1>1, <1>2, <1>5, <2>1, <3>2, ShortfallType DEF RevokeNeed, rest
      <4> QED
        BY <1>1, <1>2, <1>5, <4>1, EnsureBound
    <3> QED
      BY <3>1, <3>2
  <2> QED
    BY <1>2, <1>6, <1>7, <1>8, <2>2, Sizes, PoolAssumption DEF CapacityBound
<1> QED
  BY <1>10, <1>11

\* max_pools bounds the executors the manager owns.
THEOREM CapacityHolds == Spec => []CapacityBound
<1>1. Init => CapacityBound
  BY FS_EmptySet, PoolAssumption DEF Init, CapacityBound
<1>2. TypeInv /\ CapacityBound /\ [Next]_vars => CapacityBound'
  <2> SUFFICES ASSUME TypeInv, CapacityBound, [Next]_vars PROVE CapacityBound'
    OBVIOUS
  <2> USE DEF CapacityBound
  <2>0. available \in SUBSET Executors /\ leased \in SUBSET Leases /\ reading \in Readings
    BY DEF TypeInv, TypeOK
  <2>1. ASSUME UNCHANGED <<available, leased>> PROVE CapacityBound'
    BY <2>1
  <2>2. ASSUME available' = {}, leased' = {} PROVE CapacityBound'
    BY <2>2, FS_EmptySet, PoolAssumption
  <2>3. CASE Start
    <3>1. PICK made \in SUBSET Fresh :
            Creates(made, Shortfall(available, leased)) /\ available' = available \cup made
      BY <2>3 DEF Start, StartNeed
    <3>2. made \in SUBSET Executors /\ Cardinality(made) <= Shortfall(available, leased)
      BY <2>0, <3>1, MadeSize, ShortfallType
    <3>3. leased' = leased
      BY <2>3 DEF Start, leaseVars
    <3> QED
      BY <2>0, <3>1, <3>2, <3>3, EnsureBound
  <2>4. CASE StartRaises
    BY <2>2, <2>4 DEF StartRaises, Forget, Drop
  <2>5. CASE \E s \in Stoppers : StopFinish(s)
    BY <2>2, <2>5 DEF StopFinish, Forget, Drop
  <2>6. CASE \E c \in Clients : AcquireGrant(c)
    BY <2>6, GrantBound
  <2>7. ASSUME NEW made \in SUBSET Fresh, NEW idle,
               \/ Creates(made, Shortfall(available, leased \ expired))
               \/ CreateRaises(made, Shortfall(available, leased \ expired)),
               available' = (available \cup made) \ idle,
               leased' = leased \ expired
        PROVE CapacityBound'
    <3> DEFINE rest == leased \ expired
    <3>1. rest \in SUBSET Leases /\ Cardinality(available) + Cardinality(rest) <= MaxPools
      BY RevokeBound
    <3>2. made \in SUBSET Executors /\ Cardinality(made) <= Shortfall(available, rest)
      BY <2>0, <2>7, <3>1, MadeSize, ShortfallType
    <3>3. Cardinality(available \cup made) + Cardinality(rest) <= MaxPools
      BY <2>0, <3>1, <3>2, EnsureBound
    <3>4. available' \in SUBSET (available \cup made) /\ available \cup made \in SUBSET Executors
      BY <2>0, <2>7, <3>2
    <3>5. Cardinality(available') <= Cardinality(available \cup made)
      BY <3>4, SubsetSize
    <3>6. available' \in SUBSET Executors
      BY <3>4
    <3> QED
      BY <2>7, <3>1, <3>3, <3>4, <3>5, <3>6, Sizes, PoolAssumption
  <2>8. CASE \E t \in CheckerTasks : CheckerPass(t)
    BY <2>7, <2>8 DEF CheckerPass, Drop
  <2>9. CASE \E t \in CheckerTasks : CheckerCrashes(t)
    <3>1. PICK made \in SUBSET Fresh :
            /\ CreateRaises(made, Shortfall(available, leased \ expired))
            /\ available' = available \cup made
      BY <2>9 DEF CheckerCrashes
    <3>2. available' = (available \cup made) \ {} /\ leased' = leased \ expired
      BY <2>9, <3>1 DEF CheckerCrashes, Forget, Drop
    <3> QED
      BY <2>7, <3>1, <3>2
  <2>10. CASE \E c \in Clients : AcquireRaises(c)
    <3> DEFINE rest == leased \ expired
    <3>1. PICK made \in SUBSET Fresh :
            /\ CreateRaises(made, AcquireNeed)
            /\ available' = available \cup made
            /\ leased' = rest
      BY <2>10 DEF AcquireRaises, Forget, Drop
    <3>2. rest \in SUBSET Leases /\ Shortfall(available, rest) \in Nat
      BY <2>0, ShortfallType
    <3>3. CASE made = {}
      <4>1. available' = available
        BY <3>1, <3>3
      <4> QED
        BY <3>1, <4>1, RevokeBound
    <3>4. CASE made # {}
      <4>1. made \in SUBSET Executors /\ Cardinality(made) \in Nat
        BY <3>1, Sizes DEF Fresh
      <4>2. Cardinality(made) # 0
        BY <3>4, <4>1, Sizes, FS_EmptySet
      <4>3. Cardinality(made) < AcquireNeed
        BY <3>1 DEF CreateRaises
      <4>4. AcquireNeed = RevokeNeed /\ RevokeNeed = Shortfall(available, rest)
        BY <3>2, <4>1, <4>2, <4>3 DEF AcquireNeed, RevokeNeed
      <4>5. CreateRaises(made, Shortfall(available, rest))
        BY <3>1, <4>4
      <4>6. available' = (available \cup made) \ {}
        BY <3>1
      <4> QED
        BY <2>7, <3>1, <4>5, <4>6
    <3> QED
      BY <3>3, <3>4
  <2>11. CASE \E c \in Clients : Submit(c)
    <3>1. PICK c \in Clients : Submit(c)
      BY <2>11
    <3>2. CASE handle[c] \in leased /\ Leave(handle[c], {}, {}, FALSE)
      BY <3>2, LeaveBound
    <3> QED
      BY <2>1, <3>1, <3>2 DEF Submit, Retire
  <2>12. CASE \E c \in Clients : Release(c)
    <3>1. PICK c \in Clients : Release(c)
      BY <2>12
    <3>2. ASSUME handle[c] \in leased, Finalize(handle[c], {}, FALSE) PROVE CapacityBound'
      BY <3>2, LeaveBound DEF Finalize
    <3> QED
      BY <2>1, <3>1, <3>2 DEF Release, leaseVars
  <2>13. CASE \E f \in Futures : Callback(f)
    <3>1. PICK f \in Futures : Callback(f)
      BY <2>13
    <3>2. ASSUME future[f].lease \in leased, Finalize(future[f].lease, {f}, TRUE) PROVE CapacityBound'
      BY <3>2, LeaveBound DEF Finalize
    <3>3. ASSUME future[f].lease \in leased, Retire(future[f].lease, {f}, TRUE) PROVE CapacityBound'
      BY <3>3, LeaveBound DEF Retire
    <3> QED
      BY <2>1, <3>1, <3>2, <3>3 DEF Callback, leaseVars
  <2>14. CASE \/ \E s \in Stoppers : StopCall(s)
              \/ \E c \in Clients : AcquireBlocked(c) \/ AcquireRefused(c) \/ GiveUp(c)
              \/ \E f \in Futures : StartWork(f) \/ EndWork(f) \/ CancelFuture(f)
              \/ \E e \in Executors : Break(e) \/ RunShutdown(e)
              \/ \E l \in Leases : Expire(l)
              \/ \E debt \in Executors \cup {NoExecutor} : Settle(debt)
              \/ \E t \in CheckerTasks : CheckerTimer(t) \/ CheckerCancelled(t) \/ CheckerUnbound(t)
              \/ SetAvailability \/ SetScaleChange \/ ChangeUnits \/ UNCHANGED vars
    BY <2>1, <2>14
       DEF StopCall, AcquireBlocked, AcquireRefused, GiveUp, StartWork, EndWork, CancelFuture, Break,
           RunShutdown, Expire, Settle, Defers, CheckerTimer, CheckerCancelled, CheckerUnbound,
           SetAvailability, Resumed, SetScaleChange, ChangeUnits, leaseVars, vars
  <2> QED
    BY <2>3, <2>4, <2>5, <2>6, <2>8, <2>9, <2>10, <2>11, <2>12, <2>13, <2>14
       DEF Next, Call, Resume, CheckerStep
<1> QED
  BY <1>1, <1>2, TypeCorrect, PTL DEF Spec

-----------------------------------------------------------------------------
\* What the steps do to executors, leases and work.

Busy(f) == future[f].state \in {"queued", "running"}

\* What all steps that move executors do: the leases in gone leave, their executors in
\* back return to the pool, those in down are shut down, those in debts are left to a
\* callback, and fresh ones in made join the pool, which those in idle leave.
Moves(gone, back, idle, made, debts, down) ==
    /\ gone \subseteq leased /\ back \subseteq Held(gone) /\ debts \subseteq Held(gone)
    /\ made \subseteq Fresh /\ idle \subseteq available \cup made
    /\ down \cap Executors \subseteq Held(gone) \cup idle
    /\ down \cap back = {} /\ down \cap debts = {} /\ back \cap debts = {}
    /\ leased' = leased \ gone
    /\ \A l \in leased' : executor'[l] = executor[l]
    /\ available' = (available \cup back \cup made) \ idle
    /\ status' = StatusAfter(down, made)
    /\ deferred' = deferred
    /\ owed' \ {NoExecutor} = (owed \ {NoExecutor}) \cup debts

\* And to the work: that of the leases which stay is kept, no tracked work is going on
\* where an executor returns to the pool, and the callbacks of called are over. Where
\* creating executors succeeds, whatever leaves has somebody to shut it down.
Carries(gone, back, idle, made, debts, down, called) ==
    /\ Moves(gone, back, idle, made, debts, down)
    /\ \A l \in leased' : pending'[l] = pending[l]
    /\ releaseRequested' = releaseRequested \ gone
    /\ future' = FutureAfter(gone, down, called)
    /\ \A f \in called : future[f].lease \in gone
    /\ \A l \in gone : executor[l] \in back => \A f \in pending[l] : ~Busy(f)
    /\ ~CreateMayFail => Held(gone) \subseteq back \cup debts \cup down /\ idle \subseteq down

\* Work f of lease l is queued; l begins to drain; the callback of f is over and its
\* lease stays; work goes on, or nothing happens.
Enqueues(l, f) ==
    /\ l \in leased \ releaseRequested /\ f \in Futures /\ future[f] = NoWork
    /\ future' = [future EXCEPT ![f] =
                    [state |-> "queued", lease |-> l, executor |-> executor[l]]]
    /\ pending' = [pending EXCEPT ![l] = @ \cup {f}]
    /\ UNCHANGED <<available, leased, executor, releaseRequested, status, owed, deferred>>
Drains(l) ==
    /\ l \in leased /\ pending[l] # {}
    /\ releaseRequested' = releaseRequested \cup {l}
    /\ UNCHANGED <<available, leased, executor, pending, status, future, owed, deferred>>
Unhooks(f) ==
    LET l == future[f].lease
    IN  /\ f \in Futures /\ ~Busy(f)
        /\ future' = [future EXCEPT ![f] = NoWork]
        /\ pending' = IF l \in leased THEN [pending EXCEPT ![l] = @ \ {f}] ELSE pending
        /\ l \in leased /\ l \in releaseRequested => pending[l] \ {f} # {}
        /\ UNCHANGED <<available, leased, executor, releaseRequested, status, owed, deferred>>
Runs ==
    /\ \A f \in Futures :
        /\ future'[f].lease = future[f].lease /\ future'[f].executor = future[f].executor
        /\ future'[f].state = "none" <=> future[f].state = "none"
        /\ Busy(f)' => Busy(f)
    /\ \A e \in Executors : status'[e] = "down" <=> status[e] = "down"
    /\ UNCHANGED <<available, leased, executor, pending, releaseRequested, owed, deferred>>

\* A lease that leaves hands its executor to the pool, to its caller or to the callback.
LEMMA LeaveMoves ==
    ASSUME TypeInv, NEW l \in leased, NEW back \in SUBSET {executor[l]},
           NEW called \in SUBSET Futures, NEW callback \in BOOLEAN,
           Leave(l, back, called, callback), UNCHANGED deferred,
           \A f \in called : future[f].lease = l,
           back = {} \/ \A f \in pending[l] : ~Busy(f)
    PROVE  \E made, debts, down : Carries({l}, back, {}, made, debts, down, called)
<1> DEFINE debt == DebtOf(l, back)
<1>1. executor[l] \in Executors /\ owed \subseteq Executors \cup {NoExecutor}
  BY DEF TypeInv, TypeOK
<1>2. back \in SUBSET Held({l}) /\ Held({l}) = {executor[l]} /\ {l} \in SUBSET leased
  BY DEF Held
<1>3. /\ leased' = leased \ {l} /\ releaseRequested' = releaseRequested \ {l}
      /\ \A k \in leased' : executor'[k] = executor[k] /\ pending'[k] = pending[k]
  BY DEF Leave, Forget, Drop, TypeInv, TypeOK
<1>4. /\ debt \notin back
      /\ debt \in Executors => debt = executor[l]
      /\ debt \in Executors \cup {NoExecutor}
      /\ executor[l] \in back \cup {debt}
      /\ debt = NoExecutor \/ debt = executor[l]
  BY <1>1, NoneAssumption DEF DebtOf
<1>5. PICK made \in SUBSET Fresh :
        /\ available' = (available \cup back \cup made) \ {}
        /\ \/ /\ owed' = owed \cup {debt}
              /\ status' = StatusAfter({}, made) /\ future' = FutureAfter({l}, {}, called)
           \/ /\ status' = StatusAfter({debt}, made) /\ future' = FutureAfter({l}, {debt}, called)
              /\ owed' = owed
           \/ /\ status' = StatusAfter({}, made) /\ future' = FutureAfter({l}, {}, called)
              /\ owed' = owed /\ CreateMayFail
  BY DEF Leave, CreateRaises
<1> HIDE DEF debt
<1>6. /\ \A f \in called : future[f].lease \in {l}
      /\ \A k \in {l} : executor[k] \in back => \A f \in pending[k] : ~Busy(f)
  OBVIOUS
<1>7. CASE /\ owed' = owed \cup {debt}
           /\ status' = StatusAfter({}, made) /\ future' = FutureAfter({l}, {}, called)
  <2> DEFINE debts == {debt} \ {NoExecutor}
  <2>1. debts \in SUBSET Held({l}) /\ back \cap debts = {} /\ Held({l}) \subseteq back \cup debts \cup {}
    BY <1>1, <1>2, <1>4, NoneAssumption
  <2>2. owed' \ {NoExecutor} = (owed \ {NoExecutor}) \cup debts
    BY <1>7
  <2> HIDE DEF debts
  <2>3. Moves({l}, back, {}, made, debts, {})
    BY <1>2, <1>3, <1>5, <1>7, <2>1, <2>2 DEF Moves
  <2>4. Carries({l}, back, {}, made, debts, {}, called)
    BY <1>3, <1>6, <1>7, <2>1, <2>3 DEF Carries
  <2> QED
    BY <2>4
<1>8. CASE /\ status' = StatusAfter({debt}, made) /\ future' = FutureAfter({l}, {debt}, called)
           /\ owed' = owed
  <2>1. /\ {debt} \cap Executors \subseteq Held({l}) \cup {} /\ {debt} \cap (back \cup {}) = {}
        /\ Held({l}) \subseteq back \cup {} \cup {debt}
    BY <1>1, <1>2, <1>4
  <2>2. owed' \ {NoExecutor} = (owed \ {NoExecutor}) \cup {}
    BY <1>8
  <2>3. Moves({l}, back, {}, made, {}, {debt})
    BY <1>2, <1>3, <1>5, <1>8, <2>1, <2>2 DEF Moves
  <2>4. Carries({l}, back, {}, made, {}, {debt}, called)
    BY <1>3, <1>6, <1>8, <2>1, <2>3 DEF Carries
  <2> QED
    BY <2>4
<1>9. CASE /\ status' = StatusAfter({}, made) /\ future' = FutureAfter({l}, {}, called)
           /\ owed' = owed /\ CreateMayFail
  <2>1. owed' \ {NoExecutor} = (owed \ {NoExecutor}) \cup {}
    BY <1>9
  <2>2. Moves({l}, back, {}, made, {}, {})
    BY <1>2, <1>3, <1>5, <1>9, <2>1 DEF Moves
  <2>3. Carries({l}, back, {}, made, {}, {}, called)
    BY <1>3, <1>6, <1>9, <2>2 DEF Carries
  <2> QED
    BY <2>3
<1> QED
  BY <1>5, <1>7, <1>8, <1>9

\* Every step moves executors, grants one, or does one of the few other things that
\* concern executors, leases or work.
LEMMA StepCases ==
    ASSUME TypeInv, [Next]_vars
    PROVE  \/ \E gone, back, idle, made, debts, down, called :
                  Carries(gone, back, idle, made, debts, down, called)
           \/ \E c \in Clients : AcquireGrant(c)
           \/ \E l \in leased : \E f \in Futures : Enqueues(l, f)
           \/ \E l \in leased : Drains(l)
           \/ \E f \in Futures : Unhooks(f)
           \/ \E e \in Executors : RunShutdown(e)
           \/ \E debt \in Executors \cup {NoExecutor} : Settle(debt)
           \/ Runs
<1> DEFINE Carried == \E gone, back, idle, made, debts, down, called :
                          Carries(gone, back, idle, made, debts, down, called)
<1>0. /\ leased \subseteq Leases /\ expired \subseteq leased /\ releaseRequested \subseteq leased
      /\ future \in [Futures -> [state : FutureStates \cup {"none"},
                                 lease : Leases \cup {NoLease},
                                 executor : Executors \cup {NoExecutor}]]
      /\ \A l \in leased : executor[l] \in Executors
      /\ available \subseteq Executors
  BY DEF TypeInv, TypeOK
<1>1. CASE Start
  <2>1. PICK made \in SUBSET Fresh :
          available' = available \cup made /\ status' = StatusAfter({}, made)
    BY <1>1 DEF Start, StartNeed
  <2>2. Moves({}, {}, {}, made, {}, {})
    BY <1>1, <2>1 DEF Start, leaseVars, Moves
  <2>3. future' = FutureAfter({}, {}, {})
    BY <1>0, <1>1 DEF Start, FutureAfter
  <2>4. Carries({}, {}, {}, made, {}, {}, {})
    BY <1>1, <2>2, <2>3 DEF Start, leaseVars, Carries, Held
  <2> QED
    BY <2>4
<1>2. CASE StartRaises \/ \E s \in Stoppers : StopFinish(s)
  <2>1. /\ available' = {} /\ Forget(leased) /\ UNCHANGED <<owed, deferred>>
        /\ status' = StatusAfter(available \cup Held(leased), {})
        /\ future' = FutureAfter(leased, available \cup Held(leased), {})
    BY <1>2 DEF StartRaises, StopFinish
  <2>2. leased' = {} /\ releaseRequested' = releaseRequested \ leased
    BY <2>1 DEF Forget, Drop
  <2>3. Moves(leased, {}, available, {}, {}, available \cup Held(leased))
    BY <1>0, <2>1, <2>2 DEF Moves
  <2>4. Carries(leased, {}, available, {}, {}, available \cup Held(leased), {})
    BY <2>1, <2>2, <2>3 DEF Carries
  <2> QED
    BY <2>4
<1>3. CASE \/ \E c \in Clients : AcquireRaises(c)
           \/ \E t \in CheckerTasks : CheckerCrashes(t) \/ CheckerPass(t)
  <2>1. PICK made \in SUBSET Fresh : \E idle \in SUBSET (available \cup made) :
          /\ available' = (available \cup made) \ idle
          /\ status' = StatusAfter(Held(expired) \cup idle, made)
          /\ future' = FutureAfter(expired, Held(expired) \cup idle, {})
    <3>1. CASE \E t \in CheckerTasks : CheckerPass(t)
      BY <3>1 DEF CheckerPass
    <3>2. CASE \/ \E c \in Clients : AcquireRaises(c)
               \/ \E t \in CheckerTasks : CheckerCrashes(t)
      <4>1. /\ \E made \in SUBSET Fresh :
                 available' = available \cup made /\ status' = StatusAfter(Held(expired), made)
            /\ future' = FutureAfter(expired, Held(expired), {})
        BY <3>2 DEF AcquireRaises, CheckerCrashes
      <4>2. \A made : (available \cup made) \ {} = available \cup made
        OBVIOUS
      <4>3. Held(expired) \cup {} = Held(expired)
        OBVIOUS
      <4> QED
        BY <4>1, <4>2, <4>3
    <3> QED
      BY <1>3, <3>1, <3>2
  <2>2. PICK idle \in SUBSET (available \cup made) :
          /\ available' = (available \cup made) \ idle
          /\ status' = StatusAfter(Held(expired) \cup idle, made)
          /\ future' = FutureAfter(expired, Held(expired) \cup idle, {})
    BY <2>1
  <2>3. Drop(expired) /\ UNCHANGED <<owed, deferred>>
    BY <1>3 DEF AcquireRaises, CheckerCrashes, CheckerPass, Forget
  <2>4. /\ leased' = leased \ expired /\ releaseRequested' = releaseRequested \ expired
        /\ \A l \in leased' : executor'[l] = executor[l] /\ pending'[l] = pending[l]
    BY <1>0, <2>3 DEF Drop
  <2>5. Moves(expired, {}, idle, made, {}, Held(expired) \cup idle)
    BY <1>0, <2>2, <2>3, <2>4 DEF Moves
  <2>6. Carries(expired, {}, idle, made, {}, Held(expired) \cup idle, {})
    BY <2>2, <2>4, <2>5 DEF Carries
  <2> QED
    BY <2>6
<1>4. CASE \E c \in Clients : AcquireGrant(c)
  BY <1>4
<1>5. ASSUME NEW c \in Clients, Submit(c)
      PROVE  Carried \/ \E l \in leased : \E f \in Futures : Enqueues(l, f)
  <2> DEFINE l == handle[c]
  <2>1. l \in leased /\ l \notin releaseRequested /\ UNCHANGED deferred
    BY <1>5 DEF Submit
  <2>2. CASE Retire(l, {}, FALSE)
    <3>1. \E made, debts, down : Carries({l}, {}, {}, made, debts, down, {})
      BY <2>1, <2>2, LeaveMoves DEF Retire
    <3> QED
      BY <3>1
  <2>3. CASE ~Retire(l, {}, FALSE)
    <3>1. PICK f \in Futures :
            /\ future[f] = NoWork
            /\ future' = [future EXCEPT ![f] =
                            [state |-> "queued", lease |-> l, executor |-> executor[l]]]
            /\ pending' = [pending EXCEPT ![l] = @ \cup {f}]
            /\ UNCHANGED <<available, leased, executor, releaseRequested, status, owed>>
      BY <1>5, <2>3 DEF Submit
    <3>2. Enqueues(l, f)
      BY <2>1, <3>1 DEF Enqueues
    <3> QED
      BY <2>1, <3>2
  <2> QED
    BY <2>2, <2>3
<1>6. ASSUME NEW c \in Clients, Release(c)
      PROVE  Carried \/ Runs \/ \E l \in leased : Drains(l)
  <2> DEFINE l == handle[c]
  <2>1. UNCHANGED deferred
    BY <1>6 DEF Release
  <2>2. CASE l \in leased /\ ~Draining(l)
    <3>1. PICK back \in SUBSET {executor[l]} : Leave(l, back, {}, FALSE)
      BY <1>6, <2>2 DEF Release, Finalize
    <3>2. \A f \in pending[l] : ~Busy(f)
      BY <2>2 DEF Draining
    <3>3. \E made, debts, down : Carries({l}, back, {}, made, debts, down, {})
      BY <2>1, <2>2, <3>1, <3>2, LeaveMoves
    <3> QED
      BY <3>3
  <2>3. CASE l \in leased /\ Draining(l)
    <3>1. Drains(l)
      BY <1>6, <2>3 DEF Release, Draining, Drains
    <3> QED
      BY <2>3, <3>1
  <2>4. CASE l \notin leased
    BY <1>6, <2>4 DEF Release, Runs, Busy, leaseVars
  <2> QED
    BY <2>2, <2>3, <2>4
<1>7. ASSUME NEW f \in Futures, Callback(f) PROVE Carried \/ Unhooks(f)
  <2> DEFINE l == future[f].lease
  <2>1. UNCHANGED deferred /\ ~Busy(f)
    BY <1>7 DEF Callback, Busy
  <2>2. CASE l \in leased /\ Retire(l, {f}, TRUE)
    <3>1. \E made, debts, down : Carries({l}, {}, {}, made, debts, down, {f})
      BY <2>1, <2>2, LeaveMoves DEF Retire
    <3> QED
      BY <3>1
  <2>3. CASE l \in leased /\ LastOf(f, l) /\ Finalize(l, {f}, TRUE)
    <3>1. PICK back \in SUBSET {executor[l]} : Leave(l, back, {f}, TRUE)
      BY <2>3 DEF Finalize
    <3>2. \A g \in pending[l] : ~Busy(g)
      BY <2>1, <2>3 DEF LastOf
    <3>3. \E made, debts, down : Carries({l}, back, {}, made, debts, down, {f})
      BY <2>1, <2>3, <3>1, <3>2, LeaveMoves
    <3> QED
      BY <3>3
  <2>4. CASE /\ l \in leased /\ ~LastOf(f, l)
             /\ pending' = [pending EXCEPT ![l] = @ \ {f}]
             /\ future' = [future EXCEPT ![f] = NoWork]
             /\ UNCHANGED <<available, leased, executor, releaseRequested, status, owed>>
    BY <2>1, <2>4 DEF Unhooks, LastOf
  <2>5. CASE /\ l \notin leased
             /\ future' = [future EXCEPT ![f] = NoWork]
             /\ UNCHANGED <<available, leaseVars, status, owed>>
    BY <2>1, <2>5 DEF Unhooks, leaseVars
  <2> QED
    BY <1>7, <2>2, <2>3, <2>4, <2>5 DEF Callback
<1>8. CASE \/ \E e \in Executors : RunShutdown(e)
           \/ \E debt \in Executors \cup {NoExecutor} : Settle(debt)
  BY <1>8
<1>9. ASSUME NEW f \in Futures, StartWork(f) \/ EndWork(f) \/ CancelFuture(f) PROVE Runs
  <2>1. PICK there \in {"running", "done", "broken"} :
          future' = [future EXCEPT ![f].state = there]
    BY <1>9 DEF StartWork, EndWork, CancelFuture
  <2>2. Busy(f) /\ UNCHANGED <<available, leased, executor, pending, releaseRequested, status, owed,
                               deferred>>
    BY <1>9 DEF StartWork, EndWork, CancelFuture, Busy, leaseVars
  <2>3. \A g \in Futures :
          /\ future'[g].lease = future[g].lease /\ future'[g].executor = future[g].executor
          /\ g # f => future'[g] = future[g]
          /\ future'[f].state = there
    BY <1>0, <2>1
  <2> QED
    BY <2>2, <2>3 DEF Runs, Busy
<1>10. ASSUME NEW e \in Executors, Break(e) PROVE Runs
  <2>1. UNCHANGED <<available, leased, executor, pending, releaseRequested, owed, deferred>>
    BY <1>10 DEF Break, leaseVars
  <2>2. \A x \in Executors : status'[x] = "down" <=> status[x] = "down"
    BY <1>10 DEF Break, TypeInv, TypeOK
  <2>3. PICK hit \in SUBSET {f \in Futures : Busy(f)} :
          future' = [f \in Futures |-> IF f \in hit THEN [future[f] EXCEPT !.state = "broken"]
                                                    ELSE future[f]]
    <3>1. PICK lost \in SUBSET {f \in Futures : future[f].state = "running" /\ future[f].executor = e} :
            future' = [f \in Futures |->
                         IF f \in lost \/ (future[f].state = "queued" /\ future[f].executor = e)
                         THEN [future[f] EXCEPT !.state = "broken"] ELSE future[f]]
      BY <1>10 DEF Break
    <3> DEFINE hit == {f \in Futures :
                         f \in lost \/ (future[f].state = "queued" /\ future[f].executor = e)}
    <3>2. hit \in SUBSET {f \in Futures : Busy(f)}
      BY DEF Busy
    <3>3. future' = [f \in Futures |-> IF f \in hit THEN [future[f] EXCEPT !.state = "broken"]
                                                    ELSE future[f]]
      BY <3>1
    <3> QED
      BY <3>2, <3>3
  <2>4. \A f \in Futures :
          /\ future'[f].lease = future[f].lease /\ future'[f].executor = future[f].executor
          /\ f \notin hit => future'[f] = future[f]
          /\ f \in hit => future'[f].state = "broken" /\ Busy(f)
    BY <1>0, <2>3
  <2> QED
    BY <2>1, <2>2, <2>4 DEF Runs, Busy
<1>11. CASE \/ \E s \in Stoppers : StopCall(s)
            \/ \E c \in Clients : AcquireBlocked(c) \/ AcquireRefused(c) \/ GiveUp(c)
            \/ \E l \in Leases : Expire(l)
            \/ \E t \in CheckerTasks : CheckerTimer(t) \/ CheckerCancelled(t) \/ CheckerUnbound(t)
            \/ SetAvailability \/ SetScaleChange \/ ChangeUnits \/ UNCHANGED vars
  <2>1. UNCHANGED <<available, leased, executor, pending, releaseRequested, status, future, owed,
                    deferred>>
    BY <1>11
       DEF StopCall, AcquireBlocked, AcquireRefused, GiveUp, Expire, CheckerTimer,
           CheckerCancelled, CheckerUnbound, SetAvailability, Resumed, SetScaleChange, ChangeUnits,
           leaseVars, workVars, vars
  <2> QED
    BY <2>1 DEF Runs, Busy
<1> QED
  BY <1>1, <1>2, <1>3, <1>4, <1>5, <1>6, <1>7, <1>8, <1>9, <1>10, <1>11
     DEF Next, Call, Resume, CheckerStep

-----------------------------------------------------------------------------
\* Ownership.

\* OwnedOnce is inductive with this: what still has to be shut down has not been shut
\* down yet, and only one callback or queued call is to do it.
OwnInv ==
    /\ OwnedOnce
    /\ \A e \in Doomed : status[e] # "down"
    /\ (owed \ {NoExecutor}) \cap deferred = {}

\* A step that carries the leases and takes executors in only from fresh or freed ones
\* keeps every executor owned once.
LEMMA OwnMove ==
    ASSUME TypeInv, OwnInv, NEW gone, NEW back, NEW idle, NEW made, NEW debts, NEW down,
           Moves(gone, back, idle, made, debts, down)
    PROVE  OwnInv'
<1> USE DEF Moves
<1>1. /\ available \subseteq Executors /\ deferred \subseteq Executors
      /\ owed \subseteq Executors \cup {NoExecutor}
      /\ \A l \in leased : executor[l] \in Executors
      /\ status \in [Executors -> {"down", "up", "broken"}]
  BY DEF TypeInv, TypeOK
<1>2. \A e \in made : e \in Executors /\ status[e] = "down"
  BY DEF Fresh
<1>3. \A e \in Executors : status'[e] = IF e \in down THEN "down"
                                        ELSE IF e \in made THEN "up" ELSE status[e]
  BY DEF StatusAfter
<1>4. \A e \in Held(gone) :
        /\ e \in Executors /\ e \notin available \cup Doomed /\ status[e] # "down"
        /\ \A l \in leased' : executor[l] # e
  BY <1>1 DEF OwnInv, OwnedOnce, Owned, Held
<1>5. Doomed' = Doomed \cup debts
  BY DEF Doomed
<1>6. \A e \in made : /\ e \notin Doomed /\ e \notin available /\ e \notin Held(gone)
                     /\ \A l \in leased : executor[l] # e
  BY <1>2 DEF OwnInv, OwnedOnce, Owned, Held
<1>7. \A l \in leased' : executor'[l] \in Executors \ (available' \cup Doomed')
  BY <1>1, <1>4, <1>5, <1>6 DEF OwnInv, OwnedOnce
<1>8. \A k, l \in leased' : executor'[k] = executor'[l] => k = l
  BY DEF OwnInv, OwnedOnce
<1>9. available' \cap Doomed' = {}
  BY <1>4, <1>5, <1>6 DEF OwnInv, OwnedOnce
<1>10. \A e \in available' : status'[e] # "down"
  BY <1>1, <1>2, <1>3, <1>4 DEF OwnInv, OwnedOnce, Owned
<1>11. \A l \in leased' : status'[executor'[l]] # "down"
  <2> SUFFICES ASSUME NEW l \in leased' PROVE status'[executor'[l]] # "down"
    OBVIOUS
  <2>1. executor'[l] = executor[l] /\ executor[l] \in Executors /\ status[executor[l]] # "down"
    BY <1>1 DEF OwnInv, OwnedOnce, Owned, Held
  <2>2. executor[l] \notin down
    BY <1>4, <1>6, <2>1 DEF OwnInv, OwnedOnce
  <2> QED
    BY <1>3, <2>1, <2>2
<1>12. \A e \in Owned' : status'[e] # "down"
  BY <1>10, <1>11 DEF Owned, Held
<1>13. \A e \in Doomed' : status'[e] # "down"
  <2> SUFFICES ASSUME NEW e \in Doomed' PROVE status'[e] # "down"
    OBVIOUS
  <2>1. e \in Executors /\ status[e] # "down"
    BY <1>1, <1>4, <1>5 DEF OwnInv, Doomed
  <2>2. e \notin down
    BY <1>4, <1>5, <1>6, <2>1 DEF OwnInv, OwnedOnce
  <2> QED
    BY <1>3, <2>1, <2>2
<1>14. (owed' \ {NoExecutor}) \cap deferred' = {}
  BY <1>4 DEF OwnInv, Doomed
<1> QED
  BY <1>7, <1>8, <1>9, <1>12, <1>13, <1>14 DEF OwnInv, OwnedOnce

\* A step that moves no executor and shuts none down.
LEMMA OwnKept ==
    ASSUME OwnInv, UNCHANGED <<available, leased, executor, owed, deferred>>,
           \A e \in Executors : status[e] # "down" => status'[e] # "down",
           TypeInv
    PROVE  OwnInv'
<1>1. Owned \subseteq Executors /\ Doomed \subseteq Executors
  BY DEF TypeInv, TypeOK, Owned, Held, Doomed
<1>2. Owned' = Owned /\ Doomed' = Doomed
  BY DEF Owned, Held, Doomed
<1> QED
  BY <1>1, <1>2 DEF OwnInv, OwnedOnce

\* acquire revokes what is overdue and gives one pooled or fresh executor to a lease.
LEMMA GrantOwn ==
    ASSUME TypeInv, OwnInv, NEW c \in Clients, AcquireGrant(c)
    PROVE  OwnInv'
<1>1. PICK made \in SUBSET Fresh, l \in Leases \ leased :
        /\ \E e \in available \cup made :
            /\ available' = (available \cup made) \ {e}
            /\ executor' = [k \in Leases |-> IF k = l THEN e
                                             ELSE IF k \in expired THEN NoExecutor ELSE executor[k]]
        /\ status' = StatusAfter(Held(expired), made)
        /\ leased' = (leased \ expired) \cup {l}
  BY DEF AcquireGrant
<1>2. PICK e \in available \cup made :
        /\ available' = (available \cup made) \ {e}
        /\ executor' = [k \in Leases |-> IF k = l THEN e
                                         ELSE IF k \in expired THEN NoExecutor ELSE executor[k]]
  BY <1>1
<1>3. /\ available \subseteq Executors /\ leased \subseteq Leases /\ expired \subseteq leased
      /\ \A k \in leased : executor[k] \in Executors
      /\ status \in [Executors -> {"down", "up", "broken"}]
      /\ Doomed \subseteq Executors
  BY DEF TypeInv, TypeOK, Doomed
<1>4. \A x \in made : /\ x \in Executors /\ status[x] = "down"
                      /\ x \notin Doomed /\ x \notin available
                      /\ \A k \in leased : executor[k] # x
  BY DEF Fresh, OwnInv, OwnedOnce, Owned, Held
<1>5. \A x \in Executors : status'[x] = IF x \in Held(expired) THEN "down"
                                        ELSE IF x \in made THEN "up" ELSE status[x]
  BY <1>1 DEF StatusAfter
<1>6. Doomed' = Doomed
  BY DEF AcquireGrant, Doomed
<1>7. executor'[l] = e /\ \A k \in leased \ expired : executor'[k] = executor[k]
  BY <1>1, <1>2, <1>3
<1>8. e \in Executors /\ e \notin Doomed /\ \A k \in leased : executor[k] # e
  BY <1>2, <1>3, <1>4 DEF OwnInv, OwnedOnce
<1>9. \A k \in leased' : executor'[k] \in Executors \ (available' \cup Doomed')
  BY <1>1, <1>2, <1>3, <1>4, <1>6, <1>7, <1>8 DEF OwnInv, OwnedOnce
<1>10. \A j, k \in leased' : executor'[j] = executor'[k] => j = k
  BY <1>1, <1>7, <1>8 DEF OwnInv, OwnedOnce
<1>11. available' \cap Doomed' = {}
  BY <1>2, <1>4, <1>6 DEF OwnInv, OwnedOnce
<1>12. \A x \in available \cup made : status'[x] # "down"
  <2> SUFFICES ASSUME NEW x \in available \cup made PROVE status'[x] # "down"
    OBVIOUS
  <2>1. x \in Executors /\ x \notin Held(expired)
    BY <1>3, <1>4 DEF Held, OwnInv, OwnedOnce
  <2> QED
    BY <1>4, <1>5, <2>1 DEF OwnInv, OwnedOnce, Owned
<1>13. \A k \in leased \ expired : status'[executor[k]] # "down"
  <2> SUFFICES ASSUME NEW k \in leased \ expired PROVE status'[executor[k]] # "down"
    OBVIOUS
  <2>1. executor[k] \in Executors /\ status[executor[k]] # "down"
    BY <1>3 DEF OwnInv, OwnedOnce, Owned, Held
  <2>2. executor[k] \notin Held(expired)
    BY <1>3 DEF Held, OwnInv, OwnedOnce
  <2> QED
    BY <1>5, <2>1, <2>2
<1>14. \A x \in Owned' : status'[x] # "down"
  <2>1. \A x \in available' : status'[x] # "down"
    BY <1>2, <1>12
  <2>2. \A k \in leased' : status'[executor'[k]] # "down"
    BY <1>1, <1>2, <1>7, <1>12, <1>13
  <2> QED
    BY <2>1, <2>2 DEF Owned, Held
<1>15. \A x \in Doomed' : status'[x] # "down"
  <2> SUFFICES ASSUME NEW x \in Doomed PROVE status'[x] # "down"
    BY <1>6
  <2>1. x \in Executors /\ x \notin Held(expired) /\ status[x] # "down"
    BY <1>3 DEF Held, OwnInv, OwnedOnce
  <2> QED
    BY <1>5, <2>1
<1>16. ((owed \ {NoExecutor}) \cap deferred = {})'
  BY DEF AcquireGrant, OwnInv
<1> QED
  BY <1>9, <1>10, <1>11, <1>14, <1>15, <1>16 DEF OwnInv, OwnedOnce

\* Every executor has one owner, and one that is to be shut down has one who does it.
LEMMA OwnCorrect == Spec => []OwnInv
<1>1. Init => OwnInv
  BY DEF Init, OwnInv, OwnedOnce, Owned, Held, Doomed
<1>2. TypeInv /\ OwnInv /\ [Next]_vars => OwnInv'
  <2> SUFFICES ASSUME TypeInv, OwnInv, [Next]_vars PROVE OwnInv'
    OBVIOUS
  <2>1. ASSUME NEW gone, NEW back, NEW idle, NEW made, NEW debts, NEW down, NEW called,
               Carries(gone, back, idle, made, debts, down, called)
        PROVE  OwnInv'
    BY <2>1, OwnMove DEF Carries
  <2>2. CASE \E c \in Clients : AcquireGrant(c)
    BY <2>2, GrantOwn
  <2>3. CASE \/ \E l \in leased : \E f \in Futures : Enqueues(l, f)
             \/ \E l \in leased : Drains(l)
             \/ \E f \in Futures : Unhooks(f)
             \/ Runs
    BY <2>3, OwnKept DEF Enqueues, Drains, Unhooks, Runs
  <2>4. CASE \E e \in Executors : RunShutdown(e)
    <3>1. PICK e \in Executors : RunShutdown(e)
      BY <2>4
    <3>2. e \in Doomed /\ Doomed' = Doomed \ {e}
      BY <3>1 DEF RunShutdown, Doomed, OwnInv
    <3>3. UNCHANGED <<available, leased, executor, owed>>
      BY <3>1 DEF RunShutdown, leaseVars
    <3>4. Owned' = Owned /\ e \notin Owned
      BY <3>2, <3>3 DEF Owned, Held, OwnInv, OwnedOnce
    <3>5. Owned \subseteq Executors /\ Doomed \subseteq Executors
      BY DEF TypeInv, TypeOK, Owned, Held, Doomed
    <3>6. \A x \in Executors \ {e} : status'[x] = status[x]
      BY <3>1 DEF RunShutdown, StatusAfter
    <3> QED
      BY <3>1, <3>2, <3>3, <3>4, <3>5, <3>6 DEF OwnInv, OwnedOnce, RunShutdown
  <2>5. CASE \E debt \in Executors \cup {NoExecutor} : Settle(debt)
    <3>1. PICK debt \in Executors \cup {NoExecutor} : Settle(debt)
      BY <2>5
    <3>2. UNCHANGED <<available, leased, executor, status>>
      BY <3>1 DEF Settle, Defers, leaseVars
    <3>3. Owned' = Owned
      BY <3>2 DEF Owned, Held
    <3>4. Doomed' = Doomed
      BY <3>1, NoneAssumption DEF Settle, Defers, Doomed, TypeInv, TypeOK
    <3>5. (owed' \ {NoExecutor}) \cap deferred' = {}
      BY <3>1 DEF Settle, Defers, OwnInv
    <3> QED
      BY <3>2, <3>3, <3>4, <3>5 DEF OwnInv, OwnedOnce
  <2> QED
    BY <2>1, <2>2, <2>3, <2>4, <2>5, StepCases
<1> QED
  BY <1>1, <1>2, TypeCorrect, PTL DEF Spec

\* Every executor has one owner, and one that can still be used has not been shut down.
THEOREM OwnershipHolds == Spec => []OwnedOnce
<1>1. OwnInv => OwnedOnce
  BY DEF OwnInv
<1> QED
  BY <1>1, OwnCorrect, PTL

-----------------------------------------------------------------------------
\* Work stays with its lease.

\* The executors that return to the pool have no work on them, of anybody.
LEMMA BackIsFree ==
    ASSUME TypeInv, WorkIsOwners, NEW gone, NEW back, NEW idle, NEW made, NEW debts, NEW down,
           NEW called, Carries(gone, back, idle, made, debts, down, called),
           NEW f \in Futures, Busy(f)
    PROVE  future[f].executor \notin back
<1> SUFFICES ASSUME future[f].executor \in back PROVE FALSE
  OBVIOUS
<1>1. PICK l \in gone : executor[l] = future[f].executor
  BY DEF Carries, Moves, Held
<1>2. f \in pending[l]
  BY <1>1 DEF Carries, Moves, WorkIsOwners, Busy
<1> QED
  BY <1>1, <1>2 DEF Carries

\* A step that carries the leases keeps the work on their executors theirs.
LEMMA WorkMove ==
    ASSUME TypeInv, WorkIsOwners, NEW gone, NEW back, NEW idle, NEW made, NEW debts, NEW down,
           NEW called, Carries(gone, back, idle, made, debts, down, called)
    PROVE  WorkIsOwners'
<1> SUFFICES ASSUME NEW f \in Futures, future'[f].state \in {"queued", "running"}
             PROVE  /\ future'[f].executor \notin available'
                    /\ \A l \in leased' : executor'[l] = future'[f].executor =>
                            future'[f].lease = l /\ f \in pending'[l]
  BY DEF WorkIsOwners
<1>1. future \in [Futures -> [state : FutureStates \cup {"none"},
                              lease : Leases \cup {NoLease},
                              executor : Executors \cup {NoExecutor}]]
  BY DEF TypeInv, TypeOK
<1>2. /\ Busy(f) /\ future'[f].executor = future[f].executor
      /\ future[f].lease \notin gone => future'[f] = future[f]
  BY <1>1 DEF Carries, FutureAfter, NoWork, Busy
<1>3. future[f].executor \notin available /\ future[f].executor \notin back
  BY <1>2, BackIsFree DEF WorkIsOwners, Busy
<1>4. \A e \in Fresh : future[f].executor # e
  BY DEF Fresh
<1>5. future'[f].executor \notin available'
  BY <1>2, <1>3, <1>4 DEF Carries, Moves
<1>6. ASSUME NEW l \in leased', executor'[l] = future'[f].executor
      PROVE  future'[f].lease = l /\ f \in pending'[l]
  <2>1. l \in leased /\ l \notin gone /\ executor[l] = future[f].executor /\ pending'[l] = pending[l]
    BY <1>2, <1>6 DEF Carries, Moves
  <2>2. future[f].lease = l /\ f \in pending[l]
    BY <1>2, <2>1 DEF WorkIsOwners, Busy
  <2> QED
    BY <1>2, <2>1, <2>2
<1> QED
  BY <1>5, <1>6

\* A step that moves no executor and begins no work.
LEMMA WorkKept ==
    ASSUME WorkIsOwners, UNCHANGED <<available, leased, executor>>,
           \A f \in Futures : future'[f].state \in {"queued", "running"} =>
             /\ Busy(f) /\ future'[f].executor = future[f].executor
             /\ future'[f].lease = future[f].lease,
           \A l \in leased : \A f \in pending[l] : Busy(f)' => f \in pending'[l]
    PROVE  WorkIsOwners'
BY DEF WorkIsOwners, Busy

\* acquire grants an executor nothing runs on.
LEMMA GrantWork ==
    ASSUME TypeInv, WorkIsOwners, NEW c \in Clients, AcquireGrant(c)
    PROVE  WorkIsOwners'
<1>1. PICK made \in SUBSET Fresh, l \in Leases \ leased :
        /\ \E e \in available \cup made :
            /\ available' = (available \cup made) \ {e}
            /\ executor' = [k \in Leases |-> IF k = l THEN e
                                             ELSE IF k \in expired THEN NoExecutor ELSE executor[k]]
        /\ leased' = (leased \ expired) \cup {l}
        /\ pending' = [k \in Leases |-> IF k \in expired \cup {l} THEN {} ELSE pending[k]]
  BY DEF AcquireGrant
<1>2. PICK e \in available \cup made :
        /\ available' = (available \cup made) \ {e}
        /\ executor' = [k \in Leases |-> IF k = l THEN e
                                         ELSE IF k \in expired THEN NoExecutor ELSE executor[k]]
  BY <1>1
<1>3. leased \subseteq Leases /\ future \in [Futures -> [state : FutureStates \cup {"none"},
                                                         lease : Leases \cup {NoLease},
                                                         executor : Executors \cup {NoExecutor}]]
  BY DEF TypeInv, TypeOK
<1> SUFFICES ASSUME NEW f \in Futures, future'[f].state \in {"queued", "running"}
             PROVE  /\ future'[f].executor \notin available'
                    /\ \A k \in leased' : executor'[k] = future'[f].executor =>
                            future'[f].lease = k /\ f \in pending'[k]
  BY DEF WorkIsOwners
<1>4. future' = FutureAfter(expired, Held(expired), {})
  BY DEF AcquireGrant
<1>5. /\ Busy(f) /\ future'[f].executor = future[f].executor
      /\ future[f].lease \notin expired => future'[f] = future[f]
  BY <1>3, <1>4 DEF FutureAfter, NoWork, Busy
<1>6. future[f].executor \notin available \cup made
  BY <1>5 DEF Fresh, WorkIsOwners, Busy
<1>7. future'[f].executor \notin available'
  BY <1>2, <1>5, <1>6
<1>8. ASSUME NEW k \in leased', executor'[k] = future'[f].executor
      PROVE  future'[f].lease = k /\ f \in pending'[k]
  <2>1. executor'[l] = e
    BY <1>2
  <2>2. k # l
    BY <1>5, <1>6, <1>8, <2>1
  <2>3. k \in leased \ expired /\ executor[k] = future[f].executor /\ pending'[k] = pending[k]
    BY <1>1, <1>2, <1>3, <1>5, <1>8, <2>2
  <2>4. future[f].lease = k /\ f \in pending[k]
    BY <1>5, <2>3 DEF WorkIsOwners, Busy
  <2> QED
    BY <1>5, <2>3, <2>4
<1> QED
  BY <1>7, <1>8

\* Submitted work is on the executor of its lease, which is nobody else's.
LEMMA SubmitWork ==
    ASSUME TypeInv, OwnInv, WorkIsOwners, NEW l \in leased, NEW f \in Futures,
           future' = [future EXCEPT ![f] = [state |-> "queued", lease |-> l, executor |-> executor[l]]],
           pending' = [pending EXCEPT ![l] = @ \cup {f}],
           UNCHANGED <<available, leased, executor>>
    PROVE  WorkIsOwners'
<1>1. /\ executor[l] \notin available
      /\ \A k \in leased : executor[k] = executor[l] => k = l
  BY DEF OwnInv, OwnedOnce
<1>2. pending \in [Leases -> SUBSET Futures] /\ leased \subseteq Leases /\ DOMAIN future = Futures
  BY DEF TypeInv, TypeOK
<1>3. \A k \in leased : pending[k] \subseteq pending'[k] /\ f \in pending'[l]
  BY <1>2
<1>4. \A g \in Futures \ {f} : future'[g] = future[g]
  BY <1>2
<1>5. future'[f].executor = executor[l] /\ future'[f].lease = l
  BY <1>2
<1> QED
  BY <1>1, <1>3, <1>4, <1>5 DEF WorkIsOwners

\* No work is on a pooled executor, and all work on a leased one is its lease's.
THEOREM WorkIsolated == Spec => []WorkIsOwners
<1>1. Init => WorkIsOwners
  BY DEF Init, WorkIsOwners, NoWork
<1>2. TypeInv /\ OwnInv /\ WorkIsOwners /\ [Next]_vars => WorkIsOwners'
  <2> SUFFICES ASSUME TypeInv, OwnInv, WorkIsOwners, [Next]_vars PROVE WorkIsOwners'
    OBVIOUS
  <2>0. /\ leased \subseteq Leases /\ pending \in [Leases -> SUBSET Futures]
        /\ DOMAIN future = Futures
    BY DEF TypeInv, TypeOK
  <2>1. ASSUME NEW gone, NEW back, NEW idle, NEW made, NEW debts, NEW down, NEW called,
               Carries(gone, back, idle, made, debts, down, called)
        PROVE  WorkIsOwners'
    BY <2>1, WorkMove
  <2>2. CASE \E c \in Clients : AcquireGrant(c)
    BY <2>2, GrantWork
  <2>3. CASE \E l \in leased : \E f \in Futures : Enqueues(l, f)
    BY <2>3, SubmitWork DEF Enqueues
  <2>4. CASE (\E l \in leased : Drains(l)) \/ Runs
    BY <2>4, WorkKept DEF Drains, Runs, Busy
  <2>5. ASSUME NEW f \in Futures, Unhooks(f) PROVE WorkIsOwners'
    <3>1. \A g \in Futures : future'[g] = IF g = f THEN NoWork ELSE future[g]
      BY <2>0, <2>5 DEF Unhooks
    <3>2. \A k \in leased : \A g \in pending[k] : g # f => g \in pending'[k]
      BY <2>0, <2>5 DEF Unhooks
    <3>3. \A g \in Futures : future'[g].state \in {"queued", "running"} =>
            g # f /\ future'[g] = future[g]
      BY <3>1 DEF NoWork
    <3>4. UNCHANGED <<available, leased, executor>>
      BY <2>5 DEF Unhooks
    <3> QED
      BY <3>2, <3>3, <3>4 DEF WorkIsOwners
  <2>6. CASE \E e \in Executors : RunShutdown(e)
    <3>1. PICK e \in Executors : RunShutdown(e)
      BY <2>6
    <3>2. UNCHANGED <<available, leased, executor, pending>> /\ future' = FutureAfter({}, {e}, {})
      BY <3>1 DEF RunShutdown, leaseVars
    <3>3. \A g \in Futures : future'[g].state \in {"queued", "running"} => future'[g] = future[g]
      <4>1. \A g \in Futures : future'[g] = NoWork \/ future'[g] = future[g]
        BY <3>2 DEF FutureAfter
      <4> QED BY <4>1 DEF NoWork
    <3> QED
      BY <3>2, <3>3, WorkKept DEF Busy
  <2>7. CASE \E debt \in Executors \cup {NoExecutor} : Settle(debt)
    BY <2>7 DEF Settle, Defers, leaseVars, WorkIsOwners
  <2> QED
    BY <2>1, <2>2, <2>3, <2>4, <2>5, <2>6, <2>7, StepCases
<1> QED
  BY <1>1, <1>2, TypeCorrect, OwnCorrect, PTL DEF Spec

-----------------------------------------------------------------------------
\* Draining.

\* What a lease tracks is its own work, on its own executor, and not over; and there is
\* some while it drains.
DrainInv ==
    /\ DrainingHasWork
    /\ \A l \in leased : \A f \in pending[l] : future[f].executor = executor[l]

\* The leases that stay keep their work: nobody shuts their executors down.
LEMMA KeptWork ==
    ASSUME TypeInv, OwnInv, DrainInv, NEW gone \in SUBSET leased, NEW down, NEW called,
           down \cap Executors \cap Held(leased \ gone) = {},
           \A f \in called : future[f].lease \in gone,
           future' = FutureAfter(gone, down, called),
           NEW l \in leased \ gone, NEW f \in pending[l]
    PROVE  future'[f] = future[f]
<1>1. f \in Futures /\ executor[l] \in Executors
  BY DEF TypeInv, TypeOK
<1>2. future[f].lease = l /\ future[f].executor = executor[l]
  BY DEF DrainInv, DrainingHasWork
<1>3. executor[l] \notin down /\ f \notin called
  BY <1>1, <1>2 DEF Held
<1> QED
  BY <1>1, <1>2, <1>3 DEF FutureAfter

\* A draining lease has work whose callback is still to come.
THEOREM DrainingHolds == Spec => []DrainingHasWork
<1>1. Init => DrainInv
  BY DEF Init, DrainInv, DrainingHasWork
<1>2. TypeInv /\ OwnInv /\ DrainInv /\ [Next]_vars => DrainInv'
  <2> SUFFICES ASSUME TypeInv, OwnInv, DrainInv, [Next]_vars PROVE DrainInv'
    OBVIOUS
  <2>0. /\ leased \subseteq Leases /\ releaseRequested \subseteq leased /\ expired \subseteq leased
        /\ pending \in [Leases -> SUBSET Futures]
        /\ future \in [Futures -> [state : FutureStates \cup {"none"},
                                   lease : Leases \cup {NoLease},
                                   executor : Executors \cup {NoExecutor}]]
        /\ \A l \in leased : executor[l] \in Executors
    BY DEF TypeInv, TypeOK
  <2>1. ASSUME NEW gone, NEW back, NEW idle, NEW made, NEW debts, NEW down, NEW called,
               Carries(gone, back, idle, made, debts, down, called)
        PROVE  DrainInv'
    <3>1. down \cap Executors \cap Held(leased \ gone) = {}
      <4> SUFFICES ASSUME NEW l \in leased \ gone, executor[l] \in down PROVE FALSE
        BY DEF Held
      <4>1. executor[l] \in Held(gone) \cup idle
        BY <2>0, <2>1 DEF Carries, Moves
      <4>2. executor[l] \notin Held(gone)
        BY <2>1 DEF Carries, Moves, Held, OwnInv, OwnedOnce
      <4>3. executor[l] \notin available /\ status[executor[l]] # "down"
        BY DEF OwnInv, OwnedOnce, Owned, Held
      <4> QED
        BY <2>1, <4>1, <4>2, <4>3 DEF Carries, Moves, Fresh
    <3>2. ASSUME NEW l \in leased'
          PROVE  /\ l \in leased \ gone /\ executor'[l] = executor[l] /\ pending'[l] = pending[l]
                 /\ l \in releaseRequested' => l \in releaseRequested
                 /\ \A f \in pending[l] : future'[f] = future[f]
      BY <2>1, <3>1, KeptWork DEF Carries, Moves
    <3> QED
      BY <3>2 DEF DrainInv, DrainingHasWork
  <2>2. CASE \E c \in Clients : AcquireGrant(c)
    <3>1. PICK l \in Leases \ leased :
            /\ leased' = (leased \ expired) \cup {l}
            /\ pending' = [k \in Leases |-> IF k \in expired \cup {l} THEN {} ELSE pending[k]]
            /\ releaseRequested' = releaseRequested \ expired
            /\ \A k \in leased \ expired : executor'[k] = executor[k]
      <4>1. PICK c \in Clients : AcquireGrant(c)
        BY <2>2
      <4>2. PICK made \in SUBSET Fresh, l \in Leases \ leased :
              /\ \E e \in available \cup made :
                  /\ available' = (available \cup made) \ {e}
                  /\ executor' = [k \in Leases |-> IF k = l THEN e
                                                   ELSE IF k \in expired THEN NoExecutor ELSE executor[k]]
              /\ leased' = (leased \ expired) \cup {l}
              /\ pending' = [k \in Leases |-> IF k \in expired \cup {l} THEN {} ELSE pending[k]]
              /\ releaseRequested' = releaseRequested \ expired
        BY <4>1 DEF AcquireGrant
      <4> QED
        BY <2>0, <4>2
    <3>2. future' = FutureAfter(expired, Held(expired), {})
      BY <2>2 DEF AcquireGrant
    <3>3. Held(expired) \cap Executors \cap Held(leased \ expired) = {}
      BY <2>0 DEF Held, OwnInv, OwnedOnce
    <3>4. \A k \in leased \ expired : \A f \in pending[k] : future'[f] = future[f]
      BY <2>0, <3>2, <3>3, KeptWork
    <3>5. pending'[l] = {} /\ l \notin releaseRequested'
      BY <2>0, <3>1
    <3>6. ASSUME NEW k \in leased', k # l
          PROVE  /\ k \in leased \ expired /\ executor'[k] = executor[k] /\ pending'[k] = pending[k]
                 /\ k \in releaseRequested' => k \in releaseRequested
                 /\ \A f \in pending[k] : future'[f] = future[f]
      BY <2>0, <3>1, <3>4, <3>6
    <3> QED
      BY <3>5, <3>6 DEF DrainInv, DrainingHasWork
  <2>3. ASSUME NEW l \in leased, NEW f \in Futures, Enqueues(l, f) PROVE DrainInv'
    <3>1. \A k \in leased : f \notin pending[k]
      BY <2>3 DEF Enqueues, DrainInv, DrainingHasWork, NoWork
    <3>2. /\ \A g \in Futures \ {f} : future'[g] = future[g]
          /\ future'[f] = [state |-> "queued", lease |-> l, executor |-> executor[l]]
      BY <2>0, <2>3 DEF Enqueues
    <3>3. /\ \A k \in leased \ {l} : pending'[k] = pending[k]
          /\ pending'[l] = pending[l] \cup {f}
          /\ UNCHANGED <<leased, executor, releaseRequested>>
      BY <2>0, <2>3 DEF Enqueues
    <3>4. \A k \in leased : pending[k] \subseteq Futures
      BY <2>0
    <3> QED
      BY <3>1, <3>2, <3>3, <3>4 DEF DrainInv, DrainingHasWork
  <2>4. CASE \E l \in leased : Drains(l)
    BY <2>4 DEF Drains, DrainInv, DrainingHasWork
  <2>5. ASSUME NEW f \in Futures, Unhooks(f) PROVE DrainInv'
    <3>1. \A k \in leased : /\ pending'[k] = pending[k] \ {f}
                            /\ k \in releaseRequested => pending'[k] # {}
      <4> SUFFICES ASSUME NEW k \in leased
                   PROVE  /\ pending'[k] = pending[k] \ {f}
                          /\ k \in releaseRequested => pending'[k] # {}
        OBVIOUS
      <4>1. CASE k = future[f].lease
        BY <2>0, <2>5, <4>1 DEF Unhooks
      <4>2. CASE k # future[f].lease
        <5>1. f \notin pending[k]
          BY <4>2 DEF DrainInv, DrainingHasWork
        <5>2. pending'[k] = pending[k]
          BY <2>0, <2>5, <4>2 DEF Unhooks
        <5> QED
          BY <5>1, <5>2 DEF DrainInv, DrainingHasWork
      <4> QED
        BY <4>1, <4>2
    <3>2. \A g \in Futures \ {f} : future'[g] = future[g]
      BY <2>0, <2>5 DEF Unhooks
    <3>3. UNCHANGED <<leased, executor, releaseRequested>>
      BY <2>5 DEF Unhooks
    <3>4. \A k \in leased : pending[k] \subseteq Futures
      BY <2>0
    <3> QED
      BY <3>1, <3>2, <3>3, <3>4 DEF DrainInv, DrainingHasWork
  <2>6. CASE \E e \in Executors : RunShutdown(e)
    <3>1. PICK e \in Executors : RunShutdown(e)
      BY <2>6
    <3>2. /\ UNCHANGED <<leased, executor, pending, releaseRequested>>
          /\ future' = FutureAfter({}, {e}, {})
      BY <3>1 DEF RunShutdown, leaseVars
    <3>3. {e} \cap Executors \cap Held(leased \ {}) = {}
      BY <3>1 DEF RunShutdown, Doomed, Held, OwnInv, OwnedOnce
    <3>4. ASSUME NEW l \in leased'
          PROVE  /\ l \in leased /\ executor'[l] = executor[l] /\ pending'[l] = pending[l]
                 /\ l \in releaseRequested' => l \in releaseRequested
                 /\ \A f \in pending[l] : future'[f] = future[f]
      BY <3>2, <3>3, KeptWork
    <3> QED
      BY <3>4 DEF DrainInv, DrainingHasWork
  <2>7. CASE \E debt \in Executors \cup {NoExecutor} : Settle(debt)
    BY <2>7 DEF Settle, Defers, leaseVars, DrainInv, DrainingHasWork
  <2>8. CASE Runs
    <3>1. \A l \in leased : pending[l] \subseteq Futures
      BY <2>0
    <3> QED
      BY <2>8, <3>1 DEF Runs, DrainInv, DrainingHasWork
  <2> QED
    BY <2>1, <2>2, <2>3, <2>4, <2>5, <2>6, <2>7, <2>8, StepCases
<1>3. DrainInv => DrainingHasWork
  BY DEF DrainInv
<1> QED
  BY <1>1, <1>2, <1>3, TypeCorrect, OwnCorrect, PTL DEF Spec

-----------------------------------------------------------------------------
\* No executor is lost, where creating executors succeeds.

\* Whatever was created and not shut down is owned, or something is to shut it down.
THEOREM NothingLeaksHolds ==
    ASSUME ~CreateMayFail
    PROVE  Spec => []NothingLeaks
<1>1. Init => NothingLeaks
  BY DEF Init, NothingLeaks
<1>2. TypeInv /\ NothingLeaks /\ [Next]_vars => NothingLeaks'
  <2> SUFFICES ASSUME TypeInv, NothingLeaks, [Next]_vars, NEW e \in Executors, status'[e] # "down"
               PROVE  (e \in Owned \cup Doomed)'
    BY DEF NothingLeaks
  <2>0. /\ leased \subseteq Leases /\ expired \subseteq leased
        /\ status[e] # "down" => e \in Owned \cup Doomed
    BY DEF TypeInv, TypeOK, NothingLeaks
  <2>1. ASSUME NEW gone, NEW back, NEW idle, NEW made, NEW debts, NEW down, NEW called,
               Carries(gone, back, idle, made, debts, down, called)
        PROVE  (e \in Owned \cup Doomed)'
    <3> USE <2>1 DEF Carries, Moves
    <3>1. e \notin down /\ (e \in made \/ status[e] # "down")
      BY DEF StatusAfter
    <3>2. CASE e \in available \cup made
      BY <3>1, <3>2 DEF Owned
    <3>3. CASE e \in Held(gone)
      BY <3>1, <3>3, NoneAssumption DEF Owned, Doomed
    <3>4. CASE e \in Held(leased \ gone)
      BY <3>4 DEF Held, Owned
    <3>5. CASE e \in Doomed
      BY <3>5 DEF Doomed
    <3>6. Held(leased) \subseteq Held(gone) \cup Held(leased \ gone)
      BY DEF Held
    <3> QED
      BY <2>0, <3>1, <3>2, <3>3, <3>4, <3>5, <3>6 DEF Owned
  <2>2. CASE \E c \in Clients : AcquireGrant(c)
    <3>1. PICK c \in Clients : AcquireGrant(c)
      BY <2>2
    <3>2. PICK made \in SUBSET Fresh, l \in Leases \ leased :
            /\ \E d \in available \cup made :
                /\ available' = (available \cup made) \ {d}
                /\ executor' = [k \in Leases |-> IF k = l THEN d
                                                 ELSE IF k \in expired THEN NoExecutor ELSE executor[k]]
            /\ status' = StatusAfter(Held(expired), made)
            /\ leased' = (leased \ expired) \cup {l}
      BY <3>1 DEF AcquireGrant
    <3>3. e \notin Held(expired) /\ (e \in made \/ status[e] # "down")
      BY <3>2 DEF StatusAfter
    <3>4. CASE e \in available \cup made
      BY <3>2, <3>4 DEF Owned, Held
    <3>5. CASE e \in Held(leased)
      <4>1. PICK k \in leased \ expired : executor[k] = e
        BY <3>3, <3>5 DEF Held
      <4>2. k \in leased' /\ executor'[k] = e
        BY <2>0, <3>2, <4>1
      <4> QED
        BY <4>2 DEF Held, Owned
    <3>6. CASE e \in Doomed
      BY <3>1, <3>6 DEF AcquireGrant, Doomed
    <3> QED
      BY <2>0, <3>3, <3>4, <3>5, <3>6 DEF Owned
  <2>3. CASE \/ \E l \in leased : \E f \in Futures : Enqueues(l, f)
             \/ \E l \in leased : Drains(l)
             \/ \E f \in Futures : Unhooks(f)
             \/ Runs
    <3>1. UNCHANGED <<available, leased, executor, owed, deferred>> /\ status[e] # "down"
      BY <2>3 DEF Enqueues, Drains, Unhooks, Runs
    <3> QED
      BY <2>0, <3>1 DEF Owned, Held, Doomed
  <2>4. CASE \E d \in Executors : RunShutdown(d)
    <3>1. PICK d \in Executors : RunShutdown(d)
      BY <2>4
    <3>2. e # d /\ status[e] # "down" /\ UNCHANGED <<available, leased, executor, owed>>
      BY <3>1 DEF RunShutdown, StatusAfter, leaseVars
    <3> QED
      BY <2>0, <3>1, <3>2 DEF RunShutdown, Owned, Held, Doomed
  <2>5. CASE \E debt \in Executors \cup {NoExecutor} : Settle(debt)
    BY <2>0, <2>5 DEF Settle, Defers, leaseVars, Owned, Held, Doomed
  <2> QED
    BY <2>1, <2>2, <2>3, <2>4, <2>5, StepCases
<1> QED
  BY <1>1, <1>2, TypeCorrect, PTL DEF Spec

-----------------------------------------------------------------------------
\* The floor, where creating executors succeeds.

\* A started manager never has fewer than min_pools executors.
THEOREM FloorHolds ==
    ASSUME ~CreateMayFail
    PROVE  Spec => []FloorKept
<1>1. Init => FloorKept
  BY DEF Init, FloorKept
<1>2. TypeInv /\ OwnInv /\ FloorKept /\ [Next]_vars => FloorKept'
  <2> SUFFICES ASSUME TypeInv, OwnInv, FloorKept, [Next]_vars PROVE FloorKept'
    OBVIOUS
  <2>0. /\ available \in SUBSET Executors /\ leased \in SUBSET Leases /\ expired \in SUBSET leased
        /\ reading \in Readings /\ \A l \in leased : executor[l] \in Executors
        /\ MinPools \in Nat /\ Desired \in Int /\ MinPools <= Desired
    BY DesiredBounds, PoolAssumption DEF TypeInv, TypeOK
  <2>1. \A made \in SUBSET Fresh : made \in SUBSET Executors /\ made \cap Owned = {}
    BY DEF Fresh, OwnInv, OwnedOnce
  <2>2. ASSUME NEW free \in SUBSET Executors, NEW held \in SUBSET Leases,
               NEW made \in SUBSET Executors, made \cap free = {},
               Cardinality(made) = Shortfall(free, held)
        PROVE  Cardinality(free \cup made) + Cardinality(held) >= Desired
    <3>1. free \cup made \in SUBSET Executors /\ free \cap made = {}
      BY <2>2
    <3>2. Cardinality(free \cup made) = Cardinality(free) + Cardinality(made)
      <4>1. Cardinality(free \cup made)
              = Cardinality(free) + Cardinality(made) - Cardinality(free \cap made)
        BY Sizes, FS_Union
      <4>2. Cardinality(free \cap made) = 0
        BY <3>1, FS_EmptySet
      <4> QED
        BY <4>1, <4>2, Sizes
    <3> QED
      BY <2>0, <2>2, <3>2, Sizes DEF Shortfall
  <2>3. ASSUME UNCHANGED <<available, leased>>, started' => started PROVE FloorKept'
    BY <2>3 DEF FloorKept
  <2>4. ASSUME NEW l \in leased, NEW back \in SUBSET {executor[l]},
               NEW called, NEW callback \in BOOLEAN, Leave(l, back, called, callback)
        PROVE  FloorKept'
    <3> DEFINE held == leased \ {l}
               free == available \cup back
    <3>1. leased' = held
      BY <2>4 DEF Leave, Forget, Drop
    <3>2. PICK made \in SUBSET Fresh :
            available' = free \cup made /\ Cardinality(made) = Shortfall(free, held)
      BY <2>4 DEF Leave, Creates, CreateRaises
    <3>3. /\ free \in SUBSET Executors /\ held \in SUBSET Leases
          /\ made \in SUBSET Executors /\ made \cap free = {}
      BY <2>0, <2>1, <2>4 DEF Owned, Held
    <3> HIDE DEF held, free
    <3>4. Cardinality(free \cup made) + Cardinality(held) >= Desired
      BY <2>2, <3>2, <3>3
    <3>5. free \cup made \in SUBSET Executors
      BY <3>3
    <3> QED
      BY <2>0, <3>1, <3>2, <3>3, <3>4, <3>5, Sizes DEF FloorKept
  <2>5. CASE Start
    <3>1. PICK made \in SUBSET Fresh :
            Cardinality(made) = Shortfall(available, leased) /\ available' = available \cup made
      BY <2>5 DEF Start, StartNeed, Creates
    <3>2. leased' = leased /\ made \in SUBSET Executors /\ made \cap available = {}
      BY <2>1, <2>5 DEF Start, leaseVars, Owned
    <3>3. available \cup made \in SUBSET Executors
      BY <2>0, <3>2
    <3> QED
      BY <2>0, <2>2, <3>1, <3>2, <3>3, Sizes DEF FloorKept
  <2>6. /\ ~StartRaises
        /\ \A c \in Clients : ~AcquireRaises(c)
        /\ \A t \in CheckerTasks : ~CheckerCrashes(t)
    BY DEF StartRaises, AcquireRaises, CheckerCrashes, CreateRaises
  <2>7. CASE \E s \in Stoppers : StopFinish(s)
    BY <2>7 DEF StopFinish, FloorKept
  <2>8. CASE \E c \in Clients : AcquireGrant(c)
    <3> DEFINE rest == leased \ expired
    <3>1. PICK c \in Clients : AcquireGrant(c)
      BY <2>8
    <3>2. PICK made \in SUBSET Fresh, l \in Leases \ leased :
            /\ Creates(made, AcquireNeed)
            /\ \E d \in available \cup made : available' = (available \cup made) \ {d}
            /\ leased' = rest \cup {l}
      BY <3>1 DEF AcquireGrant
    <3>3. PICK e \in available \cup made : available' = (available \cup made) \ {e}
      BY <3>2
    <3>4. /\ made \in SUBSET Executors /\ made \cap available = {} /\ rest \in SUBSET Leases
          /\ available \cup made \in SUBSET Executors /\ l \notin rest
          /\ Cardinality(made) = AcquireNeed
      BY <2>0, <2>1, <3>2 DEF Owned, Creates
    <3>5. Cardinality(leased') = Cardinality(rest) + 1
      BY <3>2, <3>4, Sizes, FS_AddElement
    <3>6. Cardinality(available') = Cardinality(available \cup made) - 1
      <4>1. IsFiniteSet(available \cup made)
        BY <3>4, Sizes
      <4> QED
        BY <3>3, <4>1, FS_RemoveElement
    <3>7. Cardinality(available) <= Cardinality(available \cup made)
      BY <3>4, SubsetSize
    <3>8. Cardinality(available \cup made) + Cardinality(rest) >= MinPools
      <4>0. /\ Cardinality(available) \in Nat /\ Cardinality(rest) \in Nat
            /\ Cardinality(available \cup made) \in Nat
        BY <2>0, <3>4, Sizes
      <4>1. CASE expired = {}
        <5>1. rest = leased /\ Cardinality(available) + Cardinality(leased) >= MinPools
          BY <3>1, <4>1 DEF AcquireGrant, FloorKept
        <5> HIDE DEF rest
        <5> QED
          BY <2>0, <3>7, <4>0, <5>1
      <4>2. CASE expired # {} /\ Shortfall(available, rest) = 0
        <5>1. Cardinality(available) + Cardinality(rest) >= Desired
          BY <2>0, <3>4, <4>2, Sizes DEF Shortfall
        <5> QED
          BY <2>0, <3>4, <3>7, <5>1, Sizes
      <4>3. CASE expired # {} /\ Shortfall(available, rest) # 0
        <5>1. Cardinality(made) = Shortfall(available, rest)
          BY <3>4, <4>3 DEF AcquireNeed, RevokeNeed
        <5>2. Cardinality(available \cup made) + Cardinality(rest) >= Desired
          BY <2>0, <2>2, <3>4, <5>1
        <5> QED
          BY <2>0, <3>4, <5>2, Sizes
      <4> QED
        BY <4>1, <4>2, <4>3
    <3> HIDE DEF rest
    <3> QED
      BY <2>0, <3>4, <3>5, <3>6, <3>8, Sizes DEF FloorKept
  <2>9. CASE \E t \in CheckerTasks : CheckerPass(t)
    <3> DEFINE rest == leased \ expired
    <3>1. PICK made \in SUBSET Fresh : \E idle \in SUBSET (available \cup made) :
            /\ Creates(made, Shortfall(available, rest))
            /\ Cardinality(idle) = Surplus(available \cup made, rest)
            /\ available' = (available \cup made) \ idle
      BY <2>9 DEF CheckerPass
    <3>2. PICK idle \in SUBSET (available \cup made) :
            /\ Cardinality(made) = Shortfall(available, rest)
            /\ Cardinality(idle) = Surplus(available \cup made, rest)
            /\ available' = (available \cup made) \ idle
      BY <3>1 DEF Creates
    <3>3. leased' = rest /\ reading' \in Readings
      BY <2>9 DEF CheckerPass, Drop
    <3>4. /\ made \in SUBSET Executors /\ made \cap available = {} /\ rest \in SUBSET Leases
          /\ available \cup made \in SUBSET Executors
      BY <2>0, <2>1 DEF Owned
    <3> HIDE DEF rest
    <3>5. Cardinality(available \cup made) + Cardinality(rest) >= Desired
      BY <2>0, <2>2, <3>2, <3>4
    <3>6. Desired' \in Int /\ MinPools <= Desired'
      <4>1. UnitCount(reading') \in Int
        BY <3>3, PoolAssumption DEF UnitCount
      <4>2. CeilDiv(UnitCount(reading'), UnitsPerPool) \in Int
        BY <4>1, PoolAssumption DEF CeilDiv
      <4> QED
        BY <4>2, PoolAssumption DEF Desired, DesiredCount
    <3>7. /\ Cardinality(available') = Cardinality(available \cup made) - Cardinality(idle)
          /\ Cardinality(available') \in Nat /\ Cardinality(idle) \in Nat
      <4>1. IsFiniteSet(available \cup made) /\ idle \in SUBSET Executors /\ available' \in SUBSET Executors
        BY <3>2, <3>4, Sizes
      <4>2. Cardinality(available \cup made)
              = Cardinality(available') + Cardinality(idle)
        <5>1. available' \cup idle = available \cup made /\ available' \cap idle = {}
          BY <3>2
        <5>2. Cardinality(available' \cup idle)
                = Cardinality(available') + Cardinality(idle) - Cardinality(available' \cap idle)
          BY <4>1, Sizes, FS_Union
        <5>3. Cardinality(available' \cap idle) = 0
          BY <5>1, FS_EmptySet
        <5>4. Cardinality(available') \in Nat /\ Cardinality(idle) \in Nat
          BY <4>1, Sizes
        <5>5. Cardinality(available \cup made) = Cardinality(available' \cup idle)
          BY <5>1
        <5> QED
          BY <5>2, <5>3, <5>4, <5>5
      <4> QED
        BY <4>1, <4>2, Sizes
    <3> QED
      BY <2>0, <3>2, <3>3, <3>4, <3>5, <3>6, <3>7, Sizes DEF FloorKept, Surplus
  <2>10. CASE \E c \in Clients : Submit(c)
    <3>1. PICK c \in Clients : Submit(c)
      BY <2>10
    <3>2. UNCHANGED started
      BY <3>1 DEF Submit, managerVars
    <3>3. CASE handle[c] \in leased /\ Leave(handle[c], {}, {}, FALSE)
      BY <2>4, <3>3
    <3> QED
      BY <2>3, <3>1, <3>2, <3>3 DEF Submit, Retire
  <2>11. CASE \E c \in Clients : Release(c)
    <3>1. PICK c \in Clients : Release(c)
      BY <2>11
    <3>2. UNCHANGED started
      BY <3>1 DEF Release, managerVars
    <3>3. ASSUME handle[c] \in leased, Finalize(handle[c], {}, FALSE) PROVE FloorKept'
      BY <2>4, <3>3 DEF Finalize
    <3> QED
      BY <2>3, <3>1, <3>2, <3>3 DEF Release, leaseVars
  <2>12. CASE \E f \in Futures : Callback(f)
    <3>1. PICK f \in Futures : Callback(f)
      BY <2>12
    <3>2. UNCHANGED started
      BY <3>1 DEF Callback, managerVars
    <3>3. ASSUME future[f].lease \in leased, Finalize(future[f].lease, {f}, TRUE) PROVE FloorKept'
      BY <2>4, <3>3 DEF Finalize
    <3>4. ASSUME future[f].lease \in leased, Retire(future[f].lease, {f}, TRUE) PROVE FloorKept'
      BY <2>4, <3>4 DEF Retire
    <3> QED
      BY <2>3, <3>1, <3>2, <3>3, <3>4 DEF Callback, leaseVars
  <2>13. CASE \/ \E s \in Stoppers : StopCall(s)
              \/ \E c \in Clients : AcquireBlocked(c) \/ AcquireRefused(c) \/ GiveUp(c)
              \/ \E f \in Futures : StartWork(f) \/ EndWork(f) \/ CancelFuture(f)
              \/ \E e \in Executors : Break(e) \/ RunShutdown(e)
              \/ \E l \in Leases : Expire(l)
              \/ \E debt \in Executors \cup {NoExecutor} : Settle(debt)
              \/ \E t \in CheckerTasks : CheckerTimer(t) \/ CheckerCancelled(t) \/ CheckerUnbound(t)
              \/ SetAvailability \/ SetScaleChange \/ ChangeUnits \/ UNCHANGED vars
    <3>1. UNCHANGED <<available, leased, started>>
      BY <2>13
         DEF StopCall, AcquireBlocked, AcquireRefused, GiveUp, StartWork, EndWork, CancelFuture,
             Break, RunShutdown, Expire, Settle, Defers, CheckerTimer, CheckerCancelled, CheckerUnbound,
             SetAvailability, Resumed, SetScaleChange, ChangeUnits, managerVars, leaseVars, vars
    <3> QED
      BY <2>3, <3>1
  <2> QED
    BY <2>5, <2>6, <2>7, <2>8, <2>9, <2>10, <2>11, <2>12, <2>13 DEF Next, Call, Resume, CheckerStep
<1> QED
  BY <1>1, <1>2, TypeCorrect, OwnCorrect, PTL DEF Spec

-----------------------------------------------------------------------------
\* Tainted executors.

\* The executor of a lease that leaves and gives nothing back is out of use.
LEMMA GoneForGood ==
    ASSUME TypeInv, OwnInv, NEW l \in leased \ leased', NEW made \in SUBSET Fresh, NEW back,
           available' \subseteq available \cup back \cup made, executor[l] \notin back,
           \A k \in leased' : k \in leased /\ executor'[k] = executor[k]
    PROVE  executor[l] \notin Owned'
<1>1. executor[l] \notin available /\ status[executor[l]] # "down"
  BY DEF OwnInv, OwnedOnce, Owned, Held
<1>2. executor[l] \notin made
  BY <1>1 DEF Fresh
<1>3. \A k \in leased' : executor'[k] # executor[l]
  BY DEF OwnInv, OwnedOnce
<1> QED
  BY <1>1, <1>2, <1>3 DEF Owned, Held

\* What Leave keeps of the leases that stay.
LEMMA LeaveRest ==
    ASSUME TypeInv, NEW l \in leased, NEW back, NEW called, NEW callback,
           Leave(l, back, called, callback)
    PROVE  /\ leased' = leased \ {l}
           /\ \A k \in leased' : k \in leased /\ executor'[k] = executor[k]
           /\ \E made \in SUBSET Fresh : available' = available \cup back \cup made
BY DEF Leave, Forget, Drop, TypeInv, TypeOK

\* A lease that is overdue or meets a broken future takes its executor out of use.
THEOREM TaintedHolds == Spec => TaintedIsNotReused
<1>1. TypeInv /\ OwnInv /\ [Next]_vars =>
        [\A l \in leased \ leased' :
            \/ l \in expired
            \/ \E f \in pending[l] : future[f].state = "broken" /\ future'[f] = NoWork
          => executor[l] \notin Owned']_vars
  <2> SUFFICES ASSUME TypeInv, OwnInv, [Next]_vars, NEW l \in leased \ leased',
                      \/ l \in expired
                      \/ \E f \in pending[l] : future[f].state = "broken" /\ future'[f] = NoWork
               PROVE executor[l] \notin Owned'
    OBVIOUS
  <2>0. leased \subseteq Leases /\ expired \subseteq leased /\ executor[l] \in Executors
    BY DEF TypeInv, TypeOK
  <2>1. CASE StartRaises \/ \E s \in Stoppers : StopFinish(s)
    BY <2>1 DEF StartRaises, StopFinish, Forget, Drop, Owned, Held
  <2>2. CASE \E c \in Clients : AcquireGrant(c)
    <3>1. PICK made \in SUBSET Fresh, n \in Leases \ leased :
            /\ \E e \in available \cup made :
                /\ available' = (available \cup made) \ {e}
                /\ executor' = [k \in Leases |-> IF k = n THEN e
                                                 ELSE IF k \in expired THEN NoExecutor ELSE executor[k]]
            /\ leased' = (leased \ expired) \cup {n}
      BY <2>2 DEF AcquireGrant
    <3>2. leased \subseteq Leases
      BY DEF TypeInv, TypeOK
    <3>3. executor[l] \notin available /\ status[executor[l]] # "down"
      BY DEF OwnInv, OwnedOnce, Owned, Held
    <3>4. executor[l] \notin available \cup made
      BY <3>3 DEF Fresh
    <3>5. \A k \in leased' : executor'[k] # executor[l]
      BY <3>1, <3>2, <3>4 DEF OwnInv, OwnedOnce
    <3> QED
      BY <3>1, <3>4, <3>5 DEF Owned, Held
  <2>3. CASE \/ \E c \in Clients : AcquireRaises(c)
             \/ \E t \in CheckerTasks : CheckerCrashes(t) \/ CheckerPass(t)
    <3>1. \E made \in SUBSET Fresh : available' \subseteq available \cup {} \cup made
      BY <2>3 DEF AcquireRaises, CheckerCrashes, CheckerPass
    <3>2. Drop(expired)
      BY <2>3 DEF AcquireRaises, CheckerCrashes, CheckerPass, Forget
    <3>3. \A k \in leased' : k \in leased /\ executor'[k] = executor[k]
      BY <2>0, <3>2 DEF Drop
    <3>4. executor[l] \notin {}
      OBVIOUS
    <3> QED
      BY <3>1, <3>3, <3>4, GoneForGood
  <2>4. ASSUME NEW k \in leased, NEW back, NEW called, NEW callback,
               Leave(k, back, called, callback), executor[k] \notin back
        PROVE  executor[l] \notin Owned'
    <3>1. k = l
      BY <2>4, LeaveRest
    <3>2. \A j \in leased' : j \in leased /\ executor'[j] = executor[j]
      BY <2>4, LeaveRest
    <3>3. \E made \in SUBSET Fresh : available' \subseteq available \cup back \cup made
      BY <2>4, LeaveRest
    <3> QED
      BY <2>4, <3>1, <3>2, <3>3, GoneForGood
  <2>5. CASE \E c \in Clients : Submit(c)
    <3>1. PICK c \in Clients : Submit(c)
      BY <2>5
    <3>2. handle[c] \in leased /\ Leave(handle[c], {}, {}, FALSE)
      BY <3>1 DEF Submit, Retire
    <3> QED
      BY <2>4, <3>2
  <2>6. CASE \E c \in Clients : Release(c)
    <3>1. PICK c \in Clients : Release(c)
      BY <2>6
    <3>2. handle[c] \in leased /\ ~Draining(handle[c]) /\ Finalize(handle[c], {}, FALSE)
      BY <3>1 DEF Release, leaseVars
    <3>3. l = handle[c]
      BY <3>2, LeaveRest DEF Finalize
    <3>4. ~Keeps(handle[c])
      BY <3>2, <3>3 DEF Draining, Keeps
    <3> QED
      BY <2>4, <3>2, <3>4 DEF Finalize
  <2>7. CASE \E f \in Futures : Callback(f)
    <3>1. PICK f \in Futures : Callback(f)
      BY <2>7
    <3> DEFINE k == future[f].lease
    <3>2. CASE k \in leased /\ Retire(k, {f}, TRUE)
      BY <2>4, <3>2 DEF Retire
    <3>3. CASE /\ k \in leased /\ future[f].state = "done" /\ LastOf(f, k)
               /\ Finalize(k, {f}, TRUE)
      <4>1. l = k
        BY <3>3, LeaveRest DEF Finalize
      <4>2. \A g \in pending[l] : g = f
        BY <3>3, <4>1 DEF LastOf
      <4>3. ~Keeps(k)
        BY <3>3, <4>1, <4>2 DEF Keeps
      <4> QED
        BY <2>4, <3>3, <4>3 DEF Finalize
    <3>4. CASE UNCHANGED leased
      BY <3>4
    <3> QED
      BY <3>1, <3>2, <3>3, <3>4 DEF Callback, leaseVars
  <2>8. CASE \/ Start
             \/ \E s \in Stoppers : StopCall(s)
             \/ \E c \in Clients : AcquireBlocked(c) \/ AcquireRefused(c) \/ GiveUp(c)
             \/ \E f \in Futures : StartWork(f) \/ EndWork(f) \/ CancelFuture(f)
             \/ \E e \in Executors : Break(e) \/ RunShutdown(e)
             \/ \E k \in Leases : Expire(k)
             \/ \E debt \in Executors \cup {NoExecutor} : Settle(debt)
             \/ \E t \in CheckerTasks : CheckerTimer(t) \/ CheckerCancelled(t) \/ CheckerUnbound(t)
             \/ SetAvailability \/ SetScaleChange \/ ChangeUnits \/ UNCHANGED vars
    <3>1. UNCHANGED leased
      BY <2>8
         DEF Start, StopCall, AcquireBlocked, AcquireRefused, GiveUp, StartWork, EndWork,
             CancelFuture, Break, RunShutdown, Expire, Settle, Defers, CheckerTimer, CheckerCancelled,
             CheckerUnbound, SetAvailability, Resumed, SetScaleChange, ChangeUnits, leaseVars, vars
    <3> QED
      BY <3>1
  <2> QED
    BY <2>1, <2>2, <2>3, <2>5, <2>6, <2>7, <2>8 DEF Next, Call, Resume, CheckerStep
<1> QED
  BY <1>1, TypeCorrect, OwnCorrect, PTL DEF Spec, TaintedIsNotReused

-----------------------------------------------------------------------------
\* Why leases end.

\* Work that names a lease is tracked by it, so a lease whose set is empty has no work left.
Tracked ==
    \A f \in Futures :
        \/ future[f].lease = NoLease
        \/ future[f].lease \in leased /\ f \in pending[future[f].lease]

\* Shutdowns, lost leases and callbacks leave no work behind that nobody tracks.
LEMMA TrackedMove ==
    ASSUME TypeInv, Tracked, NEW gone, NEW down, NEW called,
           future' = FutureAfter(gone, down, called),
           leased \ gone \subseteq leased',
           \A l \in leased \ gone : pending'[l] = pending[l]
    PROVE  Tracked'
<1> SUFFICES ASSUME NEW f \in Futures, future'[f].lease # NoLease
             PROVE  future'[f].lease \in leased' /\ f \in pending'[future'[f].lease]
  BY DEF Tracked
<1>1. future[f] \in [state : FutureStates \cup {"none"}, lease : Leases \cup {NoLease},
                     executor : Executors \cup {NoExecutor}]
  BY DEF TypeInv, TypeOK
<1>2. future'[f] = future[f] /\ future[f].lease \notin gone
  BY <1>1 DEF FutureAfter, NoWork
<1> QED
  BY <1>2 DEF Tracked

\* Every piece of work that names a lease is tracked by it.
LEMMA TrackedHolds == Spec => []Tracked
<1>1. Init => Tracked
  BY DEF Init, Tracked, NoWork
<1>2. TypeInv /\ Tracked /\ [Next]_vars => Tracked'
  <2> SUFFICES ASSUME TypeInv, Tracked, [Next]_vars PROVE Tracked'
    OBVIOUS
  <2>0. /\ leased \subseteq Leases
        /\ pending \in [Leases -> SUBSET Futures]
        /\ future \in [Futures -> [state : FutureStates \cup {"none"},
                                   lease : Leases \cup {NoLease},
                                   executor : Executors \cup {NoExecutor}]]
    BY DEF TypeInv, TypeOK
  <2>1. ASSUME NEW gone, NEW back, NEW idle, NEW made, NEW debts, NEW down, NEW called,
               Carries(gone, back, idle, made, debts, down, called)
        PROVE  Tracked'
    BY <2>1, TrackedMove DEF Carries, Moves
  <2>2. CASE \E c \in Clients : AcquireGrant(c)
    <3>1. PICK l \in Leases \ leased :
            /\ leased' = (leased \ expired) \cup {l}
            /\ pending' = [k \in Leases |-> IF k \in expired \cup {l} THEN {} ELSE pending[k]]
      BY <2>2 DEF AcquireGrant
    <3>2. future' = FutureAfter(expired, Held(expired), {})
      BY <2>2 DEF AcquireGrant
    <3> QED
      BY <2>0, <3>1, <3>2, TrackedMove
  <2>3. ASSUME NEW l \in leased, NEW f \in Futures, Enqueues(l, f) PROVE Tracked'
    <3>1. /\ \A g \in Futures \ {f} : future'[g] = future[g]
          /\ future'[f].lease = l
      BY <2>0, <2>3 DEF Enqueues
    <3>2. /\ \A k \in leased : pending[k] \subseteq pending'[k]
          /\ f \in pending'[l] /\ leased' = leased
      BY <2>0, <2>3 DEF Enqueues
    <3> QED
      BY <3>1, <3>2 DEF Tracked
  <2>4. CASE \/ \E l \in leased : Drains(l)
             \/ \E debt \in Executors \cup {NoExecutor} : Settle(debt)
    <3>1. UNCHANGED <<leased, pending, future>>
      BY <2>4 DEF Drains, Settle, Defers, leaseVars
    <3> QED
      BY <3>1 DEF Tracked
  <2>5. ASSUME NEW f \in Futures, Unhooks(f) PROVE Tracked'
    <3>1. /\ \A g \in Futures \ {f} : future'[g] = future[g]
          /\ future'[f].lease = NoLease
      BY <2>0, <2>5 DEF Unhooks, NoWork
    <3>2. leased' = leased /\ \A k \in leased : pending[k] \ {f} \subseteq pending'[k]
      BY <2>0, <2>5 DEF Unhooks
    <3> QED
      BY <3>1, <3>2 DEF Tracked
  <2>6. ASSUME NEW e \in Executors, RunShutdown(e) PROVE Tracked'
    BY <2>6, TrackedMove DEF RunShutdown, leaseVars
  <2>7. CASE Runs
    BY <2>7 DEF Runs, Tracked
  <2> QED
    BY <2>1, <2>2, <2>3, <2>4, <2>5, <2>6, <2>7, StepCases
<1> QED
  BY <1>1, <1>2, TypeCorrect, PTL DEF Spec

\* A lease leaves because it is overdue, its executor broke or the manager stops, or else
\* because it was released, and then none of its work is cancelled or cut off: it is over.
THEOREM LeasesEndForCauseHolds == Spec => LeasesEndForCause
<1>1. TypeInv /\ Tracked /\ [Next]_vars =>
        [\A l \in leased \ leased' :
            \/ l \in expired \/ Broke(l) \/ ~started'
            \/ /\ Releases(l)
               /\ \A f \in Futures : future[f].lease = l => future[f].state \in {"done", "broken"}]_vars
  <2> SUFFICES ASSUME TypeInv, Tracked, [Next]_vars, NEW l \in leased \ leased'
               PROVE  \/ l \in expired \/ Broke(l) \/ ~started'
                      \/ /\ Releases(l)
                         /\ \A f \in Futures : future[f].lease = l =>
                                future[f].state \in {"done", "broken"}
    OBVIOUS
  <2>0. /\ l \in Leases /\ l # NoLease /\ started \in BOOLEAN
        /\ handle \in [Clients -> Leases \cup {NoLease}]
    BY NoneAssumption DEF TypeInv, TypeOK
  <2>1. \A f \in Futures : future[f].lease = l => f \in pending[l]
    BY <2>0 DEF Tracked
  <2>2. CASE StartRaises \/ \E s \in Stoppers : StopFinish(s)
    BY <2>2 DEF StartRaises, StopFinish
  <2>3. CASE \/ \E c \in Clients : AcquireGrant(c) \/ AcquireRaises(c)
             \/ \E t \in CheckerTasks : CheckerCrashes(t) \/ CheckerPass(t)
    <3>1. leased \ expired \subseteq leased'
      BY <2>3 DEF AcquireGrant, AcquireRaises, CheckerCrashes, CheckerPass, Forget, Drop
    <3> QED
      BY <3>1
  <2>4. ASSUME NEW c \in Clients, Submit(c) PROVE l \in expired \/ Broke(l)
    <3>1. /\ handle[c] \in leased /\ Leave(handle[c], {}, {}, FALSE)
          /\ handle[c] \in expired \/ status[executor[handle[c]]] = "broken"
      BY <2>4 DEF Submit, Retire
    <3>2. l = handle[c]
      BY <3>1, LeaveRest
    <3> QED
      BY <3>1, <3>2 DEF Broke
  <2>5. ASSUME NEW c \in Clients, Release(c) PROVE Releases(l) /\ pending[l] = {}
    <3>1. /\ handle[c] \in leased /\ ~Draining(handle[c]) /\ Finalize(handle[c], {}, FALSE)
          /\ handle' = [handle EXCEPT ![c] = NoLease]
      BY <2>5 DEF Release, leaseVars
    <3>2. l = handle[c]
      BY <3>1, LeaveRest DEF Finalize
    <3>3. handle'[c] = NoLease
      BY <2>0, <3>1
    <3> QED
      BY <3>1, <3>2, <3>3 DEF Draining, Releases
  <2>6. ASSUME NEW f \in Futures, Callback(f)
        PROVE  Broke(l) \/ (l \in releaseRequested /\ pending[l] \subseteq {f} /\ future[f].state = "done")
    <3> DEFINE k == future[f].lease
    <3>1. CASE k \in leased /\ future[f].state = "broken" /\ Retire(k, {f}, TRUE)
      <4>1. l = k
        BY <3>1, LeaveRest DEF Retire
      <4> QED
        BY <2>1, <3>1, <4>1 DEF Broke
    <3>2. CASE k \in leased /\ future[f].state = "done" /\ LastOf(f, k) /\ Finalize(k, {f}, TRUE)
      <4>1. l = k
        BY <3>2, LeaveRest DEF Finalize
      <4> QED
        BY <3>2, <4>1 DEF LastOf
    <3>3. CASE UNCHANGED leased
      BY <3>3
    <3> QED
      BY <2>6, <3>1, <3>2, <3>3 DEF Callback, leaseVars
  <2>7. CASE \/ Start
             \/ \E s \in Stoppers : StopCall(s)
             \/ \E c \in Clients : AcquireBlocked(c) \/ AcquireRefused(c) \/ GiveUp(c)
             \/ \E f \in Futures : StartWork(f) \/ EndWork(f) \/ CancelFuture(f)
             \/ \E e \in Executors : Break(e) \/ RunShutdown(e)
             \/ \E k \in Leases : Expire(k)
             \/ \E debt \in Executors \cup {NoExecutor} : Settle(debt)
             \/ \E t \in CheckerTasks : CheckerTimer(t) \/ CheckerCancelled(t) \/ CheckerUnbound(t)
             \/ SetAvailability \/ SetScaleChange \/ ChangeUnits \/ UNCHANGED vars
    <3>1. UNCHANGED leased
      BY <2>7
         DEF Start, StopCall, AcquireBlocked, AcquireRefused, GiveUp, StartWork, EndWork,
             CancelFuture, Break, RunShutdown, Expire, Settle, Defers, CheckerTimer, CheckerCancelled,
             CheckerUnbound, SetAvailability, Resumed, SetScaleChange, ChangeUnits, leaseVars, vars
    <3> QED
      BY <3>1
  <2>8. CASE \E c \in Clients : Release(c)
    BY <2>1, <2>5, <2>8
  <2>9. CASE \E f \in Futures : Callback(f)
    <3>1. PICK f \in Futures : Callback(f)
      BY <2>9
    <3> QED
      BY <2>1, <2>6, <3>1 DEF Releases
  <2> QED
    BY <2>2, <2>3, <2>4, <2>7, <2>8, <2>9 DEF Next, Call, Resume, CheckerStep
<1> QED
  BY <1>1, TypeCorrect, TrackedHolds, PTL DEF Spec, LeasesEndForCause

-----------------------------------------------------------------------------
\* A stopped manager, where creating executors succeeds.

\* The loop is bound exactly while the manager is started: so no checker task that
\* outlived a stop() can run a pass on the stopped manager.
StoppedInv == bound = started /\ StoppedIsEmpty

\* Where creating executors succeeds, a stopped manager owns nothing, has no checker
\* task and nobody waits for it.
THEOREM StoppedHolds ==
    ASSUME ~CreateMayFail
    PROVE  Spec => []StoppedIsEmpty
<1>1. Init => StoppedInv
  BY DEF Init, StoppedInv, StoppedIsEmpty, Owned, Held
<1>2. TypeInv /\ StoppedInv /\ [Next]_vars => StoppedInv'
  <2> SUFFICES ASSUME TypeInv, StoppedInv, [Next]_vars PROVE StoppedInv'
    OBVIOUS
  <2>0. \A ls : Held(ls) = {} => ls = {}
    BY DEF Held
  <2>1. /\ started \in BOOLEAN /\ bound = started
        /\ ~started => available = {} /\ leased = {} /\ checkerTask = NoTask
        /\ ~started => \A c \in Clients : pc[c] \notin {"waiting", "woken"}
        /\ pc \in [Clients -> {"idle", "waiting", "woken", "evicted", "holding"}]
    <3>1. /\ started \in BOOLEAN
          /\ pc \in [Clients -> {"idle", "waiting", "woken", "evicted", "holding"}]
      BY DEF TypeInv, TypeOK
    <3>2. ~started => available = {} /\ Held(leased) = {}
      BY DEF StoppedInv, StoppedIsEmpty, Owned
    <3>3. /\ bound = started
          /\ ~started => checkerTask = NoTask
          /\ ~started => \A c \in Clients : pc[c] \notin {"waiting", "woken"}
      BY DEF StoppedInv, StoppedIsEmpty
    <3> QED
      BY <2>0, <3>1, <3>2, <3>3
  <2>2. ASSUME started', bound' PROVE StoppedInv'
    BY <2>2 DEF StoppedInv, StoppedIsEmpty
  <2>3. ASSUME UNCHANGED managerVars, started PROVE StoppedInv'
    BY <2>1, <2>2, <2>3 DEF managerVars
  <2>4. ASSUME ~started, UNCHANGED managerVars, UNCHANGED <<available, leased, checkerTask>>,
               \A c \in Clients : pc'[c] \notin {"waiting", "woken"}
        PROVE  StoppedInv'
    BY <2>1, <2>4 DEF StoppedInv, StoppedIsEmpty, Owned, Held, managerVars
  <2>5. CASE Start
    BY <2>2, <2>5 DEF Start
  <2>6. ~StartRaises
    BY DEF StartRaises, CreateRaises
  <2>7. CASE \E s \in Stoppers : StopFinish(s)
    <3>1. ~started' /\ ~bound' /\ checkerTask' = NoTask /\ available' = {} /\ leased' = {}
      BY <2>7 DEF StopFinish, Forget, Drop
    <3>2. started' = FALSE /\ bound' = FALSE /\ pc' = EvictedPc
      BY <2>7 DEF StopFinish
    <3>3. \A c \in Clients : pc'[c] \notin {"waiting", "woken"}
      BY <3>2 DEF EvictedPc
    <3>4. Owned' = {}
      BY <3>1 DEF Owned, Held
    <3> QED
      BY <3>1, <3>2, <3>3, <3>4 DEF StoppedInv, StoppedIsEmpty
  <2>8. CASE \E c \in Clients : AcquireGrant(c) \/ AcquireBlocked(c) \/ AcquireRaises(c)
    BY <2>3, <2>8 DEF AcquireGrant, AcquireBlocked, AcquireRaises
  <2>9. CASE \E c \in Clients : Submit(c)
    BY <2>1, <2>3, <2>9 DEF Submit
  <2>10. CASE \E c \in Clients : AcquireRefused(c) \/ GiveUp(c)
    <3>1. /\ UNCHANGED managerVars /\ UNCHANGED <<available, leased, checkerTask>>
          /\ \E c \in Clients : pc' = [pc EXCEPT ![c] = "idle"]
      BY <2>10 DEF AcquireRefused, GiveUp, leaseVars, checkerVars
    <3> QED
      BY <2>1, <2>3, <2>4, <3>1
  <2>11. CASE \E c \in Clients : Release(c)
    <3>1. PICK c \in Clients : Release(c)
      BY <2>11
    <3>2. UNCHANGED managerVars /\ UNCHANGED checkerTask /\ pc' = [pc EXCEPT ![c] = "idle"]
      BY <3>1 DEF Release, checkerVars
    <3>3. ASSUME ~started PROVE UNCHANGED <<available, leased>>
      BY <2>1, <3>1, <3>3 DEF Release, leaseVars
    <3> QED
      BY <2>1, <2>3, <2>4, <3>2, <3>3
  <2>12. CASE \E f \in Futures : Callback(f)
    <3>1. PICK f \in Futures : Callback(f)
      BY <2>12
    <3>2. UNCHANGED managerVars /\ UNCHANGED <<checkerTask, pc>>
      BY <3>1 DEF Callback, checkerVars
    <3>3. ASSUME ~started PROVE UNCHANGED <<available, leased>>
      BY <2>1, <3>1, <3>3 DEF Callback, leaseVars
    <3> QED
      BY <2>1, <2>3, <2>4, <3>2, <3>3
  <2>13. CASE \E t \in CheckerTasks : CheckerPass(t) \/ CheckerCrashes(t)
    BY <2>1, <2>3, <2>13 DEF CheckerPass, CheckerCrashes
  <2>14. CASE SetAvailability
    <3>1. UNCHANGED managerVars /\ UNCHANGED <<available, leased, checkerTask>>
      BY <2>14 DEF SetAvailability, Resumed, leaseVars, checkerVars
    <3>2. pc' = [c \in Clients |-> IF pc[c] = "waiting" THEN "woken" ELSE pc[c]]
      BY <2>14 DEF SetAvailability, Resumed
    <3>3. ~started => \A c \in Clients : pc'[c] \notin {"waiting", "woken"}
      BY <2>1, <3>2
    <3> QED
      BY <2>1, <2>3, <2>4, <3>1, <3>3
  <2>15. CASE \E s \in Stoppers : StopCall(s)
    BY <2>1, <2>2, <2>15 DEF StopCall
  <2>16. CASE \/ \E f \in Futures : StartWork(f) \/ EndWork(f) \/ CancelFuture(f)
              \/ \E e \in Executors : Break(e) \/ RunShutdown(e)
              \/ \E l \in Leases : Expire(l)
              \/ \E debt \in Executors \cup {NoExecutor} : Settle(debt)
              \/ \E t \in CheckerTasks : CheckerTimer(t) \/ CheckerCancelled(t) \/ CheckerUnbound(t)
              \/ SetScaleChange \/ ChangeUnits \/ UNCHANGED vars
    <3>1. UNCHANGED managerVars /\ UNCHANGED <<available, leased, checkerTask, pc>>
      BY <2>16
         DEF StartWork, EndWork, CancelFuture, Break, RunShutdown, Expire, Settle, Defers, CheckerTimer,
             CheckerCancelled, CheckerUnbound, SetScaleChange, ChangeUnits, leaseVars, clientVars,
             checkerVars, vars
    <3> QED
      BY <2>1, <2>3, <2>4, <3>1
  <2> QED
    BY <2>5, <2>6, <2>7, <2>8, <2>9, <2>10, <2>11, <2>12, <2>13, <2>14, <2>15, <2>16
       DEF Next, Call, Resume, CheckerStep
<1>3. StoppedInv => StoppedIsEmpty
  BY DEF StoppedInv
<1> QED
  BY <1>1, <1>2, <1>3, TypeCorrect, PTL DEF Spec

-----------------------------------------------------------------------------
\* A stopped manager, where one task at a time stops it.

\* api/manager.rst:47, "Stop the checker task": no checker task outlives the manager's stop.
CheckerIsStopped == ~started => \A t \in CheckerTasks : checker[t] = "done"

\* While the manager is started its checker task is the only one, and the one stop() awaits;
\* once it is stopped none is left, so that nobody can build executors for it although a
\* start() that raised left the loop bound.
SoloInv ==
    /\ StoppedIsEmpty /\ CheckerIsStopped
    /\ started => \A t \in CheckerTasks \ {checkerTask} : checker[t] = "done"
    /\ \A s \in Stoppers : awaiting[s] # NoTask => awaiting[s] = checkerTask

\* Where at most one task stops the manager, what is stopped is empty and has no checker
\* left, wherever creating an executor raises.
THEOREM StoppedByOneHolds ==
    ASSUME \A s, u \in Stoppers : s = u
    PROVE  Spec => [](StoppedIsEmpty /\ CheckerIsStopped)
<1> USE DEF CheckerIsStopped
<1>1. Init => SoloInv
  BY DEF Init, SoloInv, StoppedIsEmpty, Owned, Held
<1>2. TypeInv /\ SoloInv /\ [Next]_vars => SoloInv'
  <2> SUFFICES ASSUME TypeInv, SoloInv, [Next]_vars PROVE SoloInv'
    OBVIOUS
  <2>0. \A ls : Held(ls) = {} => ls = {}
    BY DEF Held
  <2>1. /\ started \in BOOLEAN
        /\ pc \in [Clients -> {"idle", "waiting", "woken", "evicted", "holding"}]
        /\ checker \in [CheckerTasks -> {"ready", "waiting", "reaping", "adrift", "done"}]
        /\ awaiting \in [Stoppers -> CheckerTasks \cup {NoTask}]
    BY DEF TypeInv, TypeOK
  <2>2. ~started => /\ available = {} /\ leased = {} /\ checkerTask = NoTask
                    /\ \A c \in Clients : pc[c] \notin {"waiting", "woken"}
                    /\ \A t \in CheckerTasks : checker[t] = "done"
                    /\ \A s \in Stoppers : awaiting[s] = NoTask
    <3>1. ~started => available = {} /\ Held(leased) = {}
      BY DEF SoloInv, StoppedIsEmpty, Owned
    <3> QED
      BY <2>0, <3>1 DEF SoloInv, StoppedIsEmpty
  \* Of a started manager that stays so, the other checker tasks and the stoppers count.
  <2>3. ASSUME started, UNCHANGED <<started, checkerTask, awaiting>>,
               \A t \in CheckerTasks \ {checkerTask} : checker[t] = "done" => checker'[t] = "done"
        PROVE  SoloInv'
    BY <2>1, <2>3 DEF SoloInv, StoppedIsEmpty
  <2>4. ASSUME ~started, UNCHANGED <<started, available, leased, checkerTask, checker, awaiting>>,
               \A c \in Clients : pc'[c] \notin {"waiting", "woken"}
        PROVE  SoloInv'
    BY <2>2, <2>4 DEF SoloInv, StoppedIsEmpty, Owned, Held
  <2>5. CASE Start
    <3>1. /\ ~started /\ started' /\ awaiting' = awaiting
          /\ checkerTask' \in CheckerTasks /\ checker' = [checker EXCEPT ![checkerTask'] = "ready"]
      BY <2>5 DEF Start, FreshTasks
    <3> QED
      BY <2>1, <2>2, <3>1 DEF SoloInv, StoppedIsEmpty
  <2>6. CASE StartRaises
    <3>1. /\ ~started /\ ~started' /\ available' = {} /\ leased' = {}
          /\ UNCHANGED <<pc, checkerTask, checker, awaiting>>
      BY <2>1, <2>6 DEF StartRaises, Forget, Drop, checkerVars
    <3> QED
      BY <2>2, <3>1 DEF SoloInv, StoppedIsEmpty, Owned, Held
  <2>7. CASE \E s \in Stoppers : StopCall(s)
    <3>1. PICK s \in Stoppers : StopCall(s)
      BY <2>7
    <3>2. started /\ UNCHANGED <<started, checkerTask, checker>>
          /\ awaiting' = [awaiting EXCEPT ![s] = checkerTask]
      BY <3>1 DEF StopCall
    <3> QED
      BY <2>1, <3>2 DEF SoloInv, StoppedIsEmpty
  \* The checker task that has ended is the only one that had not.
  <2>8. CASE \E s \in Stoppers : StopFinish(s)
    <3>1. PICK s \in Stoppers : StopFinish(s)
      BY <2>8
    <3>2. /\ awaiting[s] # NoTask /\ checker[awaiting[s]] = "done"
          /\ awaiting' = [awaiting EXCEPT ![s] = NoTask]
          /\ started' = FALSE /\ checkerTask' = NoTask /\ available' = {} /\ leased' = {}
          /\ pc' = EvictedPc
          /\ checker' = [t \in CheckerTasks |-> IF checker[t] = "waiting" THEN "adrift" ELSE checker[t]]
      BY <3>1 DEF StopFinish, Forget, Drop
    <3>3. \A t \in CheckerTasks : checker[t] = "done"
      BY <2>1, <2>2, <3>2 DEF SoloInv
    <3>4. \A t \in CheckerTasks : checker'[t] = "done"
      BY <3>2, <3>3
    <3>5. \A u \in Stoppers : awaiting'[u] = NoTask
      BY <2>1, <3>2
    <3>6. \A c \in Clients : pc'[c] \notin {"waiting", "woken"}
      BY <3>2 DEF EvictedPc
    <3>7. Owned' = {}
      BY <3>2 DEF Owned, Held
    <3> QED
      BY <3>2, <3>4, <3>5, <3>6, <3>7 DEF SoloInv, StoppedIsEmpty
  <2>9. CASE \E c \in Clients : AcquireGrant(c) \/ AcquireBlocked(c) \/ AcquireRaises(c)
    <3>1. started /\ UNCHANGED <<started, checkerTask, checker, awaiting>>
      BY <2>9 DEF AcquireGrant, AcquireBlocked, AcquireRaises, managerVars, checkerVars
    <3> QED
      BY <2>3, <3>1
  <2>10. CASE \E c \in Clients : AcquireRefused(c) \/ GiveUp(c) \/ Release(c) \/ Submit(c)
    <3>1. /\ UNCHANGED <<started, checkerTask, checker, awaiting>>
          /\ pc' = pc \/ \E c \in Clients : pc' = [pc EXCEPT ![c] = "idle"]
      BY <2>10 DEF AcquireRefused, GiveUp, Release, Submit, managerVars, checkerVars
    <3>2. ASSUME ~started PROVE UNCHANGED <<available, leased>>
      BY <2>2, <2>10, <3>2 DEF AcquireRefused, GiveUp, Release, Submit, leaseVars
    <3> QED
      BY <2>1, <2>2, <2>3, <2>4, <3>1, <3>2
  <2>11. CASE \E f \in Futures : Callback(f)
    <3>1. PICK f \in Futures : Callback(f)
      BY <2>11
    <3>2. UNCHANGED <<started, checkerTask, checker, awaiting, pc>>
      BY <3>1 DEF Callback, managerVars, checkerVars
    <3>3. ASSUME ~started PROVE UNCHANGED <<available, leased>>
      BY <2>2, <3>1, <3>3 DEF Callback, leaseVars
    <3> QED
      BY <2>2, <2>3, <2>4, <3>2, <3>3
  \* A checker task that moves is the manager's own, or none moves.
  <2>12. CASE \E t \in CheckerTasks : CheckerPass(t) \/ CheckerCrashes(t) \/ CheckerTimer(t)
                                     \/ CheckerCancelled(t) \/ CheckerUnbound(t)
    <3>1. PICK t \in CheckerTasks :
            /\ checker[t] # "done" /\ \E there : checker' = [checker EXCEPT ![t] = there]
            /\ UNCHANGED <<started, checkerTask, awaiting>>
      BY <2>12 DEF CheckerPass, CheckerCrashes, CheckerTimer, CheckerCancelled, CheckerUnbound,
                   Resumes, Cancellable, managerVars
    <3>2. started /\ t = checkerTask
      BY <2>1, <2>2, <3>1 DEF SoloInv
    <3> QED
      BY <2>1, <2>3, <3>1, <3>2
  <2>13. CASE SetAvailability
    <3>1. UNCHANGED <<started, available, leased, checkerTask, checker, awaiting>>
      BY <2>13 DEF SetAvailability, Resumed, managerVars, leaseVars, checkerVars
    <3>2. pc' = [c \in Clients |-> IF pc[c] = "waiting" THEN "woken" ELSE pc[c]]
      BY <2>13 DEF SetAvailability, Resumed
    <3>3. ~started => \A c \in Clients : pc'[c] \notin {"waiting", "woken"}
      BY <2>2, <3>2
    <3> QED
      BY <2>1, <2>3, <2>4, <3>1, <3>3
  <2>14. CASE SetScaleChange
    <3>1. /\ UNCHANGED <<started, available, leased, checkerTask, awaiting, pc>>
          /\ checker' = [t \in CheckerTasks |-> IF checker[t] = "waiting" THEN "ready" ELSE checker[t]]
      BY <2>14 DEF SetScaleChange, managerVars, leaseVars, clientVars
    <3>2. \A t \in CheckerTasks : checker[t] = "done" => checker'[t] = "done"
      BY <3>1
    <3>3. ~started => checker' = checker
      BY <2>1, <2>2, <3>1
    <3> QED
      BY <2>1, <2>2, <2>3, <2>4, <3>1, <3>2, <3>3
  <2>15. CASE \/ \E f \in Futures : StartWork(f) \/ EndWork(f) \/ CancelFuture(f)
              \/ \E e \in Executors : Break(e) \/ RunShutdown(e)
              \/ \E l \in Leases : Expire(l)
              \/ \E debt \in Executors \cup {NoExecutor} : Settle(debt)
              \/ ChangeUnits \/ UNCHANGED vars
    <3>1. UNCHANGED <<started, available, leased, checkerTask, checker, awaiting, pc>>
      BY <2>15
         DEF StartWork, EndWork, CancelFuture, Break, RunShutdown, Expire, Settle, Defers, ChangeUnits,
             managerVars, leaseVars, clientVars, checkerVars, vars
    <3> QED
      BY <2>1, <2>2, <2>3, <2>4, <3>1
  <2> QED
    BY <2>5, <2>6, <2>7, <2>8, <2>9, <2>10, <2>11, <2>12, <2>13, <2>14, <2>15
       DEF Next, Call, Resume, CheckerStep
<1>3. SoloInv => StoppedIsEmpty /\ CheckerIsStopped
  BY DEF SoloInv
<1> HIDE DEF CheckerIsStopped
<1> QED
  BY <1>1, <1>2, <1>3, TypeCorrect, PTL DEF Spec

-----------------------------------------------------------------------------
\* The checker's timeout.

\* A started manager has a loop, for the wakeups to be queued on, and a checker task.
CheckerInv ==
    /\ started => bound /\ checkerTask \in CheckerTasks
    /\ CheckerCoversLeases

\* A step in which the checker does not go to sleep and nothing new needs watching.
LEMMA CheckerKept ==
    ASSUME CheckerInv, UNCHANGED <<started, bound, checkerTask>>, stopping => stopping',
           started /\ checker'[checkerTask] = "waiting" => checker[checkerTask] = "waiting",
           unwatched' \subseteq unwatched, scaleQueued => scaleQueued'
    PROVE  CheckerInv'
BY DEF CheckerInv, CheckerCoversLeases

\* While the checker sleeps, its timeout counts in every lease or its wakeup is queued.
THEOREM CheckerCovers == Spec => []CheckerCoversLeases
<1>1. Init => CheckerInv
  BY DEF Init, CheckerInv, CheckerCoversLeases
<1>2. TypeInv /\ CheckerInv /\ [Next]_vars => CheckerInv'
  <2> SUFFICES ASSUME TypeInv, CheckerInv, [Next]_vars PROVE CheckerInv'
    OBVIOUS
  <2> USE DEF managerVars, leaseVars, workVars, clientVars, eventVars, checkerVars
  <2>0. /\ started => checkerTask \in CheckerTasks
        /\ checker \in [CheckerTasks -> {"ready", "waiting", "reaping", "adrift", "done"}]
        /\ scaleQueued \in BOOLEAN /\ bound \in BOOLEAN
    BY DEF TypeInv, TypeOK, CheckerInv
  <2>1. ASSUME ~started' PROVE CheckerInv'
    BY <2>1 DEF CheckerInv, CheckerCoversLeases
  <2>2. CASE Start
    <3>1. started' /\ bound' /\ checkerTask' \in CheckerTasks /\ checker'[checkerTask'] = "ready"
      BY <2>0, <2>2 DEF Start, FreshTasks
    <3> QED
      BY <3>1 DEF CheckerInv, CheckerCoversLeases
  <2>3. CASE StartRaises \/ \E s \in Stoppers : StopFinish(s)
    BY <2>1, <2>3 DEF StartRaises, StopFinish
  <2>4. CASE \E c \in Clients : AcquireGrant(c)
    <3>1. scaleQueued' = TRUE /\ UNCHANGED <<started, bound, checkerTask>>
      BY <2>0, <2>4 DEF AcquireGrant, WakeChecker, CheckerInv
    <3> QED
      BY <3>1 DEF CheckerInv, CheckerCoversLeases
  <2>5. CASE \E t \in CheckerTasks : CheckerPass(t)
    <3>1. unwatched' = {} /\ UNCHANGED <<started, bound, checkerTask>>
      BY <2>5 DEF CheckerPass
    <3> QED
      BY <3>1 DEF CheckerInv, CheckerCoversLeases
  <2>6. CASE SetScaleChange
    <3>1. \A t \in CheckerTasks : checker'[t] # "waiting"
      BY <2>0, <2>6 DEF SetScaleChange
    <3>2. UNCHANGED <<started, bound, checkerTask>>
      BY <2>6 DEF SetScaleChange
    <3> QED
      BY <3>1, <3>2 DEF CheckerInv, CheckerCoversLeases
  <2>7. ASSUME UNCHANGED <<started, stopping, bound, checkerTask, checker>>,
               unwatched' \subseteq unwatched, scaleQueued => scaleQueued'
        PROVE  CheckerInv'
    BY <2>7, CheckerKept
  <2>8. CASE \E s \in Stoppers : StopCall(s)
    <3>1. UNCHANGED <<started, bound, checkerTask, checker, unwatched, scaleQueued>> /\ stopping'
      BY <2>8 DEF StopCall
    <3> QED
      BY <3>1, CheckerKept
  <2>9. ASSUME NEW k, NEW back, NEW called, NEW callback, Leave(k, back, called, callback),
               UNCHANGED <<started, stopping, bound, checkerTask, checker>>
        PROVE  CheckerInv'
    <3>1. unwatched' \subseteq unwatched
      BY <2>9 DEF Leave, Forget
    <3>2. UNCHANGED scaleQueued \/ scaleQueued' = (scaleQueued \/ bound)
      BY <2>9 DEF Leave, WakeChecker
    <3> QED
      BY <2>0, <2>7, <2>9, <3>1, <3>2
  <2>10. CASE \E c \in Clients : Submit(c) \/ Release(c)
    <3>1. UNCHANGED <<started, stopping, bound, checkerTask, checker>>
      BY <2>10 DEF Submit, Release
    <3>2. \/ UNCHANGED <<unwatched, scaleQueued>>
          \/ \E k, back : Leave(k, back, {}, FALSE)
      BY <2>10 DEF Submit, Release, Retire, Finalize
    <3> QED
      BY <2>7, <2>9, <3>1, <3>2
  <2>11. CASE \E f \in Futures : Callback(f)
    <3>1. UNCHANGED <<started, stopping, bound, checkerTask, checker>>
      BY <2>11 DEF Callback
    <3>2. \/ UNCHANGED <<unwatched, scaleQueued>>
          \/ \E k, back, f : Leave(k, back, {f}, TRUE)
      BY <2>11 DEF Callback, Retire, Finalize
    <3> QED
      BY <2>7, <2>9, <3>1, <3>2
  <2>12. CASE \E t \in CheckerTasks :
                CheckerTimer(t) \/ CheckerCancelled(t) \/ CheckerUnbound(t) \/ CheckerCrashes(t)
    <3>1. PICK t \in CheckerTasks : \E there \in {"reaping", "done"} :
            checker' = [checker EXCEPT ![t] = there]
      BY <2>12 DEF CheckerTimer, CheckerCancelled, CheckerUnbound, CheckerCrashes
    <3>2. started /\ checker'[checkerTask] = "waiting" => checker[checkerTask] = "waiting"
      BY <2>0, <3>1
    <3>3. /\ UNCHANGED <<started, stopping, bound, checkerTask, scaleQueued>>
          /\ unwatched' \subseteq unwatched
      BY <2>12 DEF CheckerTimer, CheckerCancelled, CheckerUnbound, CheckerCrashes, Forget
    <3> QED
      BY <3>2, <3>3, CheckerKept
  <2>13. CASE \/ \E c \in Clients : AcquireBlocked(c) \/ AcquireRefused(c) \/ GiveUp(c) \/ AcquireRaises(c)
              \/ \E f \in Futures : StartWork(f) \/ EndWork(f) \/ CancelFuture(f)
              \/ \E e \in Executors : Break(e) \/ RunShutdown(e)
              \/ \E l \in Leases : Expire(l)
              \/ \E debt \in Executors \cup {NoExecutor} : Settle(debt)
              \/ SetAvailability \/ ChangeUnits \/ UNCHANGED vars
    <3>1. UNCHANGED <<started, stopping, bound, checkerTask, checker>>
      BY <2>13
         DEF AcquireBlocked, AcquireRefused, GiveUp, AcquireRaises, StartWork, EndWork,
             CancelFuture, Break, RunShutdown, Expire, Settle, Defers, SetAvailability, Resumed, ChangeUnits, vars
    <3>2. unwatched' \subseteq unwatched
      BY <2>13
         DEF AcquireBlocked, AcquireRefused, GiveUp, AcquireRaises, StartWork, EndWork, Forget,
             CancelFuture, Break, RunShutdown, Expire, Settle, Defers, SetAvailability, Resumed, ChangeUnits, vars
    <3>3. UNCHANGED scaleQueued \/ scaleQueued' = (scaleQueued \/ bound)
      BY <2>13
         DEF AcquireBlocked, AcquireRefused, GiveUp, AcquireRaises, StartWork, EndWork,
             CancelFuture, Break, RunShutdown, Expire, Settle, Defers, WakeChecker, SetAvailability, Resumed,
             ChangeUnits, vars
    <3> QED
      BY <2>0, <2>7, <3>1, <3>2, <3>3
  <2> QED
    BY <2>2, <2>3, <2>4, <2>5, <2>6, <2>8, <2>10, <2>11, <2>12, <2>13
       DEF Next, Call, Resume, CheckerStep
<1>3. CheckerInv => CheckerCoversLeases
  BY DEF CheckerInv
<1> QED
  BY <1>1, <1>2, <1>3, TypeCorrect, PTL DEF Spec

-----------------------------------------------------------------------------
\* Waiters, where creating executors succeeds.

\* A started manager that is not stopping has a checker task that goes on: nobody
\* cancelled it and it has not ended, so a wakeup that is queued for it reaches it.
WaiterInv ==
    /\ NoStrandedWaiter
    /\ started => bound /\ checkerTask \in CheckerTasks
    /\ started /\ ~stopping => /\ checker[checkerTask] \in {"ready", "waiting", "reaping"}
                               /\ checkerTask \notin cancelled
    /\ \A t \in cancelled : checker[t] # "done"

\* While there is room and somebody waits, somebody is on the way to wake the waiters.
THEOREM NoStrandedWaiterHolds ==
    ASSUME ~CreateMayFail
    PROVE  Spec => []NoStrandedWaiter
<1>1. Init => WaiterInv
  BY DEF Init, WaiterInv, NoStrandedWaiter
<1>2. TypeInv /\ StoppedIsEmpty /\ WaiterInv /\ [Next]_vars => WaiterInv'
  <2> SUFFICES ASSUME TypeInv, StoppedIsEmpty, WaiterInv, [Next]_vars PROVE WaiterInv'
    OBVIOUS
  <2> USE DEF managerVars, leaseVars, workVars, clientVars, eventVars, checkerVars
  <2>0. /\ started \in BOOLEAN /\ stopping \in BOOLEAN /\ bound \in BOOLEAN
        /\ availQueued \in BOOLEAN /\ scaleQueued \in BOOLEAN /\ cancelled \subseteq CheckerTasks
        /\ checker \in [CheckerTasks -> {"ready", "waiting", "reaping", "adrift", "done"}]
        /\ pc \in [Clients -> {"idle", "waiting", "woken", "evicted", "holding"}]
        /\ \A c \in Clients : pc[c] = "waiting" => started
    BY DEF TypeInv, TypeOK, StoppedIsEmpty
  <2>1. ASSUME UNCHANGED <<started, stopping, bound, checkerTask, checker, cancelled>>,
               NoStrandedWaiter'
        PROVE  WaiterInv'
    BY <2>1 DEF WaiterInv
  \* The wakeup of the waiters is queued.
  <2>2. ASSUME UNCHANGED <<started, stopping, bound, checkerTask, pc, availSet>>,
               availQueued' \/ scaleQueued' \/ owed' # {} \/ ~started
        PROVE  NoStrandedWaiter'
    BY <2>0, <2>2 DEF WaiterInv, NoStrandedWaiter
  \* Nothing was queued, and nothing makes room.
  <2>3. ASSUME UNCHANGED <<started, stopping, bound, checkerTask, checker, available, leased>>,
               availSet' => availSet, availQueued => availQueued', scaleQueued => scaleQueued',
               owed # {} => owed' # {},
               \A c \in Clients : pc'[c] = "waiting" =>
                 \/ pc[c] = "waiting"
                 \/ started /\ ~availSet' /\ ~Roomy
        PROVE  NoStrandedWaiter'
    BY <2>0, <2>3 DEF WaiterInv, NoStrandedWaiter, Roomy
  <2>4. ASSUME NEW l, NEW back, NEW called, NEW callback \in BOOLEAN,
               Leave(l, back, called, callback),
               UNCHANGED <<started, stopping, bound, checkerTask, checker, cancelled, pc, availSet>>
        PROVE  NoStrandedWaiter'
    <3>1. owed' # {} \/ availQueued' = (availQueued \/ bound)
      BY <2>4 DEF Leave, CreateRaises, WakeWaiters
    <3>2. owed' # {} \/ availQueued' \/ ~started
      BY <2>0, <3>1 DEF WaiterInv
    <3> QED
      BY <2>2, <2>4, <3>2
  <2>5. CASE Start
    <3>1. \A c \in Clients : pc'[c] # "waiting"
      BY <2>5 DEF Start, StoppedIsEmpty
    <3>2. /\ started' /\ bound' /\ checkerTask' \in CheckerTasks /\ checker'[checkerTask'] = "ready"
          /\ checkerTask' \notin cancelled' /\ \A t \in cancelled' : checker'[t] # "done"
      BY <2>0, <2>5 DEF Start, FreshTasks, WaiterInv
    <3> QED
      BY <3>1, <3>2 DEF WaiterInv, NoStrandedWaiter
  <2>6. /\ ~StartRaises
        /\ \A c \in Clients : ~AcquireRaises(c)
        /\ \A t \in CheckerTasks : ~CheckerCrashes(t)
    BY DEF StartRaises, AcquireRaises, CheckerCrashes, CreateRaises
  <2>7. ASSUME NEW s \in Stoppers, StopCall(s) PROVE WaiterInv'
    <3>1. stopping' /\ UNCHANGED <<started, bound, checkerTask, checker>>
      BY <2>7 DEF StopCall
    <3>2. \A t \in cancelled' : checker'[t] # "done"
      BY <2>7 DEF StopCall, WaiterInv
    <3> QED
      BY <3>1, <3>2 DEF WaiterInv, NoStrandedWaiter
  <2>8. ASSUME NEW s \in Stoppers, StopFinish(s) PROVE WaiterInv'
    <3>1. ~started' /\ pc' = EvictedPc /\ cancelled' = cancelled
      BY <2>8 DEF StopFinish
    <3>2. \A c \in Clients : pc'[c] # "waiting"
      BY <3>1 DEF EvictedPc
    <3>3. \A t \in cancelled : checker'[t] # "done"
      BY <2>0, <2>8 DEF StopFinish, WaiterInv
    <3> QED
      BY <3>1, <3>2, <3>3 DEF WaiterInv, NoStrandedWaiter
  <2>9. ASSUME NEW c \in Clients, AcquireGrant(c) PROVE WaiterInv'
    <3>1. /\ UNCHANGED <<started, stopping, bound, checkerTask, checker, cancelled>> /\ started
          /\ availSet' => availSet /\ scaleQueued'
          /\ \A d \in Clients : pc'[d] = "waiting" => pc[d] = "waiting"
      BY <2>0, <2>9 DEF AcquireGrant, ClearOwnEvent, WakeChecker, WaiterInv
    <3>2. scaleQueued'
      BY <2>0, <2>9, <3>1 DEF AcquireGrant, WakeChecker, WaiterInv
    <3> QED
      BY <2>1, <3>1, <3>2 DEF WaiterInv, NoStrandedWaiter
  <2>10. ASSUME NEW c \in Clients, AcquireBlocked(c) PROVE WaiterInv'
    <3>1. /\ UNCHANGED <<started, stopping, bound, checkerTask, checker, cancelled, available, leased,
                         availQueued, scaleQueued, owed>>
          /\ availSet' => availSet
      BY <2>10 DEF AcquireBlocked, ClearOwnEvent
    <3>2. started /\ ~Roomy
      <4>1. available = {} /\ Cardinality(leased) >= MaxPools /\ leased \in SUBSET Leases /\ started
        BY <2>10 DEF AcquireBlocked, TypeInv, TypeOK
      <4> QED
        BY <4>1, Sizes, PoolAssumption DEF Roomy
    <3>3. \A d \in Clients : pc'[d] = "waiting" => pc[d] = "waiting" \/ ~availSet'
      BY <2>0, <2>10 DEF AcquireBlocked
    <3> QED
      BY <2>1, <2>3, <3>1, <3>2, <3>3
  <2>11. ASSUME NEW c \in Clients, AcquireRefused(c) \/ GiveUp(c) PROVE WaiterInv'
    <3>1. /\ UNCHANGED <<started, stopping, bound, checkerTask, checker, cancelled, available, leased,
                         availQueued, scaleQueued, owed>>
          /\ availSet' => availSet /\ pc' = [pc EXCEPT ![c] = "idle"]
      BY <2>11 DEF AcquireRefused, GiveUp, ClearOwnEvent
    <3>2. \A d \in Clients : pc'[d] = "waiting" => pc[d] = "waiting"
      BY <2>0, <2>11 DEF AcquireRefused, GiveUp
    <3> QED
      BY <2>1, <2>3, <3>1, <3>2
  <2>12. ASSUME NEW c \in Clients, Submit(c) PROVE WaiterInv'
    <3>1. UNCHANGED <<started, stopping, bound, checkerTask, checker, cancelled, pc, availSet>>
      BY <2>12 DEF Submit
    <3>2. \/ Leave(handle[c], {}, {}, FALSE)
          \/ UNCHANGED <<available, leased, owed, availQueued, scaleQueued>>
      BY <2>12 DEF Submit, Retire
    <3> QED
      BY <2>1, <2>3, <2>4, <3>1, <3>2
  <2>13. ASSUME NEW c \in Clients, Release(c) PROVE WaiterInv'
    <3>1. /\ UNCHANGED <<started, stopping, bound, checkerTask, checker, cancelled, availSet>>
          /\ \A d \in Clients : pc'[d] = "waiting" => pc[d] = "waiting"
      BY <2>0, <2>13 DEF Release
    <3>2. CASE UNCHANGED <<available, leased, owed, availQueued, scaleQueued>>
      BY <2>1, <2>3, <3>1, <3>2
    <3>3. ASSUME NEW back, Leave(handle[c], back, {}, FALSE) PROVE WaiterInv'
      <4>1. availQueued' = (availQueued \/ bound)
        BY <3>3 DEF Leave, CreateRaises, WakeWaiters
      <4>2. availQueued' \/ ~started
        BY <2>0, <4>1 DEF WaiterInv
      <4>3. NoStrandedWaiter'
        BY <2>0, <3>1, <4>2 DEF WaiterInv, NoStrandedWaiter
      <4> QED
        BY <2>1, <3>1, <4>3
    <3> QED
      BY <2>13, <3>2, <3>3 DEF Release, Finalize
  <2>14. ASSUME NEW f \in Futures, Callback(f) PROVE WaiterInv'
    <3>1. UNCHANGED <<started, stopping, bound, checkerTask, checker, cancelled, pc, availSet>>
      BY <2>14 DEF Callback
    <3>2. \/ \E l, back : Leave(l, back, {f}, TRUE)
          \/ UNCHANGED <<available, leased, owed, availQueued, scaleQueued>>
      BY <2>14 DEF Callback, Retire, Finalize
    <3> QED
      BY <2>1, <2>3, <2>4, <3>1, <3>2
  <2>15. ASSUME NEW debt \in Executors \cup {NoExecutor}, Settle(debt) PROVE WaiterInv'
    <3>1. UNCHANGED <<started, stopping, bound, checkerTask, checker, cancelled, pc, availSet>>
      BY <2>15 DEF Settle, Defers
    <3>2. availQueued' \/ ~started
      BY <2>0, <2>15 DEF Settle, Defers, WakeWaiters, WaiterInv
    <3> QED
      BY <2>1, <2>2, <3>1, <3>2
  <2>16. ASSUME NEW t \in CheckerTasks, CheckerPass(t) PROVE WaiterInv'
    <3>1. /\ UNCHANGED <<started, stopping, bound, checkerTask, pc, availSet>> /\ availQueued'
          /\ checker' = [checker EXCEPT ![t] = "waiting"] /\ cancelled' = cancelled \ {t}
      BY <2>0, <2>16 DEF CheckerPass, WakeWaiters
    <3>2. NoStrandedWaiter'
      BY <2>2, <3>1
    <3> QED
      BY <2>0, <3>1, <3>2 DEF WaiterInv
  <2>17. ASSUME NEW t \in CheckerTasks, CheckerTimer(t) PROVE WaiterInv'
    <3>1. /\ UNCHANGED <<started, stopping, bound, checkerTask, cancelled, pc, availSet, available,
                         leased, owed, availQueued, scaleQueued>>
          /\ checker' = [checker EXCEPT ![t] = "reaping"]
      BY <2>17 DEF CheckerTimer
    <3> QED
      BY <2>0, <3>1 DEF WaiterInv, NoStrandedWaiter, Roomy
  <2>18. ASSUME NEW t \in CheckerTasks, CheckerCancelled(t) \/ CheckerUnbound(t) PROVE WaiterInv'
    <3>1. /\ UNCHANGED <<started, stopping, bound, checkerTask, pc, availSet, available,
                         leased, owed, availQueued, scaleQueued>>
          /\ checker' = [checker EXCEPT ![t] = "done"] /\ cancelled' = cancelled \ {t}
          /\ t \in cancelled \/ ~bound
      BY <2>18 DEF CheckerCancelled, CheckerUnbound
    <3>2. started /\ ~stopping => t # checkerTask
      BY <3>1 DEF WaiterInv
    <3> QED
      BY <2>0, <3>1, <3>2 DEF WaiterInv, NoStrandedWaiter, Roomy
  <2>19. CASE SetAvailability
    <3>1. /\ UNCHANGED <<started, stopping, bound, checkerTask, checker, cancelled>>
          /\ pc' = [c \in Clients |-> IF pc[c] = "waiting" THEN "woken" ELSE pc[c]]
      BY <2>19 DEF SetAvailability, Resumed
    <3>2. \A c \in Clients : pc'[c] # "waiting"
      BY <3>1
    <3> QED
      BY <2>1, <3>1, <3>2 DEF NoStrandedWaiter
  <2>20. CASE SetScaleChange
    <3>1. /\ UNCHANGED <<started, stopping, bound, checkerTask, cancelled, pc, availSet>>
          /\ checker' = [t \in CheckerTasks |-> IF checker[t] = "waiting" THEN "ready" ELSE checker[t]]
      BY <2>20 DEF SetScaleChange
    <3>2. started /\ ~stopping => checker'[checkerTask] \in {"ready", "reaping"}
      BY <2>0, <3>1 DEF WaiterInv
    <3>3. \A t \in cancelled : checker'[t] # "done"
      BY <2>0, <3>1 DEF WaiterInv
    <3> QED
      BY <2>0, <3>1, <3>2, <3>3 DEF WaiterInv, NoStrandedWaiter
  <2>21. CASE \/ \E f \in Futures : StartWork(f) \/ EndWork(f) \/ CancelFuture(f)
              \/ \E e \in Executors : Break(e) \/ RunShutdown(e)
              \/ \E l \in Leases : Expire(l)
              \/ ChangeUnits \/ UNCHANGED vars
    <3>1. UNCHANGED <<started, stopping, bound, checkerTask, checker, cancelled, available, leased,
                      pc, availSet, availQueued, owed>>
      BY <2>21
         DEF StartWork, EndWork, CancelFuture, Break, RunShutdown, Expire, ChangeUnits, vars
    <3>2. scaleQueued => scaleQueued'
      BY <2>0, <2>21
         DEF StartWork, EndWork, CancelFuture, Break, RunShutdown, Expire, ChangeUnits, vars
    <3> QED
      BY <2>1, <2>3, <3>1, <3>2
  <2> QED
    BY <2>5, <2>6, <2>7, <2>8, <2>9, <2>10, <2>11, <2>12, <2>13, <2>14, <2>15, <2>16, <2>17, <2>18,
       <2>19, <2>20, <2>21 DEF Next, Call, Resume, CheckerStep
<1>3. WaiterInv => NoStrandedWaiter
  BY DEF WaiterInv
<1>4. Spec => []StoppedIsEmpty
  BY StoppedHolds
<1> QED
  BY <1>1, <1>2, <1>3, <1>4, TypeCorrect, PTL DEF Spec
=============================================================================
