-------------------------- MODULE WorkGrinderProofs --------------------------
(***************************************************************************)
(* Theorems of WorkGrinder, for any items, stoppers, threshold and choice  *)
(* of the other constants.  The inductive invariant says where an item is: *)
(* on its way in, pending, or in the batch, in one of them at most, and    *)
(* what its future and its function can be there; and what a loop that     *)
(* sleeps or has ended knows of the pending items and of stop().           *)
(***************************************************************************)
EXTENDS WorkGrinder, FiniteSetTheorems, TLAPS

\* Where an item is, and what has become of it there.
Placed ==
    /\ \A i \in Items : outcome[i] = "none" => i \notin entering \cup pending \cup batch
    /\ entering \cap (pending \cup batch) = {} /\ pending \cap batch = {}
    /\ \A i \in entering : outcome[i] = "open"
    /\ \A i \in pending \cup batch : outcome[i] \in {"open", "cancelled"}
    /\ \A i \in posted : outcome[i] = "none"
    /\ \A i \in removing : outcome[i] = "cancelled"
    /\ \A i \in Items : outcome[i] = "none" \/ i \in entering \cup pending => work[i] = "no"
    /\ loop = "leasing" => \A i \in batch : work[i] = "no"

\* The loop before it sleeps, with the lock in its hands, and asleep.
Resting ==
    loop \in {"arming", "timed", "waiting"} /\ ~cancelling =>
        /\ IF loop = "waiting" THEN pending = {}
                               ELSE pending # {} /\ Cardinality(pending) < Threshold
        /\ stopping => \A s \in Stoppers : stopAt[s] # "awaiting"

\* What stop() and the loop know of each other; the lock is free where wait_for does not
\* hand it over.
Agreed ==
    /\ Live => task
    /\ task => started
    /\ Live => \A s \in Stoppers : stopAt[s] = "awaiting" => stopping
    /\ task /\ loop = "returned" => stopping
    /\ ~handsOver => /\ lockQueue = <<>> /\ entering = {}
                     /\ loop \notin {"arming", "woken", "handing"}

IInv ==
    TypeOK /\ NothingForgotten /\ Placed /\ Resting /\ Agreed /\ ReturnsDrained

\* The locked section of stop(), entered at once or after a wait for the lock.
LEMMA SectionKept ==
  ASSUME IInv, NEW s \in Stoppers, NEW harshly \in BOOLEAN, StopSection(s, harshly), ~Held,
         harsh' \subseteq Stoppers, ~handsOver => lockQueue' = <<>>,
         UNCHANGED <<batch, removing, callerVars, work, handsOver>>
  PROVE  IInv'
<1> USE DEF IInv, TypeOK, NothingForgotten, Placed, Resting, Agreed, ReturnsDrained, Live, Ended,
            Waits, Working, Outcomes, callerVars, StopSection, Raises, Drop, Resolved, Notify,
            Asleep, Woken, Held
<1>1. loop' \in Ended \cup Waits \cup Working \cup {"ready", "crashing"} /\ (Live' <=> Live)
  OBVIOUS
<1>2. /\ started' \in BOOLEAN /\ stopping' \in BOOLEAN /\ task' \in BOOLEAN
      /\ (task' => started') /\ (Live => task' /\ stopping') /\ (task' => Live)
  <2>1. CASE Live
    <3>1. stopping' = TRUE /\ UNCHANGED <<started, task>>
      BY <2>1
    <3> QED BY <2>1, <3>1
  <2>2. CASE ~Live
    <3>1. task' = FALSE /\ (started' = FALSE \/ started' = started) /\ stopping' \in BOOLEAN
      BY <2>2
    <3> QED BY <2>2, <3>1
  <2> QED BY <2>1, <2>2
<1>3. cancelling' \in BOOLEAN /\ stopAt' \in [Stoppers -> {"idle", "locking", "awaiting"}]
  OBVIOUS
<1>4. TypeOK'
  BY <1>1, <1>2, <1>3
<1>5. NothingForgotten' /\ Placed'
  OBVIOUS
<1>6. Resting'
  OBVIOUS
<1>7. Agreed' /\ ReturnsDrained'
  BY <1>1, <1>2
<1> QED BY <1>4, <1>5, <1>6, <1>7

\* The invariant holds throughout: of the first state, and by every action of every other.
THEOREM IInvHolds == Spec => []IInv
<1>1. Init => IInv
  BY GrinderAssumption
     DEF Init, IInv, TypeOK, NothingForgotten, Placed, Resting, Agreed, ReturnsDrained, Live,
         Ended, Waits, Working, Outcomes, WorkOver
<1>2. IInv /\ [Next]_vars => IInv'
  <2> SUFFICES ASSUME IInv, [Next]_vars PROVE IInv'
    OBVIOUS
  <2> USE GrinderAssumption
      DEF IInv, TypeOK, NothingForgotten, Placed, Resting, Agreed, ReturnsDrained,
          Live, Ended, Waits, Working, Outcomes, WorkOver,
          grinderVars, loopVars, queueVars, callerVars, stopVars
  <2>1. ASSUME Start PROVE IInv'
    BY <2>1 DEF Start
  <2>2. ASSUME NEW s \in Stoppers, NEW harshly \in BOOLEAN, StopCall(s, harshly) PROVE IInv'
    <3>1. CASE /\ Enters(<<"stop", s>>) /\ StopSection(s, harshly)
               /\ UNCHANGED <<batch, removing, callerVars, work, handsOver>>
      BY <2>2, <3>1, SectionKept DEF StopCall, Enters
    <3>2. CASE /\ Queues(<<"stop", s>>) /\ stopping' = TRUE
               /\ stopAt' = [stopAt EXCEPT ![s] = "locking"]
               /\ UNCHANGED <<started, task, pending, ripe, outcome, loop, cancelling>>
               /\ UNCHANGED <<batch, removing, callerVars, work, handsOver>>
      BY <2>2, <3>2 DEF StopCall, Queues, Held
    <3> QED BY <2>2, <3>1, <3>2 DEF StopCall
  <2>3. ASSUME NEW s \in Stoppers, StopResumes(s) PROVE IInv'
    <3>1. /\ StopSection(s, s \in harsh) /\ ~Held /\ (~handsOver => lockQueue' = <<>>)
          /\ UNCHANGED <<batch, removing, callerVars, work, harsh, handsOver>>
      BY <2>3 DEF StopResumes, Enters
    <3>2. harsh' \subseteq Stoppers
      BY <3>1
    <3>3. CASE s \in harsh
      <4>1. StopSection(s, TRUE)
        BY <3>1, <3>3 DEF StopSection, Raises, Drop
      <4> QED BY <3>1, <3>2, <4>1, SectionKept
    <3>4. CASE s \notin harsh
      <4>1. StopSection(s, FALSE)
        BY <3>1, <3>4 DEF StopSection, Raises, Drop
      <4> QED BY <3>1, <3>2, <4>1, SectionKept
    <3> QED BY <3>3, <3>4
  <2>4. ASSUME NEW s \in Stoppers, StopInterrupted(s) PROVE IInv'
    <3> USE <2>4 DEF StopInterrupted, StopOver, LeavesQueue, IsQueued
    <3>1. TypeOK'
      OBVIOUS
    <3>2. NothingForgotten'
      OBVIOUS
    <3>3. Placed'
      OBVIOUS
    <3>4. Resting'
      OBVIOUS
    <3>5. Agreed'
      OBVIOUS
    <3>6. ReturnsDrained'
      OBVIOUS
    <3> QED BY <3>1, <3>2, <3>3, <3>4, <3>5, <3>6
  <2>5. ASSUME NEW s \in Stoppers, StopReturns(s) PROVE IInv'
    BY <2>5 DEF StopReturns, StopOver, Raises
  <2>6. ASSUME NEW i \in Items, Enqueue(i) PROVE IInv'
    BY <2>6 DEF Enqueue, Admits, Put, Notify, Asleep, Woken, Enters, Queues, Held
  <2>7. ASSUME NEW i \in Items, EnqueueResumes(i) PROVE IInv'
    BY <2>7 DEF EnqueueResumes, Put, Notify, Asleep, Woken, Enters, Queues, Held
  <2>8. ASSUME NEW i \in Items, Post(i) PROVE IInv'
    BY <2>8 DEF Post, Admits
  <2>9. ASSUME NEW i \in Items, PostRefused(i) PROVE IInv'
    BY <2>9 DEF PostRefused
  <2>10. ASSUME NEW i \in Items, CancelItem(i) PROVE IInv'
    BY <2>10 DEF CancelItem, LeavesQueue, IsQueued
  <2>11. ASSUME NEW i \in Items, Remove(i) PROVE IInv'
    <3> USE <2>11 DEF Remove, Drop, Notify, Asleep, Woken, IsQueued, Enters, Queues, Held
    <3>1. TypeOK'
      OBVIOUS
    <3>2. NothingForgotten'
      OBVIOUS
    <3>3. Placed'
      OBVIOUS
    <3>4. Resting'
      <4>1. CASE i \in pending /\ Notify /\ ~Held /\ UNCHANGED cancelling
        <5>1. cancelling' \/ loop' \notin {"arming", "timed", "waiting"}
          BY <4>1
        <5> QED BY <5>1
      <4>2. CASE UNCHANGED <<pending, loop>>
        <5>1. UNCHANGED <<cancelling, stopping, stopAt>>
          OBVIOUS
        <5>2. Resting
          OBVIOUS
        <5> QED BY ONLY <4>2, <5>1, <5>2 DEF Resting
      <4>3. i \notin pending => pending \ {i} = pending
        OBVIOUS
      <4> QED BY <4>1, <4>2, <4>3
    <3>5. Agreed'
      OBVIOUS
    <3>6. ReturnsDrained'
      OBVIOUS
    <3> QED BY <3>1, <3>2, <3>3, <3>4, <3>5, <3>6
  <2>12. ASSUME NEW i \in Items, Ripen(i) PROVE IInv'
    BY <2>12 DEF Ripen
  <2>13. ASSUME NEW i \in Items, BeginWork(i) PROVE IInv'
    BY <2>13 DEF BeginWork, Work
  <2>14. ASSUME NEW i \in Items, EndWork(i) PROVE IInv'
    BY <2>14 DEF EndWork, Work
  <2>15. ASSUME NEW i \in Items, LoseWork(i) PROVE IInv'
    BY <2>15 DEF LoseWork, Work
  <2>16. ASSUME TakeBatch PROVE IInv'
    <3> USE <2>16 DEF TakeBatch, Looks, LiveBatch, Due, Drop, Enters, Queues, Held
    <3>1. TypeOK'
      OBVIOUS
    <3>2. NothingForgotten'
      OBVIOUS
    <3>3. Placed'
      OBVIOUS
    <3>4. Resting'
      OBVIOUS
    <3>5. Agreed'
      OBVIOUS
    <3>6. ReturnsDrained'
      OBVIOUS
    <3> QED BY <3>1, <3>2, <3>3, <3>4, <3>5, <3>6
  <2>17. ASSUME Rest PROVE IInv'
    <3> USE <2>17 DEF Rest, Looks, Due, Enters, Queues, Held
    <3>1. TypeOK'
      OBVIOUS
    <3>2. NothingForgotten'
      OBVIOUS
    <3>3. Placed'
      OBVIOUS
    <3>4. Resting'
      <4>1. Cardinality(pending) \in Nat
        BY FS_Subset, FS_CardinalityType
      <4> QED BY <4>1
    <3>5. Agreed'
      OBVIOUS
    <3>6. ReturnsDrained'
      OBVIOUS
    <3> QED BY <3>1, <3>2, <3>3, <3>4, <3>5, <3>6
  <2>18. ASSUME LoopQueues PROVE IInv'
    BY <2>18 DEF LoopQueues, Enters, Queues, Held
  <2>19. ASSUME WaitForTask PROVE IInv'
    BY <2>19 DEF WaitForTask, Enters, Queues, Held
  <2>20. ASSUME Timer PROVE IInv'
    BY <2>20 DEF Timer, Woken
  <2>21. ASSUME LoopCancelled PROVE IInv'
    <3> USE <2>21 DEF LoopCancelled, LeavesQueue, IsQueued
    <3>1. TypeOK'
      OBVIOUS
    <3>2. NothingForgotten'
      OBVIOUS
    <3>3. Placed'
      OBVIOUS
    <3>4. Resting'
      OBVIOUS
    <3>5. Agreed'
      OBVIOUS
    <3>6. ReturnsDrained'
      OBVIOUS
    <3> QED BY <3>1, <3>2, <3>3, <3>4, <3>5, <3>6
  <2>22. ASSUME Crash PROVE IInv'
    <3> USE <2>22 DEF Crash, Drop, Resolved, Enters, Queues, Held
    <3>1. TypeOK'
      OBVIOUS
    <3>2. NothingForgotten'
      OBVIOUS
    <3>3. Placed'
      OBVIOUS
    <3>4. Resting'
      OBVIOUS
    <3>5. Agreed'
      OBVIOUS
    <3>6. ReturnsDrained'
      OBVIOUS
    <3> QED BY <3>1, <3>2, <3>3, <3>4, <3>5, <3>6
  <2>23. ASSUME Gathered PROVE IInv'
    BY <2>23 DEF Gathered, Answers, AfterRelease
  <2>24. ASSUME BatchCancelled PROVE IInv'
    <3> USE <2>24 DEF BatchCancelled, Resolved
    <3>1. TypeOK'
      OBVIOUS
    <3>2. NothingForgotten'
      OBVIOUS
    <3>3. Placed'
      OBVIOUS
    <3>4. Resting'
      OBVIOUS
    <3>5. Agreed'
      OBVIOUS
    <3>6. ReturnsDrained'
      OBVIOUS
    <3> QED BY <3>1, <3>2, <3>3, <3>4, <3>5, <3>6
  <2>25. ASSUME Leased PROVE IInv'
    <3> USE <2>25 DEF Leased, Unsent, Resolved, AfterRelease
    <3>1. TypeOK'
      OBVIOUS
    <3>2. NothingForgotten'
      OBVIOUS
    <3>3. Placed'
      OBVIOUS
    <3>4. Resting'
      OBVIOUS
    <3>5. Agreed'
      OBVIOUS
    <3>6. ReturnsDrained'
      OBVIOUS
    <3> QED BY <3>1, <3>2, <3>3, <3>4, <3>5, <3>6
  <2>26. ASSUME LeaseRefused PROVE IInv'
    BY <2>26 DEF LeaseRefused, Resolved
  <2>27. CASE UNCHANGED vars
    BY <2>27 DEF vars
  <2> QED
    BY <2>1, <2>2, <2>3, <2>4, <2>5, <2>6, <2>7, <2>8, <2>9, <2>10, <2>11, <2>12, <2>13,
       <2>14, <2>15, <2>16, <2>17, <2>18, <2>19, <2>20, <2>21, <2>22, <2>23, <2>24, <2>25,
       <2>26, <2>27 DEF Next, LoopStep, Manager
<1> QED BY <1>1, <1>2, PTL DEF Spec

-----------------------------------------------------------------------------
\* Every variable keeps its type (grinder.py, the fields of WorkGrinder and _GrinderItem).
THEOREM TypeOKHolds == Spec => []TypeOK
<1> QED BY IInvHolds, PTL DEF IInv

\* While its future is open, an item is on its way in, pending, or in the loop's batch:
\* whatever fails, nobody waits for an answer that no part of the grinder remembers.
THEOREM NothingForgottenHolds == Spec => []NothingForgotten
<1> QED BY IInvHolds, PTL DEF IInv

\* The loop (_wait_for_next_batch) does not sleep over a full batch, without a timeout
\* over any item, or under a stop() that awaits it.
THEOREM NobodySleepsOverWorkHolds == Spec => []NobodySleepsOverWork
<1>1. IInv => NobodySleepsOverWork
  BY DEF IInv, Resting, NobodySleepsOverWork, Asleep
<1> QED BY IInvHolds, <1>1, PTL

\* Where wait_for does not hand the lock over, a loop that ended of itself left nothing.
THEOREM ReturnsDrainedHolds == Spec => []ReturnsDrained
<1> QED BY IInvHolds, PTL DEF IInv

\* An item cancelled while it is pending is not in the batch then, and is taken into none:
\* it never runs (_take_live_batch_locked).
THEOREM CancelledPendingNeverRunsHolds == Spec => CancelledPendingNeverRuns
<1> SUFFICES ASSUME NEW i \in Items
             PROVE  Spec => [](i \in pending /\ outcome[i] = "cancelled" => [](work[i] = "no"))
  BY DEF CancelledPendingNeverRuns
<1> DEFINE Out == outcome[i] = "cancelled" /\ i \notin entering \cup batch /\ work[i] = "no"
<1>1. IInv /\ i \in pending /\ outcome[i] = "cancelled" => Out
  BY DEF IInv, Placed
<1>2. IInv /\ Out /\ [Next]_vars => Out'
  <2> SUFFICES ASSUME IInv, Out, [Next]_vars PROVE Out'
    OBVIOUS
  <2> USE DEF IInv, TypeOK, Placed, grinderVars, loopVars, queueVars, callerVars, stopVars
  <2>1. ASSUME Start PROVE Out'
    BY <2>1 DEF Start
  <2>2. ASSUME NEW s \in Stoppers, NEW harshly \in BOOLEAN, StopCall(s, harshly) PROVE Out'
    <3>1. CASE StopSection(s, harshly) /\ UNCHANGED <<batch, callerVars, work>>
      BY <3>1 DEF StopSection, Raises, Drop, Resolved
    <3>2. CASE UNCHANGED <<outcome, batch, callerVars, work>>
      BY <3>2
    <3> QED BY <2>2, <3>1, <3>2 DEF StopCall
  <2>3. ASSUME NEW s \in Stoppers, StopResumes(s) PROVE Out'
    BY <2>3 DEF StopResumes, StopSection, Raises, Drop, Resolved, Notify, Asleep, Woken, Enters,
       Queues, Held
  <2>4. ASSUME NEW s \in Stoppers, StopInterrupted(s) PROVE Out'
    BY <2>4 DEF StopInterrupted, StopOver, LeavesQueue, IsQueued
  <2>5. ASSUME NEW s \in Stoppers, StopReturns(s) PROVE Out'
    BY <2>5 DEF StopReturns, StopOver, Raises
  <2>6. ASSUME NEW k \in Items, Enqueue(k) PROVE Out'
    BY <2>6 DEF Enqueue, Admits, Put, Notify, Asleep, Woken, Enters, Queues, Held
  <2>7. ASSUME NEW k \in Items, EnqueueResumes(k) PROVE Out'
    BY <2>7 DEF EnqueueResumes, Put, Notify, Asleep, Woken, Enters, Queues, Held
  <2>8. ASSUME NEW k \in Items, Post(k) PROVE Out'
    BY <2>8 DEF Post, Admits
  <2>9. ASSUME NEW k \in Items, PostRefused(k) PROVE Out'
    BY <2>9 DEF PostRefused
  <2>10. ASSUME NEW k \in Items, CancelItem(k) PROVE Out'
    BY <2>10 DEF CancelItem, LeavesQueue, IsQueued
  <2>11. ASSUME NEW k \in Items, Remove(k) PROVE Out'
    BY <2>11 DEF Remove, Drop, Notify, Asleep, Woken, IsQueued, Enters, Queues, Held
  <2>12. ASSUME NEW k \in Items, Ripen(k) PROVE Out'
    BY <2>12 DEF Ripen
  <2>13. ASSUME NEW k \in Items, BeginWork(k) PROVE Out'
    BY <2>13 DEF BeginWork, Work
  <2>14. ASSUME NEW k \in Items, EndWork(k) PROVE Out'
    BY <2>14 DEF EndWork, Work
  <2>15. ASSUME NEW k \in Items, LoseWork(k) PROVE Out'
    BY <2>15 DEF LoseWork, Work
  <2>16. ASSUME TakeBatch PROVE Out'
    BY <2>16 DEF TakeBatch, Looks, LiveBatch, Due, Drop, Enters, Queues, Held
  <2>17. ASSUME Rest PROVE Out'
    BY <2>17 DEF Rest, Looks, Due, Enters, Queues, Held
  <2>18. ASSUME LoopQueues PROVE Out'
    BY <2>18 DEF LoopQueues, Enters, Queues, Held
  <2>19. ASSUME WaitForTask PROVE Out'
    BY <2>19 DEF WaitForTask, Enters, Queues, Held
  <2>20. ASSUME Timer PROVE Out'
    BY <2>20 DEF Timer, Woken
  <2>21. ASSUME LoopCancelled PROVE Out'
    BY <2>21 DEF LoopCancelled, LeavesQueue, IsQueued
  <2>22. ASSUME Crash PROVE Out'
    BY <2>22 DEF Crash, Drop, Resolved, Enters, Queues, Held
  <2>23. ASSUME Gathered PROVE Out'
    BY <2>23 DEF Gathered, Answers, AfterRelease
  <2>24. ASSUME BatchCancelled PROVE Out'
    BY <2>24 DEF BatchCancelled, Resolved
  <2>25. ASSUME Leased PROVE Out'
    BY <2>25 DEF Leased, Unsent, Resolved, AfterRelease
  <2>26. ASSUME LeaseRefused PROVE Out'
    BY <2>26 DEF LeaseRefused, Resolved
  <2>27. CASE UNCHANGED vars
    BY <2>27 DEF vars
  <2> QED
    BY <2>1, <2>2, <2>3, <2>4, <2>5, <2>6, <2>7, <2>8, <2>9, <2>10, <2>11, <2>12, <2>13,
       <2>14, <2>15, <2>16, <2>17, <2>18, <2>19, <2>20, <2>21, <2>22, <2>23, <2>24, <2>25,
       <2>26, <2>27 DEF Next, LoopStep, Manager
<1>3. Out => work[i] = "no"
  OBVIOUS
<1> HIDE DEF Out
<1> QED BY IInvHolds, <1>1, <1>2, <1>3, PTL DEF Spec

\* Every step of the grinder moves each item as WorkService allows, or leaves it.
THEOREM ServiceImplemented == Spec => ImplementsService
<1> USE DEF Service!Move, Service!Accept, Service!Hand, Service!End, Service!Resolve, Service!Cancel
<1>1. Init => Service!Init
  BY DEF Init, Service!Init
<1>2. IInv /\ [Next]_vars => [Service!Next]_(Service!vars)
  <2> SUFFICES ASSUME IInv, [Next]_vars, NEW j \in Items PROVE Service!Move(j)
    BY DEF Service!Next
  <2> USE DEF IInv, TypeOK, Placed, grinderVars, loopVars, queueVars, callerVars, stopVars,
     Outcomes,
              WorkOver, Working, Ended, Waits
  <2>1. ASSUME Start PROVE Service!Move(j)
    BY <2>1 DEF Start
  <2>2. ASSUME NEW s \in Stoppers, NEW harshly \in BOOLEAN, StopCall(s, harshly) PROVE Service!Move(j)
    <3>1. CASE StopSection(s, harshly) /\ UNCHANGED <<batch, callerVars, work>>
      BY <3>1 DEF StopSection, Raises, Drop, Resolved
    <3>2. CASE UNCHANGED <<outcome, batch, callerVars, work>>
      BY <3>2
    <3> QED BY <2>2, <3>1, <3>2 DEF StopCall
  <2>3. ASSUME NEW s \in Stoppers, StopResumes(s) PROVE Service!Move(j)
    BY <2>3 DEF StopResumes, StopSection, Raises, Drop, Resolved, Notify, Asleep, Woken, Enters,
       Queues, Held
  <2>4. ASSUME NEW s \in Stoppers, StopInterrupted(s) PROVE Service!Move(j)
    BY <2>4 DEF StopInterrupted, StopOver, LeavesQueue, IsQueued
  <2>5. ASSUME NEW s \in Stoppers, StopReturns(s) PROVE Service!Move(j)
    BY <2>5 DEF StopReturns, StopOver, Raises
  <2>6. ASSUME NEW k \in Items, Enqueue(k) PROVE Service!Move(j)
    BY <2>6 DEF Enqueue, Admits, Put, Notify, Asleep, Woken, Enters, Queues, Held
  <2>7. ASSUME NEW k \in Items, EnqueueResumes(k) PROVE Service!Move(j)
    BY <2>7 DEF EnqueueResumes, Put, Notify, Asleep, Woken, Enters, Queues, Held
  <2>8. ASSUME NEW k \in Items, Post(k) PROVE Service!Move(j)
    BY <2>8 DEF Post, Admits
  <2>9. ASSUME NEW k \in Items, PostRefused(k) PROVE Service!Move(j)
    BY <2>9 DEF PostRefused
  <2>10. ASSUME NEW k \in Items, CancelItem(k) PROVE Service!Move(j)
    BY <2>10 DEF CancelItem, LeavesQueue, IsQueued
  <2>11. ASSUME NEW k \in Items, Remove(k) PROVE Service!Move(j)
    BY <2>11 DEF Remove, Drop, Notify, Asleep, Woken, IsQueued, Enters, Queues, Held
  <2>12. ASSUME NEW k \in Items, Ripen(k) PROVE Service!Move(j)
    BY <2>12 DEF Ripen
  <2>13. ASSUME NEW k \in Items, BeginWork(k) PROVE Service!Move(j)
    BY <2>13 DEF BeginWork, Work
  <2>14. ASSUME NEW k \in Items, EndWork(k) PROVE Service!Move(j)
    BY <2>14 DEF EndWork, Work
  <2>15. ASSUME NEW k \in Items, LoseWork(k) PROVE Service!Move(j)
    BY <2>15 DEF LoseWork, Work
  <2>16. ASSUME TakeBatch PROVE Service!Move(j)
    BY <2>16 DEF TakeBatch, Looks, LiveBatch, Due, Drop, Enters, Queues, Held
  <2>17. ASSUME Rest PROVE Service!Move(j)
    BY <2>17 DEF Rest, Looks, Due, Enters, Queues, Held
  <2>18. ASSUME LoopQueues PROVE Service!Move(j)
    BY <2>18 DEF LoopQueues, Enters, Queues, Held
  <2>19. ASSUME WaitForTask PROVE Service!Move(j)
    BY <2>19 DEF WaitForTask, Enters, Queues, Held
  <2>20. ASSUME Timer PROVE Service!Move(j)
    BY <2>20 DEF Timer, Woken
  <2>21. ASSUME LoopCancelled PROVE Service!Move(j)
    BY <2>21 DEF LoopCancelled, LeavesQueue, IsQueued
  <2>22. ASSUME Crash PROVE Service!Move(j)
    BY <2>22 DEF Crash, Drop, Resolved, Enters, Queues, Held
  <2>23. ASSUME Gathered PROVE Service!Move(j)
    BY <2>23 DEF Gathered, Answers, AfterRelease
  <2>24. ASSUME BatchCancelled PROVE Service!Move(j)
    BY <2>24 DEF BatchCancelled, Resolved
  <2>25. ASSUME Leased PROVE Service!Move(j)
    BY <2>25 DEF Leased, Unsent, Resolved, AfterRelease
  <2>26. ASSUME LeaseRefused PROVE Service!Move(j)
    BY <2>26 DEF LeaseRefused, Resolved
  <2>27. CASE UNCHANGED vars
    BY <2>27 DEF vars
  <2> QED
    BY <2>1, <2>2, <2>3, <2>4, <2>5, <2>6, <2>7, <2>8, <2>9, <2>10, <2>11, <2>12, <2>13,
       <2>14, <2>15, <2>16, <2>17, <2>18, <2>19, <2>20, <2>21, <2>22, <2>23, <2>24, <2>25,
       <2>26, <2>27 DEF Next, LoopStep, Manager
<1> QED BY IInvHolds, <1>1, <1>2, PTL DEF Spec, ImplementsService, Service!Spec

\* Whatever the loop, the batches, a stop() or a crash do: a caller of the grinder gets the
\* result of its own function, and no error for a function that succeeded or still runs.
THEOREM AnswersAreTrueHolds == Spec => []Service!AnswersAreTrue
<1> USE DEF Service!AnswersAreTrue
<1>1. Service!Init => Service!AnswersAreTrue
  BY DEF Service!Init
<1>2. Service!AnswersAreTrue /\ [Service!Next]_(Service!vars) => Service!AnswersAreTrue'
  <2> SUFFICES ASSUME Service!AnswersAreTrue, [Service!Next]_(Service!vars)
               PROVE  Service!AnswersAreTrue'
    OBVIOUS
  <2>1. CASE Service!Next
    BY <2>1 DEF Service!Next, Service!Move, Service!Accept, Service!Hand, Service!End,
                Service!Resolve, Service!Cancel
  <2>2. CASE UNCHANGED Service!vars
    BY <2>2 DEF Service!vars
  <2> QED BY <2>1, <2>2
<1> HIDE DEF Service!AnswersAreTrue
<1> QED BY ServiceImplemented, <1>1, <1>2, PTL DEF ImplementsService, Service!Spec

\* And it keeps it: no answer is replaced, and no function runs after an error or twice.
THEOREM AnswersAreFinalHolds == Spec => Service!AnswersAreFinal
<1>1. Service!AnswersAreTrue /\ [Service!Next]_(Service!vars)
        => [Service!KeepsAnswers]_(Service!vars)
  <2> SUFFICES ASSUME Service!AnswersAreTrue, Service!Next, NEW i \in Items
               PROVE  Service!KeepsAnswer(i)
    BY DEF Service!KeepsAnswers
  <2>1. Service!Move(i)
    BY DEF Service!Next
  <2> QED
    BY <2>1 DEF Service!AnswersAreTrue, Service!KeepsAnswer, Service!Move, Service!Accept,
                Service!Hand, Service!End, Service!Resolve, Service!Cancel
<1> QED BY ServiceImplemented, AnswersAreTrueHolds, <1>1, PTL
        DEF ImplementsService, Service!Spec, Service!AnswersAreFinal
=============================================================================
