------------------------- MODULE LeaseServiceProofs -------------------------
(***************************************************************************)
(* LeaseManager implements LeaseService, for every value of the constants: *)
(* with the mapping of LeaseManager, every step of the manager is a move   *)
(* of each executor that LeaseService allows.                              *)
(***************************************************************************)
EXTENDS LeaseManagerProofs

\* The lease the mapping gives an executor.
TenantName(e) == IF TenantOf(e) = {} THEN NoLease ELSE CHOOSE l \in TenantOf(e) : TRUE

\* What the mapping says of an executor, by its one owner; and of all, by max_pools.
PlacesKnown ==
    /\ \A e \in Executors :
        /\ e \in available => PlaceOf(e) = "idle" /\ TenantName(e) = NoLease
        /\ \A l \in leased : executor[l] = e =>
            /\ PlaceOf(e) = IF l \in releaseRequested THEN "draining" ELSE "leased"
            /\ TenantName(e) = l
        /\ e \in Doomed => PlaceOf(e) = "parting" /\ TenantName(e) = NoLease
        /\ e \notin Owned \cup Doomed => PlaceOf(e) = "none" /\ TenantName(e) = NoLease
    /\ Cardinality({e \in Executors : [x \in Executors |-> PlaceOf(x)][e] \in Service!Ours}) <= MaxPools

\* One owner per executor and at most max_pools of them: the mapping places each executor
\* where its owner has it.
LEMMA Places == TypeInv /\ OwnInv /\ CapacityBound => PlacesKnown
<1> SUFFICES ASSUME TypeInv, OwnInv, CapacityBound PROVE PlacesKnown
  OBVIOUS
<1>0. /\ available \in SUBSET Executors /\ leased \in SUBSET Leases /\ Held(leased) \in SUBSET Executors
      /\ \A l \in leased : executor[l] \in Executors /\ executor[l] \notin available \cup Doomed
      /\ \A k, l \in leased : executor[k] = executor[l] => k = l
      /\ available \cap Doomed = {}
  BY DEF TypeInv, TypeOK, OwnInv, OwnedOnce, Held
<1>1. ASSUME NEW e \in Executors, e \in available
      PROVE  PlaceOf(e) = "idle" /\ TenantName(e) = NoLease
  BY <1>0, <1>1 DEF PlaceOf, TenantName, TenantOf
<1>2. ASSUME NEW e \in Executors, NEW l \in leased, executor[l] = e
      PROVE  /\ PlaceOf(e) = IF l \in releaseRequested THEN "draining" ELSE "leased"
             /\ TenantName(e) = l
  <2>1. TenantOf(e) = {l} /\ e \notin available
    BY <1>0, <1>2 DEF TenantOf
  <2> QED
    BY <2>1 DEF PlaceOf, TenantName
<1>3. ASSUME NEW e \in Executors, e \in Doomed
      PROVE  PlaceOf(e) = "parting" /\ TenantName(e) = NoLease
  <2>1. TenantOf(e) = {} /\ e \notin available
    BY <1>0, <1>3 DEF TenantOf
  <2> QED
    BY <1>3, <2>1 DEF PlaceOf, TenantName
<1>4. ASSUME NEW e \in Executors, e \notin Owned \cup Doomed
      PROVE  PlaceOf(e) = "none" /\ TenantName(e) = NoLease
  <2>1. TenantOf(e) = {} /\ e \notin available
    BY <1>4 DEF TenantOf, Owned, Held
  <2> QED
    BY <1>4, <2>1 DEF PlaceOf, TenantName
<1>5. Cardinality({e \in Executors : [x \in Executors |-> PlaceOf(x)][e] \in Service!Ours}) <= MaxPools
  <2> DEFINE ours == {e \in Executors : [x \in Executors |-> PlaceOf(x)][e] \in Service!Ours}
  <2>1. ours \in SUBSET Owned
    BY <1>3, <1>4 DEF Service!Ours
  <2>2. Cardinality(Held(leased)) <= Cardinality(leased)
    <3>1. [l \in leased |-> executor[l]] \in Surjection(leased, Held(leased))
      BY DEF Surjection, Held
    <3> QED
      BY <1>0, <3>1, Sizes, FS_Surjection
  <2>3. Cardinality(Owned) <= Cardinality(available) + Cardinality(Held(leased))
    BY <1>0, UnionSize DEF Owned
  <2>4. Cardinality(ours) <= Cardinality(Owned)
    BY <1>0, <2>1, Sizes, FS_Subset DEF Owned
  <2>5. /\ Cardinality(available) \in Nat /\ Cardinality(leased) \in Nat
        /\ Cardinality(Held(leased)) \in Nat /\ Cardinality(Owned) \in Nat
        /\ Cardinality(ours) \in Nat /\ MaxPools \in Nat
    BY <1>0, Sizes, PoolAssumption DEF Owned
  <2> HIDE DEF ours
  <2> QED
    BY <2>2, <2>3, <2>4, <2>5 DEF CapacityBound, ours
<1> QED
  BY <1>1, <1>2, <1>3, <1>4, <1>5 DEF PlacesKnown

\* A step that leaves an executor where it is and puts no work on it.
LEMMA StaysPut ==
    ASSUME NEW e \in Executors, PlaceOf(e)' = PlaceOf(e), TenantName(e)' = TenantName(e),
           e \in AtWork' => e \in AtWork
    PROVE  Service!Move(e)
BY DEF Service!Move, Service!End, Service!Goes, TenantName

\* Executors moved by leases that leave, by the target size or by stop.
LEMMA CarriedMove ==
    ASSUME TypeInv, OwnInv, WorkIsOwners, PlacesKnown, PlacesKnown',
           NEW gone, NEW back, NEW idle, NEW made, NEW debts, NEW down, NEW called,
           Carries(gone, back, idle, made, debts, down, called),
           NEW e \in Executors
    PROVE  Service!Move(e)
<1>0. /\ \A l \in leased : executor[l] \in Executors /\ executor[l] \notin available \cup Doomed
      /\ \A k, l \in leased : executor[k] = executor[l] => k = l
      /\ available \cap Doomed = {}
      /\ \A x \in Owned \cup Doomed : status[x] # "down"
      /\ gone \subseteq leased
  BY DEF TypeInv, TypeOK, OwnInv, OwnedOnce, Carries, Moves
<1>1. \A x \in made : /\ x \notin available /\ x \notin Doomed /\ x \notin AtWork
                     /\ \A l \in leased : executor[l] # x
  BY <1>0 DEF Carries, Moves, Fresh, AtWork, Owned, Held
<1>2. e \in AtWork' => e \in AtWork
  <2> SUFFICES ASSUME NEW f \in Futures, Busy(f)', future'[f].executor = e
               PROVE  Busy(f) /\ future[f].executor = e
    BY DEF AtWork, Busy
  <2> QED
    BY DEF Carries, FutureAfter, NoWork, Busy, TypeInv, TypeOK
<1>3. Doomed' = Doomed \cup debts
  BY DEF Carries, Moves, Doomed
<1>4. back \cup debts \subseteq Held(gone) /\ idle \subseteq available \cup made
  BY DEF Carries, Moves
<1>5. e \in available' <=> (e \in available \cup back \cup made) /\ e \notin idle
  BY DEF Carries, Moves
<1>6. ASSUME NEW l \in leased, executor[l] = e, l \notin gone PROVE Service!Move(e)
  <2>1. l \in leased' /\ executor'[l] = e /\ (l \in releaseRequested' <=> l \in releaseRequested)
    BY <1>6 DEF Carries, Moves
  <2>2. PlaceOf(e)' = PlaceOf(e) /\ TenantName(e)' = TenantName(e)
    BY <1>6, <2>1 DEF PlacesKnown
  <2> QED
    BY <1>2, <2>2, StaysPut
<1>7. ASSUME NEW l \in gone, executor[l] = e PROVE Service!Move(e)
  <2>1. PlaceOf(e) \in Service!Let
    BY <1>0, <1>7 DEF PlacesKnown, Service!Let
  <2>2. e \notin available \cup made \cup Doomed
    BY <1>0, <1>1, <1>7
  <2>3. \A k \in leased' : executor'[k] # e
    BY <1>0, <1>7 DEF Carries, Moves
  <2>4. CASE e \in back
    <3>1. e \in available'
      BY <1>4, <1>5, <2>2, <2>4
    <3>2. e \notin AtWork
      BY <2>4, BackIsFree DEF AtWork, Busy
    <3>3. Service!Return(e)
      BY <1>2, <2>1, <3>1, <3>2 DEF PlacesKnown, Service!Return, Service!Goes, TenantName
    <3> QED
      BY <3>3 DEF Service!Move
  <2>5. CASE e \in debts
    <3>1. e \in Doomed'
      BY <1>3, <2>5
    <3>2. Service!Part(e)
      BY <1>2, <2>1, <3>1 DEF PlacesKnown, Service!Part, Service!Goes, TenantName
    <3> QED
      BY <3>2 DEF Service!Move
  <2>6. CASE e \notin back \cup debts
    <3>1. e \notin (Owned \cup Doomed)'
      BY <1>3, <1>5, <2>2, <2>3, <2>6 DEF Owned, Held
    <3>2. Service!Close(e)
      BY <1>2, <2>1, <3>1
         DEF PlacesKnown, Service!Close, Service!Goes, Service!Let, Service!Ours, TenantName
    <3> QED
      BY <3>2 DEF Service!Move
  <2> QED
    BY <2>4, <2>5, <2>6
<1>8. ASSUME e \notin Held(leased) PROVE Service!Move(e)
  <2>1. e \notin Held(gone) /\ e \notin Held(leased)' /\ e \notin back \cup debts
    BY <1>0, <1>4, <1>8 DEF Held, Carries, Moves
  <2>2. CASE e \in available /\ e \notin idle
    <3>1. PlaceOf(e)' = PlaceOf(e) /\ TenantName(e)' = TenantName(e)
      BY <1>5, <2>2 DEF PlacesKnown
    <3> QED
      BY <1>2, <3>1, StaysPut
  <2>3. CASE e \in available /\ e \in idle
    <3>1. e \notin (Owned \cup Doomed)'
      BY <1>0, <1>3, <1>5, <2>1, <2>3 DEF Owned
    <3>2. Service!Close(e)
      BY <1>2, <2>3, <3>1 DEF PlacesKnown, Service!Close, Service!Goes, Service!Ours, TenantName
    <3> QED
      BY <3>2 DEF Service!Move
  <2>4. CASE e \in made /\ e \notin idle
    <3>1. PlaceOf(e) = "none" /\ e \notin AtWork
      BY <1>1, <1>8, <2>4 DEF PlacesKnown, Owned
    <3>2. PlaceOf(e)' = "idle" /\ TenantName(e)' = NoLease
      BY <1>5, <2>4 DEF PlacesKnown
    <3>3. Service!RoomKept
      BY DEF PlacesKnown, Service!RoomKept, Service!Ours, Service!Cardinality, Cardinality
    <3>4. Service!Build(e)
      BY <1>2, <3>1, <3>2, <3>3 DEF Service!Build, Service!Goes, TenantName
    <3> QED
      BY <3>4 DEF Service!Move
  <2>5. CASE e \notin available /\ (e \notin made \/ e \in idle)
    <3>1. e \notin Owned /\ e \notin Owned' /\ (e \in Doomed' <=> e \in Doomed)
      BY <1>3, <1>5, <1>8, <2>1, <2>5 DEF Owned
    <3>2. PlaceOf(e)' = PlaceOf(e) /\ TenantName(e)' = TenantName(e)
      BY <3>1 DEF PlacesKnown
    <3> QED
      BY <1>2, <3>2, StaysPut
  <2> QED
    BY <2>2, <2>3, <2>4, <2>5
<1> QED
  BY <1>6, <1>7, <1>8 DEF Held

\* acquire closes what it revokes and gives one free executor to one new lease.
LEMMA GrantMove ==
    ASSUME TypeInv, OwnInv, WorkIsOwners, PlacesKnown, PlacesKnown',
           NEW c \in Clients, AcquireGrant(c), NEW e \in Executors
    PROVE  Service!Move(e)
<1>0. /\ \A l \in leased : executor[l] \in Executors /\ executor[l] \notin available \cup Doomed
      /\ \A k, l \in leased : executor[k] = executor[l] => k = l
      /\ available \cap Doomed = {}
      /\ \A x \in Owned \cup Doomed : status[x] # "down"
      /\ expired \subseteq leased /\ leased \subseteq Leases /\ releaseRequested \subseteq leased
  BY DEF TypeInv, TypeOK, OwnInv, OwnedOnce
<1>1. PICK made \in SUBSET Fresh, l \in Leases \ leased :
        /\ \E d \in available \cup made :
            /\ available' = (available \cup made) \ {d}
            /\ executor' = [k \in Leases |-> IF k = l THEN d
                                             ELSE IF k \in expired THEN NoExecutor ELSE executor[k]]
        /\ leased' = (leased \ expired) \cup {l}
        /\ releaseRequested' = releaseRequested \ expired
  BY DEF AcquireGrant
<1>2. PICK d \in available \cup made :
        /\ available' = (available \cup made) \ {d}
        /\ executor' = [k \in Leases |-> IF k = l THEN d
                                         ELSE IF k \in expired THEN NoExecutor ELSE executor[k]]
  BY <1>1
<1>3. /\ executor'[l] = d
      /\ \A k \in leased \ expired : executor'[k] = executor[k]
      /\ l \in leased' /\ l \notin releaseRequested'
  BY <1>0, <1>1, <1>2
<1>4. \A x \in made : /\ x \notin available /\ x \notin Doomed /\ x \notin AtWork
                     /\ \A k \in leased : executor[k] # x
  BY <1>0 DEF Fresh, AtWork, Owned, Held
<1>5. e \in AtWork' => e \in AtWork
  <2> SUFFICES ASSUME NEW f \in Futures, Busy(f)', future'[f].executor = e
               PROVE  Busy(f) /\ future[f].executor = e
    BY DEF AtWork, Busy
  <2> QED
    BY DEF AcquireGrant, FutureAfter, NoWork, Busy, TypeInv, TypeOK
<1>6. Doomed' = Doomed
  BY DEF AcquireGrant, Doomed
<1>7. CASE e = d
  <2>1. PlaceOf(e) \in {"none", "idle"}
    BY <1>2, <1>4, <1>7 DEF PlacesKnown, Owned, Held
  <2>2. e \notin AtWork
    BY <1>2, <1>4, <1>7 DEF AtWork, WorkIsOwners
  <2>3. PlaceOf(e)' = "leased" /\ TenantName(e)' = l
    BY <1>3, <1>7 DEF PlacesKnown
  <2>4. \A x \in Executors : TenantName(x) # l
    BY <1>0, <1>1, NoneAssumption DEF PlacesKnown, Owned, Held
  <2>5. Service!RoomKept
    BY DEF PlacesKnown, Service!RoomKept, Service!Ours, Service!Cardinality, Cardinality
  <2>6. Service!Grant(e)
    BY <1>5, <2>1, <2>2, <2>3, <2>4, <2>5 DEF Service!Grant, Service!Goes, TenantName
  <2> QED
    BY <2>6 DEF Service!Move
<1>8. CASE e # d
  <2>1. ASSUME NEW k \in leased \ expired, executor[k] = e PROVE Service!Move(e)
    <3>1. k \in leased' /\ executor'[k] = e /\ (k \in releaseRequested' <=> k \in releaseRequested)
      BY <1>1, <1>3, <2>1
    <3>2. PlaceOf(e)' = PlaceOf(e) /\ TenantName(e)' = TenantName(e)
      BY <2>1, <3>1 DEF PlacesKnown
    <3> QED
      BY <1>5, <3>2, StaysPut
  <2>2. ASSUME NEW k \in expired, executor[k] = e PROVE Service!Move(e)
    <3>1. PlaceOf(e) \in Service!Let
      BY <1>0, <2>2 DEF PlacesKnown, Service!Let
    <3>2. e \notin available \cup made \cup Doomed
      BY <1>0, <1>4, <2>2
    <3>3. e \notin (Owned \cup Doomed)'
      BY <1>0, <1>1, <1>2, <1>3, <1>6, <1>8, <2>2, <3>2 DEF Owned, Held
    <3>4. Service!Close(e)
      BY <1>5, <3>1, <3>3
         DEF PlacesKnown, Service!Close, Service!Goes, Service!Let, Service!Ours, TenantName
    <3> QED
      BY <3>4 DEF Service!Move
  <2>3. ASSUME e \notin Held(leased) PROVE Service!Move(e)
    <3>1. e \notin Held(leased)' /\ (e \in available' <=> e \in available \cup made)
      BY <1>1, <1>2, <1>3, <1>8, <2>3 DEF Held
    <3>2. CASE e \in made
      <4>1. PlaceOf(e) = "none" /\ e \notin AtWork
        BY <1>4, <2>3, <3>2 DEF PlacesKnown, Owned
      <4>2. PlaceOf(e)' = "idle" /\ TenantName(e)' = NoLease
        BY <3>1, <3>2 DEF PlacesKnown
      <4>3. Service!RoomKept
        BY DEF PlacesKnown, Service!RoomKept, Service!Ours, Service!Cardinality, Cardinality
      <4>4. Service!Build(e)
        BY <1>5, <4>1, <4>2, <4>3 DEF Service!Build, Service!Goes, TenantName
      <4> QED
        BY <4>4 DEF Service!Move
    <3>3. CASE e \notin made
      <4>1. PlaceOf(e)' = PlaceOf(e) /\ TenantName(e)' = TenantName(e)
        BY <1>6, <2>3, <3>1, <3>3 DEF PlacesKnown, Owned
      <4> QED
        BY <1>5, <4>1, StaysPut
    <3> QED
      BY <3>2, <3>3
  <2> QED
    BY <2>1, <2>2, <2>3 DEF Held
<1> QED
  BY <1>7, <1>8

\* Every step of the manager moves each executor as LeaseService allows, or leaves it.
THEOREM LeaseServiceImplemented == Spec => ImplementsService
<1>1. Init => Service!Init
  BY DEF Init, Service!Init, PlaceOf, TenantOf, Doomed, AtWork, NoWork
<1>2. (TypeInv /\ OwnInv /\ CapacityBound => PlacesKnown)'
  BY Places, PTL
<1>3. /\ TypeInv /\ OwnInv /\ WorkIsOwners /\ CapacityBound
      /\ TypeInv' /\ OwnInv' /\ CapacityBound'
      /\ [Next]_vars
      => [Service!Next]_(Service!vars)
  <2> SUFFICES ASSUME TypeInv, OwnInv, WorkIsOwners, PlacesKnown, PlacesKnown', [Next]_vars,
                      NEW e \in Executors
               PROVE  Service!Move(e)
    BY <1>2, Places DEF Service!Next
  <2>0. /\ \A k, l \in leased : executor[k] = executor[l] => k = l
        /\ DOMAIN future = Futures
    BY DEF OwnInv, OwnedOnce, TypeInv, TypeOK
  <2>1. ASSUME NEW gone, NEW back, NEW idle, NEW made, NEW debts, NEW down, NEW called,
               Carries(gone, back, idle, made, debts, down, called)
        PROVE  Service!Move(e)
    BY <2>1, CarriedMove
  <2>2. CASE \E c \in Clients : AcquireGrant(c)
    BY <2>2, GrantMove
  <2>3. ASSUME UNCHANGED <<available, leased, executor, releaseRequested>>, Doomed' = Doomed
        PROVE  PlaceOf(e)' = PlaceOf(e) /\ TenantName(e)' = TenantName(e)
    <3>1. TenantOf(e)' = TenantOf(e)
      BY <2>3 DEF TenantOf
    <3> QED
      BY <2>3, <3>1 DEF PlaceOf, TenantName
  <2>4. ASSUME NEW l \in leased, NEW f \in Futures, Enqueues(l, f) PROVE Service!Move(e)
    <3>1. PlaceOf(e)' = PlaceOf(e) /\ TenantName(e)' = TenantName(e)
      BY <2>3, <2>4 DEF Enqueues, Doomed
    <3>2. \A g \in Futures : /\ g # f => future'[g] = future[g]
                             /\ future'[f].executor = executor[l]
                             /\ future'[f].state = "queued"
      BY <2>0, <2>4 DEF Enqueues
    <3>3. CASE e = executor[l]
      <4>1. PlaceOf(e) = "leased"
        BY <2>4, <3>3 DEF Enqueues, PlacesKnown
      <4>2. e \in AtWork'
        BY <3>2, <3>3 DEF AtWork
      <4>3. Service!Use(e)
        BY <3>1, <4>1, <4>2 DEF Service!Use, TenantName
      <4> QED
        BY <4>3 DEF Service!Move
    <3>4. CASE e # executor[l]
      <4>1. e \in AtWork' => e \in AtWork
        BY <3>2, <3>4 DEF AtWork
      <4> QED
        BY <3>1, <4>1, StaysPut
    <3> QED
      BY <3>3, <3>4
  <2>5. ASSUME NEW l \in leased, Drains(l) PROVE Service!Move(e)
    <3>1. UNCHANGED <<available, leased, executor, future>> /\ Doomed' = Doomed
      BY <2>5 DEF Drains, Doomed
    <3>2. e \in AtWork' => e \in AtWork
      BY <3>1 DEF AtWork
    <3>3. TenantOf(e)' = TenantOf(e) /\ TenantName(e)' = TenantName(e)
      BY <3>1 DEF TenantOf, TenantName
    <3>4. CASE e = executor[l]
      <4>1. PlaceOf(e)' = "draining"
        BY <2>5, <3>1, <3>4 DEF Drains, PlacesKnown
      <4>2. CASE l \in releaseRequested
        BY <2>5, <3>2, <3>3, <3>4, <4>1, <4>2, StaysPut DEF PlacesKnown
      <4>3. CASE l \notin releaseRequested
        <5>1. PlaceOf(e) = "leased"
          BY <2>5, <3>4, <4>3 DEF PlacesKnown
        <5>2. Service!Release(e)
          BY <3>2, <3>3, <4>1, <5>1 DEF Service!Release, Service!Goes, TenantName
        <5> QED
          BY <5>2 DEF Service!Move
      <4> QED
        BY <4>2, <4>3
    <3>5. CASE e # executor[l]
      <4>1. TenantOf(e) \subseteq releaseRequested' <=> TenantOf(e) \subseteq releaseRequested
        BY <2>5, <3>5 DEF Drains, TenantOf
      <4>2. PlaceOf(e)' = PlaceOf(e)
        BY <3>1, <3>3, <4>1 DEF PlaceOf
      <4> QED
        BY <3>2, <3>3, <4>2, StaysPut
    <3> QED
      BY <3>4, <3>5
  <2>6. ASSUME NEW f \in Futures, Unhooks(f) PROVE Service!Move(e)
    <3>1. PlaceOf(e)' = PlaceOf(e) /\ TenantName(e)' = TenantName(e)
      BY <2>3, <2>6 DEF Unhooks, Doomed
    <3>2. \A g \in Futures : future'[g] = IF g = f THEN NoWork ELSE future[g]
      BY <2>0, <2>6 DEF Unhooks
    <3>3. e \in AtWork' => e \in AtWork
      BY <3>2 DEF AtWork, NoWork
    <3> QED
      BY <3>1, <3>3, StaysPut
  <2>7. ASSUME NEW d \in Executors, RunShutdown(d) PROVE Service!Move(e)
    <3>1. /\ UNCHANGED <<available, leased, executor, releaseRequested, owed>>
          /\ d \in Doomed /\ Doomed' = Doomed \ {d}
      BY <2>7 DEF RunShutdown, Doomed, OwnInv, leaseVars
    <3>2. e \in AtWork' => e \in AtWork
      <4>1. \A f \in Futures : future'[f] = NoWork \/ future'[f] = future[f]
        BY <2>7 DEF RunShutdown, FutureAfter
      <4> QED
        BY <4>1 DEF AtWork, NoWork
    <3>3. CASE e = d
      <4>1. PlaceOf(e) = "parting"
        BY <3>1, <3>3 DEF PlacesKnown
      <4>2. e \notin (Owned \cup Doomed)'
        BY <3>1, <3>3 DEF Owned, Held, OwnInv, OwnedOnce
      <4>3. Service!Close(e)
        BY <3>2, <4>1, <4>2 DEF PlacesKnown, Service!Close, Service!Goes, TenantName
      <4> QED
        BY <4>3 DEF Service!Move
    <3>4. CASE e # d
      <4>1. TenantOf(e)' = TenantOf(e) /\ (e \in Doomed' <=> e \in Doomed)
        BY <3>1, <3>4 DEF TenantOf
      <4>2. PlaceOf(e)' = PlaceOf(e) /\ TenantName(e)' = TenantName(e)
        BY <3>1, <4>1 DEF PlaceOf, TenantName
      <4> QED
        BY <3>2, <4>2, StaysPut
    <3> QED
      BY <3>3, <3>4
  <2>8. ASSUME NEW debt \in Executors \cup {NoExecutor}, Settle(debt) PROVE Service!Move(e)
    <3>1. Doomed' = Doomed /\ UNCHANGED <<available, leased, executor, releaseRequested, future>>
      BY <2>8, NoneAssumption DEF Settle, Defers, Doomed, leaseVars, TypeInv, TypeOK
    <3>2. PlaceOf(e)' = PlaceOf(e) /\ TenantName(e)' = TenantName(e)
      BY <2>3, <3>1
    <3>3. e \in AtWork' => e \in AtWork
      BY <3>1 DEF AtWork
    <3> QED
      BY <3>2, <3>3, StaysPut
  <2>9. CASE Runs
    <3>1. PlaceOf(e)' = PlaceOf(e) /\ TenantName(e)' = TenantName(e)
      BY <2>3, <2>9 DEF Runs, Doomed
    <3>2. e \in AtWork' => e \in AtWork
      BY <2>9 DEF Runs, AtWork, Busy
    <3> QED
      BY <3>1, <3>2, StaysPut
  <2> QED
    BY <2>1, <2>2, <2>4, <2>5, <2>6, <2>7, <2>8, <2>9, StepCases
<1> QED
  BY <1>1, <1>3, TypeCorrect, OwnCorrect, WorkIsolated, CapacityHolds, PTL
     DEF Spec, ImplementsService, Service!Spec
=============================================================================
