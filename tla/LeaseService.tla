---------------------------- MODULE LeaseService ----------------------------
(***************************************************************************)
(* What a LeasedExecutorManager promises the callers of acquire, submit    *)
(* and release (concepts.rst), without the lock, the checker, the events,  *)
(* the expiries or the target size: what may become of one executor,       *)
(* whatever the others do.  Several executors may move in one step, each   *)
(* by a move of its own.                                                   *)
(***************************************************************************)
EXTENDS Naturals, FiniteSets

CONSTANTS Executors, Leases, MaxPools, NoLease

VARIABLES
    place,      \* per executor: none, idle, leased, draining or parting (given up)
    tenant,     \* per executor: the lease that has it
    busy        \* executors with work queued or running

vars == <<place, tenant, busy>>

Ours == {"idle", "leased", "draining"}
Let  == {"leased", "draining"}

Init ==
    /\ place = [e \in Executors |-> "none"]
    /\ tenant = [e \in Executors |-> NoLease]
    /\ busy = {}

\* An executor gets a place and a tenant there; its work can only have become less.
Goes(e, places, tenants) ==
    /\ place'[e] \in places /\ tenant'[e] \in tenants
    /\ e \in busy' => e \in busy

\* Never more than max_pools, whoever builds another one.
RoomKept == Cardinality({d \in Executors : place'[d] \in Ours}) <= MaxPools

\* The work ends, or is cancelled, or nothing happens.
End(e) == Goes(e, {place[e]}, {tenant[e]})

\* An executor is built, or leased to one new lease: no work of anybody is on it.
Build(e) == place[e] = "none" /\ e \notin busy /\ Goes(e, {"idle"}, {NoLease}) /\ RoomKept
Grant(e) ==
    /\ place[e] \in {"none", "idle"} /\ e \notin busy
    /\ Goes(e, {"leased"}, Leases \ {tenant[d] : d \in Executors})
    /\ RoomKept

\* Its tenant uses it, and nobody else, and not after the release.
Use(e) ==
    /\ place[e] = "leased" /\ e \in busy'
    /\ place'[e] = "leased" /\ tenant'[e] = tenant[e]

\* The tenant releases it: it goes back when its work is over, and drains until then.
Release(e) == place[e] = "leased" /\ Goes(e, {"draining"}, {tenant[e]})
Return(e)  == place[e] \in Let /\ e \notin busy /\ Goes(e, {"idle"}, {NoLease})

\* It is given up: revoked, broken, not needed, stopped. It does not come back.
Part(e)  == place[e] \in Let /\ Goes(e, {"parting"}, {NoLease})
Close(e) == place[e] \in Ours \cup {"parting"} /\ Goes(e, {"none"}, {NoLease})

Move(e) ==
    \/ End(e) \/ Build(e) \/ Grant(e) \/ Use(e)
    \/ Release(e) \/ Return(e) \/ Part(e) \/ Close(e)

Next == \A e \in Executors : Move(e)

Spec == Init /\ [][Next]_vars
=============================================================================
