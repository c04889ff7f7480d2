----------------------------- MODULE PolicyPush -----------------------------
(***************************************************************************)
(* How CachePolicy and CacheTenant resources reach the server's policy     *)
(* store: the informer caches that trail the API server, the two pushers   *)
(* of the ControlPlaneReconciler (watch-driven and periodic) that share    *)
(* pushMu, the POST and its fate, and the replace-on-write store.          *)
(*                                                                         *)
(* A resource is a record of PolicyResolve.  Each listing carries a        *)
(* history stamp: how many changes of its kind it reflects.                *)
(***************************************************************************)
EXTENDS PolicyResolve

CONSTANTS
  PolicyCR,      \* CachePolicies that may exist
  TenantCR,      \* CacheTenants that may exist
  MaxChanges,    \* bound: changes of each kind of resource
  MaxFaults,     \* bound: failed or abandoned pushes and restarts
  MaxRestarts    \* bound: restarts come among the first so many faults

Pusher == {"reconcile", "ticker"}
NoPusher == "none"

ASSUME ResourceAssumption ==
  /\ PolicyCR \cup TenantCR \subseteq Resource
  /\ \A cr \in PolicyCR : cr.key = cr.namespace /\ cr.value # NoValue
  /\ \A K \in {PolicyCR, TenantCR} : \A a, b \in K :
       Identity(a) # Identity(b) => (Before(a, b) <=> ~Before(b, a))
ASSUME LimitAssumption == MaxChanges \in Nat /\ MaxFaults \in Nat /\ MaxRestarts \in 0..MaxFaults

VARIABLES
  policies, tenants,             \* the API server's resources, with stamps
  cachedPolicies, cachedTenants, \* the manager's informer caches
  queued,                        \* a reconcile request waits in the work queue
  pc, listed,                    \* each pusher's place and what it has listed
  pushMu,                        \* the pusher inside pushSnapshot
  late,                          \* POSTs whose sender gave up
  store,                         \* the server's PolicyStore
  faults

clusterVars == <<policies, tenants>>
cacheVars == <<cachedPolicies, cachedTenants>>
vars == <<policies, tenants, cachedPolicies, cachedTenants, queued, pc, listed, pushMu, late,
          store, faults>>

NoList == [items |-> {}, stamp |-> 0]
NoSnapshot == [policies |-> NoList, tenants |-> NoList]

-----------------------------------------------------------------------------
(* Flattening resources into the store's shape.                            *)

(* What the store holds after a snapshot; empty keys are dropped.          *)
routable(f) == [k \in DOMAIN f \ {NoKey} |-> f[k].value]

ReplaceSnapshot(body) ==
  store' = [policies |-> routable(resolvePolicies(body.policies.items)),
            tenants |-> routable(resolveTenants(body.tenants.items)),
            stamps |-> <<body.policies.stamp, body.tenants.stamp>>]

-----------------------------------------------------------------------------
(* The API server and the informers.                                       *)

(* Creating or updating a resource, or deleting it.                        *)
Changed(kind, CR) ==
  {[items |-> {o \in kind.items : Identity(o) # Identity(cr)} \cup ({cr} \ kind.items),
    stamp |-> kind.stamp + 1] : cr \in CR}

ChangePolicies ==
  /\ policies.stamp < MaxChanges
  /\ policies' \in Changed(policies, PolicyCR)
  /\ UNCHANGED <<tenants, cacheVars, queued, pc, listed, pushMu, late, store, faults>>

ChangeTenants ==
  /\ tenants.stamp < MaxChanges
  /\ tenants' \in Changed(tenants, TenantCR)
  /\ UNCHANGED <<policies, cacheVars, queued, pc, listed, pushMu, late, store, faults>>

(* A watch event updates the cache and enqueues a reconcile.               *)
WatchPolicies ==
  /\ cachedPolicies # policies
  /\ cachedPolicies' = policies
  /\ queued' = TRUE
  /\ UNCHANGED <<clusterVars, cachedTenants, pc, listed, pushMu, late, store, faults>>

WatchTenants ==
  /\ cachedTenants # tenants
  /\ cachedTenants' = tenants
  /\ queued' = TRUE
  /\ UNCHANGED <<clusterVars, cachedPolicies, pc, listed, pushMu, late, store, faults>>

-----------------------------------------------------------------------------
(* pushSnapshot.                                                           *)

Reconcile ==
  /\ queued /\ pc["reconcile"] = "idle"
  /\ queued' = FALSE
  /\ pc' = [pc EXCEPT !["reconcile"] = "lock"]
  /\ UNCHANGED <<clusterVars, cacheVars, listed, pushMu, late, store, faults>>

(* Start: the initial push and the ticker's.                               *)
Start ==
  /\ pc["ticker"] = "idle"
  /\ pc' = [pc EXCEPT !["ticker"] = "lock"]
  /\ UNCHANGED <<clusterVars, cacheVars, queued, listed, pushMu, late, store, faults>>

(* Mutant: the two pushers do not exclude each other. *)
pushMuFree_Always == TRUE

pushMuFree == pushMu = NoPusher

Lock(w) ==
  /\ pc[w] = "lock" /\ pushMuFree
  /\ pushMu' = w
  /\ pc' = [pc EXCEPT ![w] = "policies"]
  /\ UNCHANGED <<clusterVars, cacheVars, queued, listed, late, store, faults>>

ListPolicies(w) ==
  /\ pc[w] = "policies"
  /\ listed' = [listed EXCEPT ![w].policies = cachedPolicies]
  /\ pc' = [pc EXCEPT ![w] = "tenants"]
  /\ UNCHANGED <<clusterVars, cacheVars, queued, pushMu, late, store, faults>>

(* The second list, and the POST that leaves with the result.              *)
ListTenants(w) ==
  /\ pc[w] = "tenants"
  /\ listed' = [listed EXCEPT ![w].tenants = cachedTenants]
  /\ pc' = [pc EXCEPT ![w] = "post"]
  /\ UNCHANGED <<clusterVars, cacheVars, queued, pushMu, late, store, faults>>

return(w) == /\ pc' = [pc EXCEPT ![w] = "idle"]
             /\ listed' = [listed EXCEPT ![w] = NoSnapshot]
             /\ pushMu' = NoPusher

(* A failed Reconcile returns its error and is queued again; the ticker's  *)
(* push only logs.                                                         *)
retry(w) == queued' = (queued \/ w = "reconcile")

(* The handler replaces the store and the pusher reads its 2xx.            *)
PolicyHandler(w) ==
  /\ pc[w] = "post"
  /\ ReplaceSnapshot(listed[w])
  /\ return(w)
  /\ UNCHANGED <<clusterVars, cacheVars, queued, late, faults>>

fault == faults < MaxFaults /\ faults' = faults + 1

(* The CachePolicy CRD is not installed yet: pushSnapshot returns nil, so  *)
(* the tenants are not pushed and the reconcile is not queued again.  (The *)
(* second list treats a missing CacheTenant CRD as an empty list.)         *)
PoliciesNotFound(w) ==
  /\ pc[w] = "policies" /\ policies = NoList /\ fault
  /\ return(w)
  /\ UNCHANGED <<clusterVars, cacheVars, queued, late, store>>

(* A list error, a refused connection, or a status other than 2xx.         *)
PushFails(w) ==
  /\ pc[w] \in {"policies", "tenants", "post"} /\ fault
  /\ return(w) /\ retry(w)
  /\ UNCHANGED <<clusterVars, cacheVars, late, store>>

(* The client's timeout or the manager's context ends the wait; the server *)
(* may still handle the request.                                           *)
PushTimesOut(w) ==
  /\ pc[w] = "post" /\ fault
  /\ late' = late \cup {listed[w]}
  /\ return(w) /\ retry(w)
  /\ UNCHANGED <<clusterVars, cacheVars, store>>

LateHandler ==
  /\ \E body \in late : ReplaceSnapshot(body) /\ late' = late \ {body}
  /\ UNCHANGED <<clusterVars, cacheVars, queued, pc, listed, pushMu, faults>>

LateDrop ==
  /\ \E body \in late : late' = late \ {body}
  /\ UNCHANGED <<clusterVars, cacheVars, queued, pc, listed, pushMu, store, faults>>

-----------------------------------------------------------------------------
(* Restarts.  The store is memory only.  A new leader lists the API server *)
(* anew, which enqueues every resource; a POST of its predecessor may      *)
(* still be under way.                                                     *)

restart == faults < MaxRestarts /\ fault

EmptyStore == [policies |-> << >>, tenants |-> << >>, stamps |-> <<0, 0>>]

ServerRestart ==
  /\ restart
  /\ store' = EmptyStore
  /\ late' = {}
  /\ UNCHANGED <<clusterVars, cacheVars, queued, pc, listed, pushMu>>

LeaderChange ==
  /\ restart
  /\ late' = late \cup {listed[w] : w \in {v \in Pusher : pc[v] = "post"}}
  /\ cachedPolicies' = policies /\ cachedTenants' = tenants
  /\ queued' = (policies.items \cup tenants.items # {})
  /\ pc' = [w \in Pusher |-> "idle"]
  /\ listed' = [w \in Pusher |-> NoSnapshot]
  /\ pushMu' = NoPusher
  /\ UNCHANGED <<clusterVars, store>>

(* A server and a leader that have just started, in a cluster that holds   *)
(* these resources.                                                        *)
InitWith(P, T) ==
  /\ policies = [items |-> P, stamp |-> 0] /\ tenants = [items |-> T, stamp |-> 0]
  /\ cachedPolicies = policies /\ cachedTenants = tenants
  /\ queued = (P \cup T # {})
  /\ pc = [w \in Pusher |-> "idle"] /\ listed = [w \in Pusher |-> NoSnapshot]
  /\ pushMu = NoPusher
  /\ late = {} /\ store = EmptyStore /\ faults = 0

Init == InitWith({}, {})

Push(w) == Lock(w) \/ ListPolicies(w) \/ ListTenants(w) \/ PolicyHandler(w)

(* Everything but the writes of the cluster's users.                       *)
Propagate ==
  \/ WatchPolicies \/ WatchTenants \/ Reconcile \/ Start
  \/ \E w \in Pusher : Push(w) \/ PoliciesNotFound(w) \/ PushFails(w) \/ PushTimesOut(w)
  \/ LateHandler \/ LateDrop \/ ServerRestart \/ LeaderChange

Next == ChangePolicies \/ ChangeTenants \/ Propagate

Spec == Init /\ [][Next]_vars

(* Watches deliver, the work queue, the ticker and the goroutines run, a   *)
(* mutex does not starve a waiter, and a request ends.                     *)
Fairness ==
  /\ WF_vars(WatchPolicies) /\ WF_vars(WatchTenants)
  /\ WF_vars(Reconcile) /\ WF_vars(Start)
  /\ \A w \in Pusher : SF_vars(Lock(w)) /\ WF_vars(Push(w))
  /\ WF_vars(LateHandler \/ LateDrop)

FairSpec == Spec /\ Fairness

-----------------------------------------------------------------------------
(* Properties                                                              *)

Kind(CR) == [items : SUBSET CR, stamp : Nat]
Body == [policies : Kind(PolicyCR), tenants : Kind(TenantCR)]

(* Every variable has its type, and a pusher between its first list and    *)
(* the end of its POST holds pushMu alone.                                 *)
TypeOK ==
  /\ policies \in Kind(PolicyCR) /\ cachedPolicies \in Kind(PolicyCR)
  /\ tenants \in Kind(TenantCR) /\ cachedTenants \in Kind(TenantCR)
  /\ queued \in BOOLEAN /\ faults \in 0..MaxFaults
  /\ pc \in [Pusher -> {"idle", "lock", "policies", "tenants", "post"}]
  /\ listed \in [Pusher -> Body] /\ late \subseteq Body
  /\ store.stamps \in Nat \X Nat
  /\ pushMu \in Pusher \cup {NoPusher}
  /\ \A w \in Pusher : pushMu = w <=> pc[w] \in {"policies", "tenants", "post"}

(* One resource decides each key, and it is the first by (namespace,       *)
(* name) among the candidates, whatever the list order.                    *)
Decides(cr, items) ==
  /\ cr \in items /\ cr.key # NoKey /\ cr.value # NoValue
  /\ \A o \in items : /\ o.key = cr.key /\ o.value # NoValue /\ o # cr
                      => Before(cr, o)

Reflects(table, items) ==
  /\ \A k \in DOMAIN table : \E cr \in items : Decides(cr, items) /\ cr.key = k /\ cr.value = table[k]
  /\ \A cr \in items : Decides(cr, items) => cr.key \in DOMAIN table

(* The store holds exactly the deciding resources.                         *)
InSync == Reflects(store.policies, policies.items) /\ Reflects(store.tenants, tenants.items)

(* Once resources stop changing and faults stop, the store reflects them   *)
(* for good: deletions propagate, a restarted server is filled again, and  *)
(* a late POST of an older snapshot is corrected by the next push.         *)
PushConverges == <>[]InSync

newer(s, t) == s[1] >= t[1] /\ s[2] >= t[2]

(* A push somebody waits for never replaces a snapshot listed after it:    *)
(* list and POST share a critical section.                                 *)
AwaitedPushOrdered ==
  [][\A w \in Pusher : pc[w] = "post" /\ pc'[w] = "idle" /\ faults' = faults
       => newer(store'.stamps, store.stamps)]_vars
=============================================================================
