-------------------------- MODULE CacheIndexPoller --------------------------
(***************************************************************************)
(* The leader's CacheIndexPoller: it scrapes the server's /snapshot and    *)
(* projects it onto the CacheIndex singleton, every CacheBackend's         *)
(* status.indexParticipation, every CacheTenant's status and the tier-2    *)
(* metrics.  One refresh is many API calls, each of which may fail while   *)
(* the index, the pods and the resources go on changing.  Every read goes  *)
(* through the manager's cached client, whose informers may trail the      *)
(* cluster and the poller's own last write.                                *)
(*                                                                         *)
(* Optional values are sets with at most one element.  A backend is known  *)
(* by a record of its namespace and name, a pod by <<namespace, name>>,    *)
(* which is also the <<tenant, replica>> its subscriber reports under.     *)
(***************************************************************************)
EXTENDS IndexSnapshot, PolicyResolve, TLC

CONSTANTS
  Backend,       \* identities CacheBackends may have
  Pod,           \* identities engine pods may have
  Reporter,      \* identities replicas report under: the pods' and reserved ones
  Label, Model, Hash,
  TenantCR,      \* the CacheTenants that may exist
  None,          \* no owner, no annotation
  Reports,       \* the statistics an engine may report next
  MaxChanges,    \* bound: changes of the index and of the resources
  MaxFaults,     \* bound: failed API calls and scrapes
  MaxStale       \* bound: reads answered from a copy that is not current

VARIABLES
  held, stats,     \* the server's index
  engine,          \* each engine's cumulative tier-2 token counters
  pods, backends, tenants,
  ci,              \* the CacheIndex
  seen,            \* what the informers held when each was last read
  metrics,         \* the tier-2 series and what their upkeep remembers
  p,               \* the refresh under way
  changes, faults, stale

indexVars == <<held, stats, engine>>
clusterVars == <<pods, backends, tenants>>
envVars == <<indexVars, clusterVars>>
lagVars == <<seen, stale>>
vars == <<held, stats, engine, pods, backends, tenants, ci, seen, metrics, p,
          changes, faults, stale>>

The(x) == CHOOSE e \in x : TRUE

NoSnap == [total |-> 0, replicas |-> {}, tenants |-> << >>]
Idle == [pc |-> "idle", ci |-> {}, snap |-> NoSnap, items |-> << >>, todo |-> {}, owner |-> << >>,
         tainted |-> {}, left |-> {}, exercised |-> {}, crs |-> {}, missed |-> {}, failed |-> FALSE]

NoParticipation == [prefixCount |-> 0, lastEventAt |-> 0, t2HitRate |-> {}]
NoTenantStatus == [generation |-> 0, entries |-> {}, conditions |-> {}]

(* A status patch carries the fields that differ from the listed copy.     *)
MergePatch(before, desired, current, zero) ==
  LET val(x) == IF x = {} THEN zero ELSE The(x)
  IN [f \in DOMAIN zero |-> IF val(before)[f] # desired[f] THEN desired[f] ELSE val(current)[f]]

-----------------------------------------------------------------------------
(* The projections.                                                        *)

(* An empty selector claims nothing.                                       *)
matchLabelsSelects(want, have) == want # {} /\ want \subseteq have

(* The backend an engine pod counts for: the one its annotation names, or  *)
(* the first in name order whose selector matches.                         *)
attributePod(tr, pod, items) ==
  LET matching == {b \in DOMAIN items : b.namespace = tr[1]
                                        /\ matchLabelsSelects(items[b].selector, pod.labels)}
  IN IF pod.injectedBy # None /\ pod.injectedBy.namespace = tr[1]
       THEN IF pod.injectedBy \in DOMAIN items THEN pod.injectedBy ELSE None
       ELSE IF matching = {} THEN None
            ELSE CHOOSE b \in matching : \A o \in matching \ {b} : NameBefore(b.name, o.name)

Attributed(b, owner, snap) ==
  {r \in snap.replicas : TenantReplica(r) \in DOMAIN owner /\ owner[TenantReplica(r)] = b}

T2QueryTokens(rows) == MapThenSumSet(LAMBDA r : r.t2query, rows)

Clamp(x) == IF x > RateUnit THEN RateUnit ELSE x

(* A rate exists only once the tier was queried.                           *)
T2HitRate(rows) ==
  IF T2QueryTokens(rows) > 0
    THEN {Clamp((MapThenSumSet(LAMBDA r : r.t2hit, rows) * RateUnit) \div T2QueryTokens(rows))}
    ELSE {}

Participation(rows) ==
  [prefixCount |-> MapThenSumSet(LAMBDA r : r.prefixCount, rows),
   lastEventAt |-> MaxOrZero({r.lastEventAt : r \in rows}),
   t2HitRate |-> T2HitRate(rows)]

(* No zero is published for a backend that never claimed anything.         *)
NoiseZero(desired, cb) == desired = NoParticipation /\ cb.selector = {} /\ cb.participation = {}

(* One row per replica name that has statistics: the later tenant's.       *)
byID(replicas) ==
  {r \in replicas : /\ r.lastUpdate # 0
                    /\ \A o \in replicas : o.lastUpdate # 0 /\ o.replica = r.replica
                                             => ~NameBefore(r.tenant, o.tenant)}

buildCacheIndexStatus(snap) ==
  [total |-> snap.total,
   replicas |-> {[id |-> r.replica, tenant |-> r.tenant, hit |-> r.hit] : r \in byID(snap.replicas)},
   tenants |-> [t \in DOMAIN snap.tenants |->
                  [entries |-> snap.tenants[t].entries,
                   hit |-> IF snap.tenants[t].hitReported \/ snap.tenants[t].hit # 0
                             THEN {snap.tenants[t].hit} ELSE {}]]]

tenantHasQuota(cr) == cr.key # NoKey /\ cr.value # NoValue

(* The budget-bearing resource that is first in (namespace, name) order.   *)
effectiveTenantOwners(crs) ==
  LET bearing == {cr \in crs : tenantHasQuota(cr)}
  IN [id \in {cr.key : cr \in bearing} |->
        Identity(CHOOSE cr \in bearing : cr.key = id
                   /\ \A o \in bearing \ {cr} : o.key = id => Before(cr, o))]

buildCacheTenantStatus(ct, entries, shadowedBy) ==
  LET over == ct.cr.value # NoValue /\ entries > ct.cr.value
      quota == IF shadowedBy # None THEN "NotEffective"
               ELSE IF ct.cr.value = NoValue THEN "NoQuota"
               ELSE IF over THEN "OverEntryBudget" ELSE "WithinBudget"
  IN [generation |-> ct.generation, entries |-> {entries},
      conditions |-> {[ready |-> IF shadowedBy # None THEN "DuplicateTenantID" ELSE "Observed",
                       quota |-> quota, owner |-> shadowedBy, generation |-> ct.generation,
                       shown |-> IF quota = "OverEntryBudget" THEN entries ELSE 0]}]

(* What the projection wants one CacheTenant's status to be: a tenant      *)
(* without a row holds an observed zero.                                   *)
TenantStatus(ct, snap, crs) ==
  LET id == ct.cr.key
      owners == effectiveTenantOwners(crs)
  IN buildCacheTenantStatus(ct,
       IF id \in DOMAIN snap.tenants THEN snap.tenants[id].entries ELSE 0,
       IF id \in DOMAIN owners /\ owners[id] # Identity(ct.cr) THEN owners[id] ELSE None)

-----------------------------------------------------------------------------
(* One refresh.                                                            *)

fault == faults < MaxFaults /\ faults' = faults + 1

(* A read of one kind of object finds its informer up to date, or as the   *)
(* last read found it.                                                     *)
Read(kind, live, got) ==
  \/ /\ got = live
     /\ seen' = [seen EXCEPT ![kind] = live]
     /\ UNCHANGED stale
  \/ /\ got = seen[kind] /\ got # live
     /\ stale < MaxStale /\ stale' = stale + 1
     /\ UNCHANGED seen

goto(pc) == p' = [p EXCEPT !.pc = pc]
abort == p' = [Idle EXCEPT !.pc = "done", !.failed = TRUE]

NewIndex == [born |-> changes, version |-> 0, status |-> {}]

(* Mutant: the object is created without asking for it first. *)
EnsureIndexCreates ==
  /\ p.pc = "idle"
  /\ \/ /\ ci = {}
        /\ ci' = {NewIndex}
        /\ p' = [p EXCEPT !.pc = "scrape", !.ci = {NewIndex}]
     \/ ci # {} /\ abort /\ UNCHANGED ci
  /\ UNCHANGED <<envVars, lagVars, metrics, changes, faults>>

(* The singleton is there before anything is scraped; a create may find    *)
(* the object already there.                                               *)
EnsureIndex ==
  /\ p.pc = "idle"
  /\ \/ \E got \in {ci, seen.index} :
          /\ Read("index", ci, got)
          /\ \/ /\ got # {}
                /\ p' = [p EXCEPT !.pc = "scrape", !.ci = got,
                                  !.missed = IF got = ci THEN {} ELSE {<<"index">>}]
                /\ UNCHANGED ci
             \/ /\ got = {} /\ ci = {}
                /\ ci' = {NewIndex}
                /\ p' = [p EXCEPT !.pc = "scrape", !.ci = {NewIndex}]
             \/ got = {} /\ ci # {} /\ abort /\ UNCHANGED ci
          /\ UNCHANGED faults
     \/ fault /\ abort /\ UNCHANGED <<ci, lagVars>>
  /\ UNCHANGED <<envVars, metrics, changes>>

(* A failed scrape leaves every projection as it is.                       *)
fetchSnapshot ==
  /\ p.pc = "scrape"
  /\ \/ /\ p' = [p EXCEPT !.pc = "list", !.snap = Snapshot(held, stats)]
        /\ UNCHANGED faults
     \/ fault /\ abort
  /\ UNCHANGED <<envVars, ci, lagVars, metrics, changes>>

Dropped(f, gone) == [b \in DOMAIN f \ gone |-> f[b]]

(* Series go when the backend is gone, or when no replica of it reported   *)
(* tier-2 queries in a namespace whose lookups all succeeded.              *)
StaleSeries(tracked, exercised, present, tainted) ==
  {b \in tracked : b \notin present \/ (b.namespace \notin tainted /\ b \notin exercised)}

reconcileBackendT2HitRateSeries(exercised, present, tainted) ==
  LET tracked == metrics.tracked \cup exercised
      gone == StaleSeries(tracked, exercised, present, tainted)
  IN metrics' = [hitRate |-> Dropped(metrics.hitRate, gone),
                 queryTokens |-> Dropped(metrics.queryTokens, gone),
                 last |-> Dropped(metrics.last, gone),
                 tracked |-> tracked \ gone]

(* Those whose listed copy is older than the poller's last write to them.  *)
Trailing(kind, listed, live, field) ==
  {<<kind, o>> : o \in {o \in DOMAIN listed : o \notin DOMAIN live
                                              \/ live[o][field] # listed[o][field]}}

(* Without backends the series go at once; a failed list touches nothing   *)
(* and the refresh goes on.                                                *)
ListBackends ==
  /\ p.pc = "list"
  /\ \/ \E got \in {backends, seen.backends} :
          /\ Read("backends", backends, got)
          /\ \/ /\ got # << >>
                /\ p' = [p EXCEPT !.pc = "pods", !.items = got, !.left = DOMAIN got,
                                  !.missed = p.missed \cup Trailing("backend", got, backends, "participation"),
                                  !.todo = {TenantReplica(r) : r \in p.snap.replicas}
                                             \ {tr \in Reporter : NoKey \in {tr[1], tr[2]}}]
                /\ UNCHANGED metrics
             \/ /\ got = << >>
                /\ reconcileBackendT2HitRateSeries({}, {}, {})
                /\ goto("index")
          /\ UNCHANGED faults
     \/ fault /\ goto("index") /\ UNCHANGED <<metrics, lagVars>>
  /\ UNCHANGED <<envVars, ci, changes>>

NextReplica == CHOOSE tr \in p.todo :
                 \A o \in p.todo \ {tr} : Before([namespace |-> tr[1], name |-> tr[2]],
                                                 [namespace |-> o[1], name |-> o[2]])

(* Mutant: a failed lookup is taken for a pod that is gone. *)
TaintSkips(ns) == {}

Taint(ns) == {ns}

(* The pods behind the replicas, one at a time; a lookup that fails for    *)
(* any other reason than absence taints the namespace.                     *)
GetPod ==
  /\ p.pc = "pods" /\ p.todo # {}
  /\ LET tr == NextReplica
         owned(o) == p' = [p EXCEPT !.todo = p.todo \ {tr}, !.owner = (tr :> o) @@ p.owner]
     IN \/ /\ tr[1] \in p.tainted
           /\ p' = [p EXCEPT !.todo = p.todo \ {tr}]
           /\ UNCHANGED <<lagVars, faults>>
        \/ /\ tr[1] \notin p.tainted
           /\ \E got \in {pods, seen.pods} :
                /\ Read("pods", pods, got)
                /\ owned(IF tr \in DOMAIN got THEN attributePod(tr, got[tr], p.items) ELSE None)
           /\ UNCHANGED faults
        \/ /\ tr[1] \notin p.tainted
           /\ fault
           /\ p' = [p EXCEPT !.todo = p.todo \ {tr}, !.tainted = p.tainted \cup Taint(tr[1])]
           /\ UNCHANGED lagVars
  /\ UNCHANGED <<envVars, ci, metrics, changes>>

(* Only growth counts, and nothing on first sight.                         *)
t2QueryDelta(b, current) ==
  IF b \in DOMAIN metrics.last /\ current > metrics.last[b] THEN current - metrics.last[b] ELSE 0

(* The tier-2 series of a backend whose replicas were queried.             *)
ExportT2(b, rows) ==
  IF T2HitRate(rows) = {} THEN UNCHANGED metrics
  ELSE LET so_far == IF b \in DOMAIN metrics.queryTokens THEN metrics.queryTokens[b] ELSE 0
       IN metrics' =
            [metrics EXCEPT
               !.hitRate = (b :> The(T2HitRate(rows))) @@ metrics.hitRate,
               !.queryTokens = (b :> so_far + t2QueryDelta(b, T2QueryTokens(rows)))
                                 @@ metrics.queryTokens,
               !.last = (b :> T2QueryTokens(rows)) @@ metrics.last]

participationEqual(a, b) == a = b

(* One backend's participation: written only when it changed, and a write  *)
(* that fails does not hold up the others.                                 *)
ProjectBackend(b) ==
  /\ p.pc = "pods" /\ p.todo = {} /\ b \in p.left
  /\ LET rows == Attributed(b, p.owner, p.snap)
         desired == Participation(rows)
         cb == p.items[b]
         next(missed) == p' = [p EXCEPT !.left = p.left \ {b}, !.missed = @ \cup missed,
                                        !.exercised = p.exercised \cup (IF T2HitRate(rows) = {} THEN {} ELSE {b})]
     IN \/ /\ b.namespace \in p.tainted
           /\ p' = [p EXCEPT !.left = p.left \ {b}, !.missed = @ \cup {<<"backend", b>>}]
           /\ UNCHANGED <<backends, metrics, faults>>
        \/ /\ b.namespace \notin p.tainted
           /\ NoiseZero(desired, cb) \/ participationEqual(cb.participation, {desired})
           /\ ExportT2(b, rows) /\ next({})
           /\ UNCHANGED <<backends, faults>>
        \/ /\ b.namespace \notin p.tainted
           /\ ~NoiseZero(desired, cb) /\ ~participationEqual(cb.participation, {desired})
           /\ ExportT2(b, rows)
           /\ \/ /\ b \in DOMAIN backends
                 /\ backends' = [backends EXCEPT ![b].participation =
                                   {MergePatch(cb.participation, desired, @, NoParticipation)}]
                 /\ next({})
                 /\ UNCHANGED faults
              \/ b \notin DOMAIN backends /\ next({<<"backend", b>>}) /\ UNCHANGED <<backends, faults>>
              \/ fault /\ next({<<"backend", b>>}) /\ UNCHANGED backends
  /\ UNCHANGED <<indexVars, pods, tenants, ci, lagVars, changes>>

PruneSeries ==
  /\ p.pc = "pods" /\ p.todo = {} /\ p.left = {}
  /\ reconcileBackendT2HitRateSeries(p.exercised, DOMAIN p.items, p.tainted)
  /\ goto("index")
  /\ UNCHANGED <<envVars, ci, lagVars, changes, faults>>

(* Mutant: the replicas' rows are not compared. *)
statusEqualTotals(a, b) == {<<x.total, x.tenants>> : x \in a} = {<<x.total, x.tenants>> : x \in b}

statusEqual(a, b) == a = b

(* The cluster-wide status.  The update carries the version that was read: *)
(* when it is refused the refresh ends, before any tenant is projected.    *)
UpdateIndex ==
  /\ p.pc = "index"
  /\ LET desired == {buildCacheIndexStatus(p.snap)}
     IN \/ /\ statusEqual(The(p.ci).status, desired)
           /\ goto("tenants")
           /\ UNCHANGED <<ci, faults>>
        \/ /\ ~statusEqual(The(p.ci).status, desired) /\ ci = p.ci
           /\ ci' = {[The(ci) EXCEPT !.version = @ + 1, !.status = desired]}
           /\ goto("tenants")
           /\ UNCHANGED faults
        \/ /\ ~statusEqual(The(p.ci).status, desired) /\ ci # p.ci
           /\ abort
           /\ UNCHANGED <<ci, faults>>
        \/ ~statusEqual(The(p.ci).status, desired) /\ fault /\ abort /\ UNCHANGED ci
  /\ UNCHANGED <<envVars, lagVars, metrics, changes>>

ListTenants ==
  /\ p.pc = "tenants"
  /\ \/ \E got \in {tenants, seen.tenants} :
          /\ Read("tenants", tenants, got)
          /\ p' = [p EXCEPT !.pc = "status", !.crs = Range(got), !.left = DOMAIN got,
                            !.missed = p.missed \cup Trailing("tenant", got, tenants, "status")]
          /\ UNCHANGED faults
     \/ fault /\ abort /\ UNCHANGED lagVars
  /\ UNCHANGED <<envVars, ci, metrics, changes>>

(* One CacheTenant's status; a patch that fails does not stop the others.  *)
ProjectTenant(id) ==
  /\ p.pc = "status" /\ id \in p.left
  /\ LET ct == CHOOSE x \in p.crs : Identity(x.cr) = id
         desired == TenantStatus(ct, p.snap, {x.cr : x \in p.crs})
         next(failed) == p' = [p EXCEPT !.left = p.left \ {id}, !.failed = p.failed \/ failed]
     IN \/ ct.status = {desired} /\ next(FALSE) /\ UNCHANGED <<tenants, faults>>
        \/ /\ ct.status # {desired} /\ id \in DOMAIN tenants
           /\ tenants' = [tenants EXCEPT ![id].status =
                            {MergePatch(ct.status, desired, @, NoTenantStatus)}]
           /\ next(FALSE)
           /\ UNCHANGED faults
        \/ ct.status # {desired} /\ id \notin DOMAIN tenants /\ next(TRUE) /\ UNCHANGED <<tenants, faults>>
        \/ ct.status # {desired} /\ fault /\ next(TRUE) /\ UNCHANGED tenants
  /\ UNCHANGED <<indexVars, pods, backends, ci, lagVars, metrics, changes>>

RefreshReturns ==
  /\ p.pc = "status" /\ p.left = {}
  /\ goto("done")
  /\ UNCHANGED <<envVars, ci, lagVars, metrics, changes, faults>>

(* The ticker fires again.                                                 *)
Tick ==
  /\ p.pc = "done"
  /\ p' = Idle
  /\ UNCHANGED <<envVars, ci, lagVars, metrics, changes, faults>>

-----------------------------------------------------------------------------
(* The index and the cluster, as the poller meets them.                    *)

change == changes < MaxChanges /\ changes' = changes + 1
now == changes + 1
pollerVars == <<ci, lagVars, metrics, p, faults>>

Ingest ==
  /\ change
  /\ \E tr \in Reporter, m \in Model, h \in Hash :
       LET e(t) == [tenant |-> tr[1], replica |-> tr[2], model |-> m, hash |-> h, seen |-> t]
       IN held' = {x \in held : [x EXCEPT !.seen = now] # e(now)} \cup {e(now)}
  /\ UNCHANGED <<stats, engine, clusterVars, pollerVars>>

(* Eviction, expiry or the engine's own removal of a prefix.               *)
ForgetPrefix ==
  /\ change
  /\ \E e \in held : held' = held \ {e}
  /\ UNCHANGED <<stats, engine, clusterVars, pollerVars>>

(* An engine serves requests and its subscriber reports the statistics.    *)
ReportStats ==
  /\ change
  /\ \E r \in Reports, m \in Model :
       LET total == [hits |-> engine[r.from].hits + r.hits, queries |-> engine[r.from].queries + r.queries]
           s == [tenant |-> r.from[1], replica |-> r.from[2], model |-> m, hit |-> r.rate,
                 t2hit |-> total.hits, t2query |-> total.queries, seen |-> now]
       IN /\ engine' = [engine EXCEPT ![r.from] = total]
          /\ stats' = {x \in stats : <<TenantReplica(x), x.model>> # <<r.from, m>>} \cup {s}
  /\ UNCHANGED <<held, clusterVars, pollerVars>>

(* The statistics of a replica whose reports stopped expire.               *)
ExpireStats ==
  /\ change
  /\ \E s \in stats : stats' = stats \ {s}
  /\ UNCHANGED <<held, engine, clusterVars, pollerVars>>

EngineRestart ==
  /\ change
  /\ \E tr \in Reporter : /\ engine[tr].queries > 0
                     /\ engine' = [engine EXCEPT ![tr] = [hits |-> 0, queries |-> 0]]
  /\ UNCHANGED <<held, stats, clusterVars, pollerVars>>

(* Pods and resources come and go.                                         *)
ChangePods ==
  /\ change
  /\ \/ \E tr \in DOMAIN pods : pods' = Dropped(pods, {tr})
     \/ \E tr \in Pod \ DOMAIN pods, l \in SUBSET Label, by \in Backend \cup {None} :
          pods' = (tr :> [labels |-> l, injectedBy |-> by]) @@ pods
  /\ UNCHANGED <<indexVars, backends, tenants, pollerVars>>

ChangeBackends ==
  /\ change
  /\ \/ \E b \in DOMAIN backends : backends' = Dropped(backends, {b})
     \/ \E b \in Backend \ DOMAIN backends, l \in SUBSET Label :
          backends' = (b :> [selector |-> l, participation |-> {}]) @@ backends
     \/ \E b \in DOMAIN backends, l \in SUBSET Label :
          l # backends[b].selector /\ backends' = [backends EXCEPT ![b].selector = l]
  /\ UNCHANGED <<indexVars, pods, tenants, pollerVars>>

ChangeTenants ==
  /\ change
  /\ \/ \E id \in DOMAIN tenants : tenants' = Dropped(tenants, {id})
     \/ \E cr \in TenantCR :
          /\ Identity(cr) \notin DOMAIN tenants
          /\ tenants' = (Identity(cr) :> [cr |-> cr, born |-> now, generation |-> 1, status |-> {}]) @@ tenants
     \/ \E cr \in TenantCR :
          /\ Identity(cr) \in DOMAIN tenants /\ tenants[Identity(cr)].cr # cr
          /\ tenants' = [tenants EXCEPT ![Identity(cr)].cr = cr, ![Identity(cr)].generation = @ + 1]
  /\ UNCHANGED <<indexVars, pods, backends, pollerVars>>

DeleteIndex ==
  /\ change
  /\ ci # {} /\ ci' = {}
  /\ UNCHANGED <<envVars, lagVars, metrics, p, faults>>

-----------------------------------------------------------------------------
Init ==
  /\ held = {} /\ stats = {}
  /\ engine = [tr \in Reporter |-> [hits |-> 0, queries |-> 0]]
  /\ pods = << >> /\ backends = << >> /\ tenants = << >>
  /\ ci = {}
  /\ seen = [index |-> {}, pods |-> << >>, backends |-> << >>, tenants |-> << >>]
  /\ metrics = [hitRate |-> << >>, queryTokens |-> << >>, last |-> << >>, tracked |-> {}]
  /\ p = Idle
  /\ changes = 0 /\ faults = 0 /\ stale = 0

Refresh ==
  \/ EnsureIndex \/ fetchSnapshot \/ ListBackends \/ GetPod
  \/ \E b \in Backend : ProjectBackend(b)
  \/ PruneSeries \/ UpdateIndex \/ ListTenants
  \/ \E id \in {Identity(cr) : cr \in TenantCR} : ProjectTenant(id)
  \/ RefreshReturns \/ Tick

Cluster ==
  \/ Ingest \/ ForgetPrefix \/ ReportStats \/ ExpireStats \/ EngineRestart
  \/ ChangePods \/ ChangeBackends \/ ChangeTenants \/ DeleteIndex

Next == Refresh \/ Cluster

Spec == Init /\ [][Next]_vars

(* The poller's loop keeps running.                                        *)
Fairness == WF_vars(Refresh)

-----------------------------------------------------------------------------
Returned == p.pc = "done" /\ ~p.failed

(* A refresh that returns without an error leaves projections that agree   *)
(* (refresh: "Three projections of ONE scrape"): the CacheIndex is the     *)
(* scrape's, unless someone deleted it; no CacheTenant the refresh listed  *)
(* shows another count of entries than the CacheIndex's row; and the       *)
(* backends of a namespace together claim no more prefixes than its        *)
(* replicas hold, so that no replica was counted twice.  What the refresh  *)
(* could not say is set apart (p.missed): a backend whose patch failed or  *)
(* whose namespace is tainted, and an object whose cached copy is older    *)
(* than the poller's last write to it, since a status that went from A to  *)
(* B and back to A is then taken for written; ProjectionsConverge shows    *)
(* that a later refresh makes up for both.                                 *)
StatusesAgree ==
  Returned =>
    LET claimed(ns) == {b \in DOMAIN backends \cap DOMAIN p.items :
                          <<"backend", b>> \notin p.missed /\ b.namespace = ns /\ backends[b].participation # {}}
        listed(x) == {y \in Range(tenants) : y.born = x.born /\ Identity(y.cr) = Identity(x.cr)}
        rows == buildCacheIndexStatus(p.snap).tenants
    IN /\ <<"index">> \notin p.missed =>
            \A c \in ci : c.born = The(p.ci).born => c.status = {buildCacheIndexStatus(p.snap)}
       /\ \A x \in p.crs : <<"tenant", Identity(x.cr)>> \notin p.missed =>
            \A y \in listed(x) : \A st \in y.status : st.generation = x.generation =>
              st.entries = {IF x.cr.key \in DOMAIN rows THEN rows[x.cr.key].entries ELSE 0}
       /\ \A ns \in {tr[1] : tr \in Reporter} :
            MapThenSumSet(LAMBDA b : The(backends[b].participation).prefixCount, claimed(ns))
              <= MapThenSumSet(LAMBDA r : r.prefixCount, {r \in p.snap.replicas : r.tenant = ns})

(* The status writer and the /policy pusher pick the same CacheTenant      *)
(* (effectiveTenantOwners: "MUST match resolveTenants' dedup tie-break"):  *)
(* of the resources that declare one tenantID, the one whose budget is     *)
(* pushed is the one that reads Ready, and every other reads a duplicate,  *)
(* wherever the refresh could say so (p.missed, as above).                 *)
OneEffectiveOwner ==
  Returned =>
    LET pushed == resolveTenants({x.cr : x \in p.crs})
        shown(x) == tenants[Identity(x.cr)]
    IN \A x \in p.crs :
         (/\ Identity(x.cr) \in DOMAIN tenants /\ <<"tenant", Identity(x.cr)>> \notin p.missed
          /\ shown(x).status # {} /\ shown(x).cr = x.cr /\ shown(x).born = x.born) =>
           \A c \in The(shown(x).status).conditions : c.generation = x.generation =>
             (c.ready = "Observed" <=>
                (x.cr.key \in DOMAIN pushed => Identity(pushed[x.cr.key]) = Identity(x.cr)))

(* A backend's published participation changes only on evidence: every     *)
(* replica of its namespace was traced to its pod, so a lookup that failed *)
(* never reads as a drain (taintedNamespaces).                             *)
NoFalseDrain ==
  [][\A b \in DOMAIN backends \cap DOMAIN backends' :
       backends'[b].participation # backends[b].participation =>
         \A r \in p.snap.replicas : r.tenant = b.namespace => TenantReplica(r) \in DOMAIN p.owner]_vars

(* A series outlives neither its backend nor its replicas                  *)
(* (reconcileBackendT2HitRateSeries): once the series were reconciled,     *)
(* each belongs to a listed backend, was exported in this very refresh     *)
(* unless the namespace could not be trusted, and a namespace that could   *)
(* not be trusted has lost none.                                           *)
SeriesFollowBackends ==
  [][PruneSeries =>
       LET kept == DOMAIN metrics'.hitRate
       IN /\ kept \subseteq DOMAIN p.items
          /\ \A b \in kept : b \in p.exercised \/ b.namespace \in p.tainted
          /\ {b \in DOMAIN metrics.hitRate \cap DOMAIN p.items : b.namespace \in p.tainted}
               \subseteq kept]_vars

(* While a series exists its query counter never falls                     *)
(* (backendT2QueryTokensTotal: monotonic under replica churn and engine    *)
(* restarts).                                                              *)
QueryCounterMonotonic ==
  [][\A b \in DOMAIN metrics.queryTokens \cap DOMAIN metrics'.queryTokens :
       metrics'.queryTokens[b] >= metrics.queryTokens[b]]_vars

Owners == [tr \in DOMAIN pods |-> attributePod(tr, pods[tr], backends)]

(* The prefixes as the per-model gauge and as GetCacheState count them.    *)
GaugeTotal ==
  LET byModel == EntryCountsByModel(held)
  IN MapThenSumSet(LAMBDA m : byModel[m], DOMAIN byModel)
StateTotal ==
  MapThenSumSet(LAMBDA c : CacheState(held, stats, c[1], c[2]).totalPrefixes,
                ({tr[1] : tr \in Reporter} \ ReservedTenants) \X Model)

Settled ==
  LET s == Snapshot(held, stats)
  IN /\ ci # {} /\ The(ci).status = {buildCacheIndexStatus(s)}
     /\ {GaugeTotal, StateTotal} = {x.total : x \in The(ci).status}
     /\ \A b \in DOMAIN backends :
          LET desired == Participation(Attributed(b, Owners, s))
          IN backends[b].participation = {desired} \/ NoiseZero(desired, backends[b])
     /\ \A id \in DOMAIN tenants :
          tenants[id].status = {TenantStatus(tenants[id], s, {tenants[o].cr : o \in DOMAIN tenants})}

(* Whatever failed or was overtaken on the way, once the cluster stays as  *)
(* it is and the informers catch up, every status ends up saying what the  *)
(* index holds, and the total what the gauge and GetCacheState say (Start: *)
(* the refresh runs again on every tick).                                  *)
ProjectionsConverge == <>[]Settled

(* All that a refresh publishes without an error tells one story: the      *)
(* three statuses, and who owns a tenant.                                  *)
ProjectionsAgree == StatusesAgree /\ OneEffectiveOwner

(* Published numbers move on evidence only: no drain is read into a failed *)
(* lookup, no series is lost to one or outlives its backend, and the query *)
(* counter never falls.                                                    *)
NumbersNeedEvidence == NoFalseDrain /\ SeriesFollowBackends /\ QueryCounterMonotonic
=============================================================================
