---------------------------- MODULE PrefixIndex ----------------------------
(***************************************************************************)
(* The in-memory soft-state index of the policy server (internal/index):   *)
(* the prefix map, the replica stats and the six secondary indexes that    *)
(* are maintained beside them, under the index lock i.mu, by the RPC       *)
(* handlers Ingest and ApplyEvent and by the TTL sweep.                    *)
(*                                                                         *)
(* A handler is a worker.  Its critical section is a chain of steps in the *)
(* order of the code, one per upsertReplicaLocked or removeReplicaLocked   *)
(* call, so every bookkeeping update is a step of its own; only the worker *)
(* that holds mu takes them.  After unlocking, the handler publishes the   *)
(* per-model entry gauge under reportMu.                                   *)
(***************************************************************************)
EXTENDS Integers, FiniteSets

CONSTANTS
  Tenant, Model, HashScheme, Adapter, PrefixHash, Replica,
  NoScheme,          \* the empty hash_scheme
  NoAdapter,         \* the empty adapter id: the default partition
  EmptyHash,         \* the empty prefix_hash
  ReservedTenants,   \* WithReservedTenants
  MaxEntries,        \* WithMaxEntries; <= 0 is unbounded
  DefaultTTL,        \* Index.ttl
  KeyRank(_),        \* the lexicographic order of prefix keys
  ReplicaRank(_),    \* the lexicographic order of replica ids
  Policies,          \* the policy snapshots the controller may push
  Updates, Events,   \* the requests considered
  Worker, Sweeper, NoWorker, NoRequest,
  MaxClock, MaxCount \* bounds on time and on access counts

NoQuota == -1
Nothing == [x \in {} |-> 0]   \* an empty Go map
ZeroTime == 0
Time == Nat

PrefixKey == [tenant : Tenant, model : Model, hashScheme : HashScheme,
              adapter : Adapter, prefixHash : PrefixHash]
Ref == PrefixKey \X Replica
StatsKey == Tenant \X Model \X Replica

PrefixRef == [adapter : Adapter, prefixHash : PrefixHash,
              blockHashes : SUBSET PrefixHash, blockTokenCounts : Nat]
Update == [tenant : Tenant, model : Model, replica : Replica,
           hashScheme : HashScheme \cup {NoScheme}, adapter : Adapter,
           timestamp : Time, prefixes : SUBSET PrefixRef, stats : BOOLEAN]
EventType == {"added", "evicted", "updated", "cleared"}
Event == [type : EventType, tenant : Tenant, model : Model, replica : Replica,
          prefixHash : PrefixHash, adapter : Adapter, timestamp : Time]
Policy == [ttl : [Tenant -> Nat], quota : [Tenant -> Nat \cup {NoQuota}],
           lfu : SUBSET Tenant]

ASSUME KeyAssumption ==
  /\ NoScheme \notin HashScheme
  /\ NoAdapter \in Adapter
  /\ EmptyHash \in PrefixHash
  /\ ReservedTenants \subseteq Tenant

ASSUME RankAssumption ==
  /\ \A k, l \in PrefixKey : KeyRank(k) \in Nat /\ (KeyRank(k) = KeyRank(l) => k = l)
  /\ \A r, q \in Replica : ReplicaRank(r) \in Nat /\ (ReplicaRank(r) = ReplicaRank(q) => r = q)

ASSUME BoundAssumption ==
  /\ MaxEntries \in Int
  /\ DefaultTTL \in Nat \ {0}
  /\ MaxClock \in Nat \ {0}
  /\ MaxCount \in Nat

ASSUME RequestAssumption ==
  /\ Policies \subseteq Policy
  /\ Updates \subseteq Update
  /\ \A u \in Updates : IsFiniteSet(u.prefixes)
                        /\ \A p \in u.prefixes : IsFiniteSet(p.blockHashes)
  /\ Events \subseteq Event

ASSUME WorkerAssumption == Sweeper \in Worker /\ NoWorker \notin Worker

VARIABLES
  entries,               \* i.prefixes[key][replica], as a partial function on Ref
  prefixes,              \* the keys of the map i.prefixes
  stats,                 \* i.stats: the lastSeen of each stats entry
  totalEntries, reservedEntries, prefixesByTenant, prefixesByTenantModel,
  servingByScope, replicasByModel,
  gauge, reportedModels, \* the metrics sink and the models last pushed to it
  policy,                \* the PolicyStore snapshot the resolvers read
  clock,
  mu, reportMu,          \* the holder of each lock
  pc, request,           \* per worker: where it is, and what it serves
  quota,                 \* per worker: the budget Ingest resolved before locking
  now,                   \* per worker: the instant the handler read
  todo, doomed,          \* of the holder of mu: keys to upsert, refs to remove
  effectiveCount,        \* of the holder of mu: counts read by the cap sweep
  counts                 \* of the holder of reportMu: counts read for the gauge

dataVars == <<entries, prefixes, totalEntries, reservedEntries,
              prefixesByTenant, prefixesByTenantModel, servingByScope>>
statsVars == <<stats, replicasByModel>>
gaugeVars == <<gauge, reportedModels, reportMu, counts>>
localVars == <<request, quota, now>>
envVars == <<policy, clock>>
vars == <<dataVars, statsVars, gaugeVars, localVars, envVars,
          mu, pc, todo, doomed, effectiveCount>>

-----------------------------------------------------------------------------
(* Resolvers and small helpers.                                            *)

isReservedTenant(t) == t \in ReservedTenants
ttlFor(t) == IF policy.ttl[t] > 0 THEN policy.ttl[t] ELSE DefaultTTL
tenantQuotaFor(t) == policy.quota[t]
orNow(ts) == IF ts = ZeroTime THEN clock ELSE ts

modelKey(k) == <<k.tenant, k.model>>
scopeKey(k) == <<k.tenant, k.model, k.hashScheme>>
Scope == Tenant \X Model \X HashScheme

Holders(k) == {x \in DOMAIN entries : x[1] = k}

(* The keys one update upserts.  A chain entry expands to one key per      *)
(* block, plus its legacy hash when set; a chain whose two arrays differ   *)
(* in length is dropped; without a scheme nothing is indexed.              *)
expand(p) ==
  IF p.blockHashes # {} \/ p.blockTokenCounts > 0
  THEN IF Cardinality(p.blockHashes) # p.blockTokenCounts THEN {}
       ELSE p.blockHashes \cup ({p.prefixHash} \ {EmptyHash})
  ELSE {p.prefixHash}

partition(u, p) == IF p.adapter = NoAdapter THEN u.adapter ELSE p.adapter

keysOf(u) ==
  IF u.hashScheme = NoScheme THEN {}
  ELSE UNION {{[tenant |-> u.tenant, model |-> u.model,
                hashScheme |-> u.hashScheme, adapter |-> partition(u, p),
                prefixHash |-> h] : h \in expand(p)} : p \in u.prefixes}

(* Mutant: the decrement of a removed entry is forgotten. *)
pred_Forgotten(n) == n

pred(n) == IF n - 1 <= 0 THEN 0 ELSE n - 1

-----------------------------------------------------------------------------
(* upsertReplicaLocked / removeReplicaLocked: the only writers of entries, *)
(* prefixes and the counters.  A counter at zero is a deleted map key.     *)

upsertReplicaLocked(k, r, ts) ==
  LET x == <<k, r>>
      newKey == k \notin prefixes
      newRef == x \notin DOMAIN entries
      count == IF newRef THEN 0 ELSE entries[x].accessCount
  IN /\ prefixes' = prefixes \cup {k}
     /\ prefixesByTenant' =
          [prefixesByTenant EXCEPT ![k.tenant] = IF newKey THEN @ + 1 ELSE @]
     /\ prefixesByTenantModel' =
          [prefixesByTenantModel EXCEPT ![modelKey(k)] = IF newKey THEN @ + 1 ELSE @]
     /\ totalEntries' = IF newRef THEN totalEntries + 1 ELSE totalEntries
     /\ reservedEntries' = IF newRef /\ isReservedTenant(k.tenant)
                           THEN reservedEntries + 1 ELSE reservedEntries
     /\ servingByScope' =
          [servingByScope EXCEPT ![<<scopeKey(k), r>>] = IF newRef THEN @ + 1 ELSE @]
     /\ entries' = [y \in DOMAIN entries \cup {x} |->
                      IF y = x THEN [lastSeen |-> ts, accessCount |-> count]
                      ELSE entries[y]]

removeReplicaLocked(x) ==
  LET k == x[1]
      lastReplica == Holders(k) = {x}
  IN IF x \notin DOMAIN entries THEN UNCHANGED dataVars
     ELSE /\ entries' = [y \in DOMAIN entries \ {x} |-> entries[y]]
          /\ totalEntries' = totalEntries - 1
          /\ reservedEntries' = IF isReservedTenant(k.tenant)
                                THEN reservedEntries - 1 ELSE reservedEntries
          /\ prefixes' = IF lastReplica THEN prefixes \ {k} ELSE prefixes
          /\ prefixesByTenant' =
               [prefixesByTenant EXCEPT ![k.tenant] = IF lastReplica THEN pred(@) ELSE @]
          /\ prefixesByTenantModel' =
               [prefixesByTenantModel EXCEPT ![modelKey(k)] = IF lastReplica THEN pred(@) ELSE @]
          /\ servingByScope' =
               [servingByScope EXCEPT ![<<scopeKey(k), x[2]>>] = pred(@)]

statsScopeAddLocked(t, m, r) ==
  replicasByModel' = [replicasByModel EXCEPT ![<<t, m>>] = @ \cup {r}]

(* Deletes a set of stats entries, each with its statsScopeRemoveLocked.   *)
removeStats(gone) ==
  /\ stats' = [s \in DOMAIN stats \ gone |-> stats[s]]
  /\ replicasByModel' = [tm \in Tenant \X Model |->
       replicasByModel[tm] \ {s[3] : s \in {s \in gone : <<s[1], s[2]>> = tm}}]

-----------------------------------------------------------------------------
(* Victim selection.                                                       *)

(* A prefix is as old as its freshest replica.                             *)
age(k) == CHOOSE t \in {entries[x].lastSeen : x \in Holders(k)} :
            \A x \in Holders(k) : entries[x].lastSeen <= t

olderPrefix(k, l) ==
  \/ age(k) < age(l)
  \/ age(k) = age(l) /\ KeyRank(k) < KeyRank(l)

(* The cap sweep's order: LFU count (0 in an LRU namespace), then age,     *)
(* then identity.                                                          *)
evictedBefore(x, y) ==
  LET a == <<effectiveCount[x], entries[x].lastSeen, KeyRank(x[1]), ReplicaRank(x[2])>>
      b == <<effectiveCount[y], entries[y].lastSeen, KeyRank(y[1]), ReplicaRank(y[2])>>
  IN \E i \in 1..4 : a[i] < b[i] /\ \A j \in 1..(i - 1) : a[j] = b[j]

(* Mutant: reserved entries are victims too. *)
capCandidates_All == DOMAIN entries

capCandidates == {x \in DOMAIN entries : ~isReservedTenant(x[1].tenant)}

(* Mutant: reserved entries fill the cap. *)
overCap_CountsReserved == MaxEntries > 0 /\ totalEntries > MaxEntries

(* Mutant: the cap is one too large. *)
overCap_OffByOne == MaxEntries > 0 /\ totalEntries - reservedEntries > MaxEntries + 1

overCap == MaxEntries > 0 /\ totalEntries - reservedEntries > MaxEntries

capCounts == [x \in DOMAIN entries |->
                IF x[1].tenant \in policy.lfu THEN entries[x].accessCount ELSE 0]

matchesEvent(k, ev) ==
  /\ k.tenant = ev.tenant
  /\ k.model = ev.model
  /\ ev.type = "evicted" =>
       /\ k.prefixHash = ev.prefixHash
       /\ ev.adapter # NoAdapter => k.adapter = ev.adapter

-----------------------------------------------------------------------------
(* Locking.                                                                *)

goto(w, label) == pc' = [pc EXCEPT ![w] = label]

lock(w, from, to) ==
  /\ pc[w] = from
  /\ mu = NoWorker
  /\ mu' = w
  /\ goto(w, to)

unlock(w) ==
  /\ mu' = NoWorker
  /\ goto(w, "report")
  /\ request' = [request EXCEPT ![w] = NoRequest]
  /\ quota' = [quota EXCEPT ![w] = NoQuota]
  /\ now' = [now EXCEPT ![w] = ZeroTime]

-----------------------------------------------------------------------------
(* Ingest                                                                  *)

IngestBegin(w) ==
  /\ w # Sweeper
  /\ pc[w] = "idle"
  /\ \E u \in Updates :
       /\ request' = [request EXCEPT ![w] = u]
       /\ now' = [now EXCEPT ![w] = orNow(u.timestamp)]
       /\ quota' = [quota EXCEPT ![w] = tenantQuotaFor(u.tenant)]
  /\ goto(w, "ingest")
  /\ UNCHANGED <<dataVars, statsVars, gaugeVars, envVars, mu, todo, doomed, effectiveCount>>

IngestLock(w) ==
  /\ lock(w, "ingest", "upsert")
  /\ todo' = keysOf(request[w])
  /\ UNCHANGED <<dataVars, statsVars, gaugeVars, localVars, envVars, doomed, effectiveCount>>

IngestUpsert(w) ==
  /\ pc[w] = "upsert"
  /\ todo # {}
  /\ LET k == CHOOSE k \in todo : TRUE
     IN /\ upsertReplicaLocked(k, request[w].replica, now[w])
        /\ todo' = todo \ {k}
  /\ UNCHANGED <<statsVars, gaugeVars, localVars, envVars, mu, pc, doomed, effectiveCount>>

IngestStats(w) ==
  LET u == request[w]
      s == <<u.tenant, u.model, u.replica>>
  IN /\ pc[w] = "upsert"
     /\ todo = {}
     /\ IF u.stats
        THEN /\ stats' = [y \in DOMAIN stats \cup {s} |->
                             IF y = s THEN now[w] ELSE stats[y]]
             /\ statsScopeAddLocked(u.tenant, u.model, u.replica)
        ELSE UNCHANGED statsVars
     /\ goto(w, "quota")
     /\ UNCHANGED <<dataVars, gaugeVars, localVars, envVars, mu, todo, doomed, effectiveCount>>

(* Mutant: the budget is one too large. *)
overQuota_OffByOne(w) == quota[w] >= 0 /\ prefixesByTenant[request[w].tenant] > quota[w] + 1

overQuota(w) == quota[w] >= 0 /\ prefixesByTenant[request[w].tenant] > quota[w]

(* One replica of the tenant's oldest prefix leaves; the prefix stays the  *)
(* oldest until its last replica is gone, and only then does the count     *)
(* drop, so prefixes leave whole.                                          *)
evictOldestForTenantLocked(w) ==
  /\ pc[w] = "quota"
  /\ overQuota(w)
  /\ \E k \in {k \in prefixes : k.tenant = request[w].tenant} :
       /\ \A l \in {l \in prefixes : l.tenant = request[w].tenant} \ {k} : olderPrefix(k, l)
       /\ \E x \in Holders(k) : removeReplicaLocked(x)
  /\ UNCHANGED <<statsVars, gaugeVars, localVars, envVars, mu, pc, todo, doomed, effectiveCount>>

QuotaDone(w) ==
  /\ pc[w] = "quota"
  /\ ~overQuota(w)
  /\ effectiveCount' = IF overCap THEN capCounts ELSE effectiveCount
  /\ goto(w, "cap")
  /\ UNCHANGED <<dataVars, statsVars, gaugeVars, localVars, envVars, mu, todo, doomed>>

enforceCapLocked(w) ==
  /\ pc[w] = "cap"
  /\ overCap
  /\ \E x \in capCandidates :
       /\ \A y \in capCandidates \ {x} : evictedBefore(x, y)
       /\ removeReplicaLocked(x)
  /\ UNCHANGED <<statsVars, gaugeVars, localVars, envVars, mu, pc, todo, doomed, effectiveCount>>

IngestUnlock(w) ==
  /\ pc[w] = "cap"
  /\ ~overCap
  /\ effectiveCount' = Nothing
  /\ unlock(w)
  /\ UNCHANGED <<dataVars, statsVars, gaugeVars, envVars, todo, doomed>>

-----------------------------------------------------------------------------
(* ApplyEvent                                                              *)

EventBegin(w) ==
  /\ w # Sweeper
  /\ pc[w] = "idle"
  /\ \E ev \in Events :
       /\ request' = [request EXCEPT ![w] = ev]
       /\ now' = [now EXCEPT ![w] = orNow(ev.timestamp)]
  /\ goto(w, "event")
  /\ UNCHANGED <<dataVars, statsVars, gaugeVars, envVars, quota, mu, todo, doomed, effectiveCount>>

EventLock(w) ==
  LET ev == request[w]
      s == <<ev.tenant, ev.model, ev.replica>>
  IN /\ lock(w, "event", "remove")
     /\ doomed' = IF ev.type \in {"evicted", "cleared"}
                  THEN {x \in DOMAIN entries : x[2] = ev.replica /\ matchesEvent(x[1], ev)}
                  ELSE {}
     /\ CASE ev.type = "cleared" -> removeStats({s})
          [] ev.type = "updated" /\ s \in DOMAIN stats ->
               /\ stats' = [stats EXCEPT ![s] = now[w]]
               /\ UNCHANGED replicasByModel
          [] OTHER -> UNCHANGED statsVars
     /\ UNCHANGED <<dataVars, gaugeVars, localVars, envVars, todo, effectiveCount>>

-----------------------------------------------------------------------------
(* evictExpired: now is read before the lock, the TTLs under it.           *)

SweepBegin(w) ==
  /\ w = Sweeper
  /\ pc[w] = "idle"
  /\ now' = [now EXCEPT ![w] = clock]
  /\ goto(w, "sweep")
  /\ UNCHANGED <<dataVars, statsVars, gaugeVars, envVars, request, quota, mu, todo, doomed, effectiveCount>>

(* Mutant: an entry exactly as old as its TTL survives. *)
SweepLock_Strict(w) ==
  /\ lock(w, "sweep", "remove")
  /\ doomed' = {x \in DOMAIN entries : now[w] - entries[x].lastSeen > ttlFor(x[1].tenant)}
  /\ UNCHANGED <<dataVars, statsVars, gaugeVars, localVars, envVars, todo, effectiveCount>>

SweepLock(w) ==
  /\ lock(w, "sweep", "remove")
  /\ doomed' = {x \in DOMAIN entries : now[w] - entries[x].lastSeen >= ttlFor(x[1].tenant)}
  /\ removeStats({s \in DOMAIN stats : now[w] - stats[s] >= ttlFor(s[1])})
  /\ UNCHANGED <<dataVars, gaugeVars, localVars, envVars, todo, effectiveCount>>

RemoveDoomed(w) ==
  /\ pc[w] = "remove"
  /\ doomed # {}
  /\ LET x == CHOOSE x \in doomed : TRUE
     IN /\ removeReplicaLocked(x)
        /\ doomed' = doomed \ {x}
  /\ UNCHANGED <<statsVars, gaugeVars, localVars, envVars, mu, pc, todo, effectiveCount>>

RemoveUnlock(w) ==
  /\ pc[w] = "remove"
  /\ doomed = {}
  /\ unlock(w)
  /\ UNCHANGED <<dataVars, statsVars, gaugeVars, envVars, todo, doomed, effectiveCount>>

-----------------------------------------------------------------------------
(* reportEntries: the counts are read while reportMu is held.              *)

EntryCountsByModel ==
  [m \in Model |-> Cardinality({k \in prefixes : k.model = m /\ ~isReservedTenant(k.tenant)})]

(* Mutant: reporters are not serialised. *)
ReportLock_Unserialised(w) ==
  /\ pc[w] = "report"
  /\ reportMu' = w
  /\ goto(w, "count")
  /\ UNCHANGED <<dataVars, statsVars, gauge, reportedModels, counts, localVars, envVars,
                 mu, todo, doomed, effectiveCount>>

ReportLock(w) ==
  /\ pc[w] = "report"
  /\ reportMu = NoWorker
  /\ reportMu' = w
  /\ goto(w, "count")
  /\ UNCHANGED <<dataVars, statsVars, gauge, reportedModels, counts, localVars, envVars,
                 mu, todo, doomed, effectiveCount>>

ReportCount(w) ==
  /\ pc[w] = "count"
  /\ mu = NoWorker
  /\ counts' = EntryCountsByModel
  /\ goto(w, "publish")
  /\ UNCHANGED <<dataVars, statsVars, gauge, reportedModels, reportMu, localVars, envVars,
                 mu, todo, doomed, effectiveCount>>

ReportPublish(w) ==
  /\ pc[w] = "publish"
  /\ gauge' = [m \in Model |-> IF counts[m] > 0 \/ m \in reportedModels
                               THEN counts[m] ELSE gauge[m]]
  /\ reportedModels' = {m \in Model : counts[m] > 0}
  /\ counts' = [m \in Model |-> 0]
  /\ reportMu' = NoWorker
  /\ goto(w, "idle")
  /\ UNCHANGED <<dataVars, statsVars, localVars, envVars, mu, todo, doomed, effectiveCount>>

-----------------------------------------------------------------------------
(* The environment: a lock-free LFU credit of a delivered lookup, a policy *)
(* push that replaces the snapshot, and time.                              *)

CreditHits ==
  /\ \E x \in DOMAIN entries :
       /\ \E p \in Policies : x[1].tenant \in p.lfu
       /\ entries[x].accessCount < MaxCount
       /\ entries' = [entries EXCEPT ![x].accessCount = @ + 1]
  /\ UNCHANGED <<prefixes, totalEntries, reservedEntries, prefixesByTenant,
                 prefixesByTenantModel, servingByScope, statsVars, gaugeVars, localVars,
                 envVars, mu, pc, todo, doomed, effectiveCount>>

ReplaceSnapshot ==
  /\ policy' \in Policies
  /\ policy' # policy
  /\ UNCHANGED <<dataVars, statsVars, gaugeVars, localVars, clock, mu, pc, todo, doomed,
                 effectiveCount>>

Tick ==
  /\ clock < MaxClock
  /\ clock' = clock + 1
  /\ UNCHANGED <<dataVars, statsVars, gaugeVars, localVars, policy, mu, pc, todo, doomed,
                 effectiveCount>>

-----------------------------------------------------------------------------

Init ==
  /\ entries = Nothing /\ prefixes = {} /\ stats = Nothing
  /\ totalEntries = 0 /\ reservedEntries = 0
  /\ prefixesByTenant = [t \in Tenant |-> 0]
  /\ prefixesByTenantModel = [tm \in Tenant \X Model |-> 0]
  /\ servingByScope = [sr \in Scope \X Replica |-> 0]
  /\ replicasByModel = [tm \in Tenant \X Model |-> {}]
  /\ gauge = [m \in Model |-> 0] /\ reportedModels = {}
  /\ counts = [m \in Model |-> 0]
  /\ policy \in Policies
  /\ clock = 1
  /\ mu = NoWorker /\ reportMu = NoWorker
  /\ pc = [w \in Worker |-> "idle"]
  /\ request = [w \in Worker |-> NoRequest]
  /\ quota = [w \in Worker |-> NoQuota]
  /\ now = [w \in Worker |-> ZeroTime]
  /\ todo = {} /\ doomed = {} /\ effectiveCount = Nothing

Step(w) ==
  \/ IngestLock(w) \/ IngestUpsert(w) \/ IngestStats(w)
  \/ evictOldestForTenantLocked(w) \/ QuotaDone(w)
  \/ enforceCapLocked(w) \/ IngestUnlock(w)
  \/ EventLock(w) \/ SweepLock(w) \/ RemoveDoomed(w) \/ RemoveUnlock(w)
  \/ ReportLock(w) \/ ReportCount(w) \/ ReportPublish(w)

Next ==
  \/ \E w \in Worker : IngestBegin(w) \/ EventBegin(w) \/ SweepBegin(w) \/ Step(w)
  \/ CreditHits \/ ReplaceSnapshot \/ Tick

Spec == Init /\ [][Next]_vars

(* A goroutine that can run eventually runs (strongly fair where it waits  *)
(* for a lock: sync.Mutex and sync.RWMutex do not starve a waiter), and    *)
(* the sweep ticker keeps firing.                                          *)
Fairness == /\ \A w \in Worker : SF_vars(Step(w))
            /\ WF_vars(SweepBegin(Sweeper))

FairSpec == Spec /\ Fairness

-----------------------------------------------------------------------------
(* Properties                                                              *)

Critical == {"upsert", "quota", "cap", "remove"}
Reporting == {"count", "publish"}
Label == {"idle", "ingest", "event", "sweep", "report"} \cup Critical \cup Reporting

DataTypeOK ==
  /\ DOMAIN entries \subseteq Ref /\ IsFiniteSet(DOMAIN entries)
  /\ entries \in [DOMAIN entries -> [lastSeen : Time, accessCount : Nat]]
  /\ prefixes \subseteq PrefixKey /\ IsFiniteSet(prefixes)
  /\ totalEntries \in Nat /\ reservedEntries \in Nat
  /\ prefixesByTenant \in [Tenant -> Nat]
  /\ prefixesByTenantModel \in [Tenant \X Model -> Nat]
  /\ servingByScope \in [Scope \X Replica -> Nat]

StatsTypeOK ==
  /\ DOMAIN stats \subseteq StatsKey
  /\ stats \in [DOMAIN stats -> Time]
  /\ replicasByModel \in [Tenant \X Model -> SUBSET Replica]

ControlTypeOK ==
  /\ gauge \in [Model -> Nat] /\ counts \in [Model -> Nat] /\ reportedModels \subseteq Model
  /\ policy \in Policies /\ clock \in Time
  /\ pc \in [Worker -> Label]
  /\ request \in [Worker -> Updates \cup Events \cup {NoRequest}]
  /\ \A w \in Worker : /\ pc[w] \in {"ingest", "upsert", "quota", "cap"} => request[w] \in Updates
                       /\ pc[w] = "event" => request[w] \in Events
  /\ quota \in [Worker -> Nat \cup {NoQuota}]
  /\ now \in [Worker -> Time]
  /\ todo \subseteq PrefixKey /\ doomed \subseteq Ref

(* The locks are held exactly by the worker inside their sections.         *)
LocksOK ==
  /\ mu \in Worker \cup {NoWorker} /\ reportMu \in Worker \cup {NoWorker}
  /\ \A w \in Worker : /\ mu = w <=> pc[w] \in Critical
                       /\ reportMu = w <=> pc[w] \in Reporting

(* Every variable has its type, a request matches the step it is at, and   *)
(* each lock is held by at most the one worker inside its section.         *)
TypeOK == DataTypeOK /\ StatsTypeOK /\ ControlTypeOK /\ LocksOK

ReservedRefs == {x \in DOMAIN entries : isReservedTenant(x[1].tenant)}
PrefixesOf(t) == {k \in prefixes : k.tenant = t}
PrefixesOfModel(tm) == {k \in prefixes : modelKey(k) = tm}
ServedBy(sr) == {x \in DOMAIN entries : <<scopeKey(x[1]), x[2]>> = sr}

DataConsistent ==
  /\ prefixes = {x[1] : x \in DOMAIN entries}
  /\ totalEntries = Cardinality(DOMAIN entries)
  /\ reservedEntries = Cardinality(ReservedRefs)
  /\ \A t \in Tenant : prefixesByTenant[t] = Cardinality(PrefixesOf(t))
  /\ \A tm \in Tenant \X Model : prefixesByTenantModel[tm] = Cardinality(PrefixesOfModel(tm))
  /\ \A sr \in Scope \X Replica : servingByScope[sr] = Cardinality(ServedBy(sr))

StatsConsistent ==
  \A tm \in Tenant \X Model :
    replicasByModel[tm] = {r \in Replica : <<tm[1], tm[2], r>> \in DOMAIN stats}

(* The six secondary indexes agree with the maps they summarise after      *)
(* every single upsert and removal (the "lockstep" of accounting.go): a    *)
(* prefix key is present exactly while a replica holds it, and every       *)
(* counter is the cardinality it stands for.                               *)
IndexConsistent == DataConsistent /\ StatsConsistent

RealEntries == {x \in DOMAIN entries : x[1].tenant \notin ReservedTenants}

(* Whenever the lock is free, the entries of real tenants fit the cap,     *)
(* however handlers, sweeps, credits and policy pushes interleave.         *)
CapHolds ==
  MaxEntries > 0 /\ mu = NoWorker => Cardinality(RealEntries) <= MaxEntries

(* An Ingest for a reserved (probe) tenant never removes or touches an     *)
(* entry of a real tenant: "a probe ingest never triggers eviction".       *)
ReservedIngestHarmless ==
  [][\A w \in Worker :
       /\ pc[w] \in {"upsert", "quota", "cap"}
       /\ isReservedTenant(request[w].tenant)
       => \A x \in RealEntries :
            x \in DOMAIN entries' /\ entries'[x].lastSeen = entries[x].lastSeen]_vars

ttlUnder(p, t) == IF p.ttl[t] > 0 THEN p.ttl[t] ELSE DefaultTTL

(* No entry leaves the index without cause: a sweep removes only what had  *)
(* outlived a TTL when it read the clock; an event removes only its own    *)
(* replica's holds in its own (tenant, model); an Ingest removes another   *)
(* tenant's entry only if real tenants exceed the cap, and never a         *)
(* reserved one; it removes its own tenant's only over budget or over cap. *)
RemovalJustified ==
  [][\A w \in Worker, x \in DOMAIN entries \ DOMAIN entries' :
       mu = w =>
         \/ /\ pc[w] = "remove" /\ w = Sweeper
            /\ \E p \in Policies : now[w] - entries[x].lastSeen >= ttlUnder(p, x[1].tenant)
         \/ /\ pc[w] = "remove" /\ w # Sweeper
            /\ x[2] = request[w].replica
            /\ x[1].tenant = request[w].tenant /\ x[1].model = request[w].model
         \/ /\ pc[w] = "quota"
            /\ x[1].tenant = request[w].tenant
            /\ Cardinality(PrefixesOf(x[1].tenant)) > quota[w]
         \/ /\ pc[w] = "cap"
            /\ x \in RealEntries
            /\ Cardinality(RealEntries) > MaxEntries]_vars

(* When an Ingest releases the lock, its tenant holds at most the budget   *)
(* the handler resolved before it took the lock, whatever it stored and    *)
(* whatever the sweep and the others removed.  A budget pushed in between  *)
(* is enforced by the tenant's next Ingest.                                *)
QuotaAtUnlock ==
  [][\A w \in Worker :
       pc[w] = "cap" /\ pc'[w] = "report" /\ quota[w] # NoQuota
       => Cardinality(PrefixesOf(request[w].tenant)) <= quota[w]]_vars

(* Once every handler has returned, the gauge shows the live per-model     *)
(* counts, whatever order the reporters ran in.                            *)
GaugeAtRest ==
  (\A w \in Worker : pc[w] = "idle")
    => \A m \in Model : gauge[m] = Cardinality({x[1] : x \in {y \in RealEntries : y[1].model = m}})

(* An entry past its tenant's TTL leaves the index unless it is refreshed  *)
(* or the TTL is raised first.                                             *)
Expired(x) == x \in DOMAIN entries /\ clock - entries[x].lastSeen >= ttlFor(x[1].tenant)
ExpiredIsSwept == \A x \in Ref : Expired(x) ~> ~Expired(x)

=============================================================================
