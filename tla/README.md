# TLA+ models of inference-cache

inference-cache is a control plane for the KV caches of LLM inference engines. A sidecar next
to each engine turns the engine's KV-cache events into reports; a policy server keeps them in
an in-memory index and answers `LookupRoute` with hints ("this replica already holds this
prefix"); a Kubernetes controller pushes policies to the server, polls its state, and keeps
the status of the `CacheBackend`, `CacheIndex` and `CacheTenant` resources. Everything the
server knows is *soft state*: a wrong hint costs a cache miss, never a wrong answer. What can
go wrong is therefore not data loss but drift: counters that no longer match the map, hints
that outlive what they describe, limits that are not enforced, snapshots applied out of order.
The models here state what the code promises about that drift.

## 1. The system

| Part | Code (`src/`) | State | Operations | Model |
|---|---|---|---|---|
| Prefix index | `internal/index/{index,ingest,accounting,eviction}.go` | `prefixes`, six counters and secondary indexes, `stats`, `mu`, `reportMu` | `Ingest`, `ApplyEvent`, `evictExpired`, `enforceCapLocked`, `evictOldestForTenantLocked`, `reportEntries`, `CreditHits` | `PrefixIndex` |
| Self-test and its authentication | `internal/server/probe.go`, `internal/server/auth/middleware.go` | run lock per (backend, model), reserved tenant, token cache | `probeHandler`, `Run`, `cleanup`, `Middleware`, `cacheHit`, `cachePut` | `Prober`, `Authenticator` |
| KV-event pipeline | `internal/subscriber/{subscriber,positional,forwarder,mapper}.go`, `cmd/kvevent-subscriber` | reverse map, add buffer, one call in flight | `BlockStored`, `BlockRemoved`, `AllBlocksCleared`, window flush, drain | `KVEventPipeline` |
| Engine statistics | `internal/subscriber/{stats_reporter,metrics_scraper}.go` | previous counters, outage flag | `tick`, `Scrape` | `StatsReporter` |
| Lookup | `internal/index/{lookup,ranking,types}.go`, `internal/server/inferencecache_service.go` | read locks, deadline, tokenizer semaphore | `LookupRoute`, chain match, tenant-hot, affinity, floors | `LookupRoute` implements `LookupContract` |
| Policy propagation | `internal/controller/controlplane_controller.go`, `internal/server/policy.go` | informer caches, work queue, `pushMu`, `PolicyStore` | `Reconcile`, periodic `Start`, `pushSnapshot`, `ReplaceSnapshot` | `PolicyResolve`, `PolicyPush`, `PolicyStore` |
| CachePolicy and CacheTenant webhooks | `internal/webhook/v1alpha1/cache{policy,tenant}_webhook.go` | requests under review | `ValidateCreate`, `ValidateUpdate` | `PolicyAdmission` |
| CacheIndex poller | `internal/controller/cacheindex_{controller,metrics}.go`, `internal/index/snapshot.go` | last scrape, statuses, tier-2 series | `refresh` and its projections | `IndexSnapshot`, `CacheIndexPoller` |
| CacheBackend reconciler and readiness | `internal/controller/cachebackend_*.go` | owned workload, latched timestamps, rate limiter, conditions | dispatch per mode, apply, cleanup, the four gates, status patches | `BackendStatus` |
| NodeLocal servers | `internal/controller/cachebackend_lmcache_nodelocal.go`, `..._mp_status.go` | one server pod per node, cleanup pods, finalizer | reconcile, cleanup, finalize, status | `NodeLocal` |
| CacheBackend webhooks | `internal/webhook/v1alpha1/cachebackend_*.go` | requests under review | defaults, validation, overlap check | `BackendAdmission` |
| Pod injection | `internal/webhook/pod`, `internal/adapters`, `internal/controller/engine_pod_events_controller.go` | pods, annotations | `Handle`, adapters, overrides, event | `EngineArgs`, `RuntimeAdapters`, `PodInjection` |
| Decoding, tokenizer, process wiring, CLI | see `PROJECT.json` | none | parsing, I/O | not modelled |

How the parts meet: engine -> subscriber -> `ReportCacheState`/`PublishEvent` -> index ->
`LookupRoute`; controller -> `/policy` -> `PolicyStore` -> TTL, quota and eviction algorithm of
the index and the gates of `LookupRoute`; controller <- `/snapshot` and `/probe` <- server;
webhooks -> resources -> pushers, poller and reconciler; pod webhook -> engine pods -> NodeLocal
servers and readiness.

What makes it hard, and where the models put it:

* *Interleaving.* Handlers, the TTL sweep, the gauge reporters and policy pushes run
  concurrently. `PrefixIndex` gives every handler a program counter and takes one step per
  upsert or removal, with both mutexes explicit. Between lock and unlock no other worker can
  touch the map, and this is a consequence of the guards, not of the step size. `Prober` runs
  its ingest and its cleanup through exactly these steps.
* *Values read before they are used.* The quota and the clock before `mu`; the policy at up to
  nine points of one lookup; the listing a webhook judged by, long before the object is stored;
  the consumers of a directory before its cleanup is released.
* *Faults.* Lost events, failed calls, calls abandoned by a timeout that still arrive, crashes
  of engine, sidecar, server and controller (`KVEventPipeline`, `StatsReporter`, `PolicyPush`);
  every API call of a reconcile or refresh that can fail, and informer caches that trail the API
  server and the controller's own writes (`BackendStatus`, `NodeLocal`, `CacheIndexPoller`); a
  webhook that does not answer (`PodInjection`).
* *Order.* Buffered adds against immediate evictions; list-then-POST of two pushers; cleanup
  against server creation.
* *Limits.* Global cap, per-tenant quota, reserved tenants, a full add buffer, the tokenizer's
  slots, a full token cache.

`PROJECT.json` lists the hazards with their lines and the properties that would catch them.

## 2. Modules

### PrefixIndex

State: `entries` is `Index.prefixes` flattened to a function from (prefix key, replica) to
`lastSeen` and access count; `prefixes` is its set of keys; `totalEntries`, `reservedEntries`,
`prefixesByTenant`, `prefixesByTenantModel`, `servingByScope`, `replicasByModel` are the
incrementally maintained counters; `stats` maps a replica with statistics to their time;
`gauge` and `reportedModels` what the metrics hold. Token counts, tiers and the statistics'
values are left out: no writer of the index branches on them.

| Action | Code |
|---|---|
| `IngestBegin`, `IngestLock`, `IngestUpsert`, `IngestStats`, `evictOldestForTenantLocked`, `QuotaDone`, `enforceCapLocked`, `IngestUnlock` | `Ingest`, in this order |
| `EventBegin`, `EventLock`, `RemoveDoomed`, `RemoveUnlock` | `ApplyEvent` |
| `SweepBegin`, `SweepLock`, `RemoveDoomed`, `RemoveUnlock` | `evictExpired` |
| `ReportLock`, `ReportCount`, `ReportPublish` | `reportEntries` |
| `CreditHits` | `LookupResult.CreditHits` (lock-free, any time) |
| `ReplaceSnapshot`, `Tick` | a policy push; the clock |

The map iterations of Go visit entries in an order of their own. `IngestUpsert` and
`RemoveDoomed` fix one, some remaining element next: the lock is held throughout, and upserts or
removals of different entries commute. The sorted evictions pick the least element of the
comparator, which the code makes total.

### KVEventPipeline

One replica, end to end. A prefix hash is modelled by what it identifies, the path of token
blocks from position 0, so collisions are abstracted away and the chaining across events is
not. A timestamp is modelled by its age, capped at the TTL, so no clock bound is needed. The
`Reporter` is single-threaded and its calls are synchronous: `outbox` holds the calls the loop
still makes (it waits for the first), `late` the calls it gave up on, which may be ingested at
any later time or never. History variables record which keys a failed or late call was about
(`tainted`, until the next call about the key is served), whether the stream or the reverse map lost something (`lossy`), why the server dropped a key
(`gone`) and the age of the engine's last store or eviction of a key (`since`). The engine and
its PUB socket are outside `src/` and are modelled from the events the decoder accepts. An
undecodable or unindexable event counts as lost.

The server side of this module (`apply`) is one replica's view of `Ingest` and `ApplyEvent`,
including the wildcard meaning of an empty adapter id; `PrefixIndex` models the same code at
lock granularity.

### PolicyPush

Resources change at the API server; watches copy them to the informer caches and enqueue a
reconcile; the watch-driven and the periodic pusher lock `pushMu`, list both kinds (two reads,
not atomic with each other), and POST. The POST is handled, fails, or is abandoned by its
client and handled later. Stamps count the changes a listing reflects; they are history and
the store does not look at them. `firstPerKey` is the sort-and-skip of `resolvePolicies` and
`resolveTenants`; the properties use an independent definition (`Decides`). The values of a
policy are one opaque number: its fields are flattened one by one without interaction.
Several pending reconcile requests are one flag, since every reconcile pushes everything.

### BackendStatus

One CacheBackend. `cr` is the stored object (spec, generation, the two annotations the gates
read, status), `cache` the informer copy; `dep`, `depCache` the managed Deployment and its copy,
`svc` its Service; `engine`, `kernel`, `plane` what the matched pods, their kernel check and the
server's self-test report ("off": the controller has no probe URL); `limiter` the in-memory probe
rate limiter; `job` the reconcile in flight; `queued` and `timer` the work queue and a pending
`RequeueAfter`. Timestamps are ages capped at `MaxAge`. `left` holds what remains of each bound:
edits, changes of the world, polls, failed calls, restarts, recreations, reads of an old copy.

| Action | Code |
|---|---|
| `ReconcileNotFound`, `ReconcileManaged`, `ReconcileExternal`, `ReconcileServerless`, `ReconcileUnmanaged`, `CleanupFailed` | `Reconcile` up to the status patch: the cached read, `dispatch`, apply or cleanup, and the verdict |
| `PatchStatus` | `patchStatus` (skip, send, or fail and roll back) and `commitMark` |
| `FinishReconcile` | `refreshLMCacheMPConnectorStatus` with its own patch, the requeue, `emitTransitionEvents` |
| `WatchCacheBackend`, `WatchDeployment`, `RequeueAfter`, `Restart` | controller-runtime |
| `PollParticipation` | the CacheIndex poller's patch of `lastEventAt` |
| `EditSpec`, `Annotate`, `Delete`, `Recreate`, `DeploymentChanges`, `EngineChanges`, `PlaneChanges`, `Tick` | operator, cluster, server, clock |

A status patch is a JSON merge patch without a resourceVersion: each top-level field that differs
from what was read is written, the condition list as a whole. Both informer copies follow with
any delay, so a reconcile may judge by a CacheBackend from before the controller's own last patch
and put back that copy's conditions. `hist` names the two consequences that the code does not
exclude: `behind`, the stored verdict is such a reconcile's, and `unprobed`, no probe was due for
it (a rate-limit slot inherited from a deleted CacheBackend of the name, or no probe URL). The
safety properties say what holds otherwise, and `VerdictsRenewed` that neither lasts. An
apply may fail at the Deployment, at the Service, or at the read of the endpoint, and a cleanup
before or after the Deployment is deleted, with what came before done. The admission rules make every LMCache backend but an events-only one a typed
one, and the unmanaged ones are SGLang HiCache. Of the topologies, PodLocal is modelled. Left
out, because nothing modelled depends on them: `T2Degraded`, `EngineCompatibility`, `Progressing`
(a function of Ready), the matched-pod count, the `failOpen` echo, and the transition events other
than KVEventsObserved. Left out, although the code handles it: workloads of the same name owned by
someone else.

Other modules, shorter:

**Prober, Authenticator.** `Prober` extends `PrefixIndex`: a `/probe` handler passes the
authenticator (`Arrive`, `Review`, `Put`), takes `runMu` of its (backend, model), and makes its
`Ingest`, lookup and cleanup as one of the index's workers. `Revoke` changes what the API
server confirms. The token cache is `authCache`, from tokens to expiry; `confirmed` is history.

**LookupRoute, LookupContract, PolicyStore.** One action per critical section or gate of the
handler (`call[h].pc` is its place), because index, statistics and policy may change between
any two of them. The index is seen from the read side, as a function from keys to entries.
`resolveTokens` runs in a goroutine that holds a tokenizer slot and may outlive the call
(`orphans`). Scores are integers over a common denominator; the affinity digest is a constant
operator. `LookupContract` is what a gateway may rely on; `Contract == INSTANCE LookupContract
WITH ...` is the refinement mapping, whose `answer` is filled in the delivering step only.
`PolicyStore` gives the accessors, and the defaults that `ReplaceSnapshot` fills into bodies of
an older controller; the handler reads them.

**PolicyAdmission.** Extends `PolicyPush`: `Submit`, `Validate` (against a live list), `Store`
(unless the object moved on) and `Delete`. Two clients' requests may be between the first two
and the third together.

**IndexSnapshot, CacheIndexPoller.** `IndexSnapshot` holds the read-side counts and projections;
`CacheIndexPoller` performs one API call per step, in the order of `refresh`, with the index,
the pods and the resources changing in between. Each read returns what is stored or what the
informer showed last (`seen`). `p.missed` are the objects of which this refresh could not say
anything: a patch that failed, a tainted namespace, a copy older than the poller's own last write.
It shares `firstPerKey` with `PolicyPush`, so
"the tenant whose status is written" and "the tenant whose quota is pushed" are compared as the
code computes them.

**StatsReporter.** The scraper's family selection, label filter, per-rank and per-priority
aggregation and counter baseline; the tick's delivery and its outage counter. The engine's
exposition is external and generated from its counters and load.

**NodeLocal.** `rec` is the pass of the reconcile under way and the nodes it has still to visit.
Pods are sets with at most one object. `dirt` is a non-empty directory. `seen` holds the listing
that a stalled informer keeps showing; servers and cleanups are listed from it, and the requests
go to what is there. The retry of a failed cleanup is created one step before the failed one is deleted.
`backend.released` records that the finalizer went and whether the lists it went by were current.
The backend object itself is read as it is. Engines come, are gated, start, end and leave; kubelet
steps (`Schedule`, `ServerStarts`, `CleanupRuns`, `PodGone`) are external.

**EngineArgs, RuntimeAdapters, BackendAdmission, PodInjection.** The first two are pure
operators: an argv is a sequence of (flag, value) tokens and an environment a sequence of (name,
value) pairs, both in the order the container has them; an adapter yields `{pod'}` or `{}`.
`BackendAdmission` has the validation rules, the defaults, a write as two steps, and `Publish`,
with which the reconciler brings the status endpoint to the present spec, at any later time.
`PodInjection` composes the three: the webhook's answer (`Handle`), which reads spec and status of
the backend as they are, the later storage of the pod, and the event that the controller emits for
it.

A number of MC modules have a variable `story`, chosen in the initial state and never changed,
that selects which actions and inputs a behaviour may use. It keeps independent questions about
one module from multiplying each other's states.

## 3. Runs

Passing runs (each takes half a minute to four minutes with two workers):

| Run | Shows | Bounds |
|---|---|---|
| `index_budget` | counters exact, cap and quota hold, a probe ingest harms nobody, no entry leaves without a cause; expired entries are swept although TTLs change, every handler returns | 3 tenants (one reserved), 2 prefixes, cap 2, quota 1, TTL 1 or 2, clock 2, one ingest and one sweep in flight: every pair of tenants can compete for every slot |
| `probe_calls` | every kind of update and event keeps the secondary indexes exact and the gauge ends at the live counts; overlapping self-tests raise no false alarm, leave nothing behind and are answered; the token cache is bounded and admits nothing on an expired confirmation | 2 models, schemes, adapters, 3 replicas (each index has a key that survives a removal and one that does not); 2 probers, cap 3, TTL 1, clock 3; 2 tokens for 1 cache slot |
| `pipeline_blocks` | reverse map exact, hints backed, stores hinted, downgrades keep the eviction's age, for a key that a failed or late call was about again once the next call about it is served; phantoms expire, a suffix keyed as a root fades, flushes finish | a chain of 2 blocks, the same tokens under an adapter, an unmapped adapter; buffer 2, one event in transit, TTL 1, one fault and one lost event |
| `push_converge` | an awaited push never puts back an older snapshot; the store ends equal to what the first resource per key says; resources collide only if their requests raced, an update breaks no rule anew, a refusal names the policy in force | 2 policies in one namespace, 3 tenants (two with one id, one without), 2 changes of each kind, one failed or abandoned push, one restart; 2 clients over leftovers of an earlier release |
| `status_paths` | the latch settles the KV-event gate, a breach sticks, the first event is announced once, a backend that becomes serverless gets a whole window; no Ready without a probe verdict, no generation claimed that was not applied, a probe failure fades only by a success, the bypass, another mode or a controller without a probe URL | a created backend: all 5 modes, one edit, 1 or 2 polls, and one of a failed call, a restart, a change or an old copy read; a running managed one: 2 changes with a poll, an old copy or a restart, or one change with an edit or a recreation and an old copy; 4 server behaviours, Deployment copies of any age |
| `status_live` | the wait for the first event ends, woken by the gate's requeue alone; a backend whose parts stay healthy becomes and stays Ready, one whose self-test keeps failing does not stay Ready, a latched event prevails, whatever old copies were read before | managed, or events-only without a selector; 2 server behaviours, strict kernel failure; 2 changes or 2 polls with an old copy read, or one change with a failed call and a restart, or with a recreation |
| `lookup_calls` | `LookupRoute` implements `LookupContract`; answers are grounded in what the index held throughout the call, every gate is honoured, slots match running encodes, an expired call only times out, the match (or the miss) is that of the longest run, a deeper match never scores lower | 12 request shapes, 2 replicas; one change at any step of one call, two calls in a row, or one call while a chain ages block by block; 1 tokenizer slot |
| `poller_refresh` | the projections of one refresh agree with each other and with what is pushed; a failed lookup never reads as a drain; tier-2 series follow their backends, the query counter never falls; every status, and the total, ends right | 2 backends, overlapping and wired engines, 3 tenants with one id; one change with a failed call or a trailing read anywhere, or two changes with a trailing read |
| `stats_load` | samples tell the truth about load and hit rate, an outage is announced exactly once, the server ends with the current load | both engines' profiles and a wrong one, 2 ranks, 2 queries, a load below and one at the ceiling, one change or restart, 2 faults, alarm after 2 ticks |
| `nodelocal_servers` | no directory is emptied under an engine, one live cleanup per node, nobody uses a directory when the finalizer goes and nothing is left then or later, gates open, the finalizer is let go, the status settles | one node, 2 engines, 2 generations, 3 kinds of spec, 2 changes, one fault (a failed call, a refused delete, a failed cleanup, a stalled informer) and a failed cleanup beside it, 1 retry, at most 4 disturbances |
| `injection` | admitted specs suffice for the adapters, a stamp is true of arguments, environment, server, memory and storage, the template is kept, admission twice equals once, events tell the truth and come; overlaps only by races, no new violation | 2 backends and 2 writers with some hundred specs; some thirty templates; a status that trails its spec; one fault, one restart |

The bounds are small because one step of each kind is enough for the interleavings in question:
one abandoned call can arrive after any later one, one stale read can precede any write. Where
two independent slips might combine, two are allowed: a fault and a lost event in the pipeline,
a fault and a restart in the push and in the status, two faults in the statistics. One node
suffices for `NodeLocal`, since its passes treat nodes alike and share no state among them but
the finalizer, which needs all nodes empty.

Deadlock is checked except where the system may stop: when all calls are answered
(`lookup_calls`), when a deleted backend is gone (`nodelocal_*`), and when all writes and pods
are done (`injection`).

One run refutes a statement of the repository:

| Run | Statement | What happens |
|---|---|---|
| `nodelocal_wipe` | `cachebackend_lmcache_nodelocal.go:585`: an engine admitted after the snapshot cannot use the directory while cleanup runs, because the cleanup pod blocks the server | it blocks the creation of a server. When the delete of an unscheduled server is refused, that server is skipped by `nodeLocalShmConsumers` (it has no node yet), the cleanup is released, the server starts and an engine passes its gate |

`nodelocal_servers` shows the same property (`NoWipeUnderUse`) with that case excepted, and that of
a list which still shows as gated a cleanup that was released.

Limits of what the passing runs say, each seen in a variant of a run above:

* A LoRA hint removed by a base-model eviction of the same tokens (`ingest.go:178`) stays absent
  while the engine keeps the block, since a block is reported only when it is stored.
  `HoldsHinted` therefore excepts keys removed that way.
* A managed backend deleted and recreated before the deletion is reconciled inherits the old
  rate-limit slot and may be Ready unprobed until that slot expires.
* A reconcile that reads a CacheBackend older than its own last patch may announce
  KVEventsObserved a second time, put back a wait that the latch had settled, or a Ready that the
  probe had refused; the reconcile that the cache update queues corrects it.
* `StickyDegraded` holds for events-only backends whatever is edited, elsewhere as long as the
  timeout is not raised: the edit first yields ConnectorUnverified, which overwrites the reason
  that stickiness is read from (`cachebackend_status.go:430`).
* A poller whose copy of a status trails its own write takes a status that went from A to B and
  back to A for written, and `refresh` returns without an error (compare
  `cacheindex_controller.go:168`); the next refresh writes it.
* A hit rate over an engine restart is wrong if the new process has served more queries than the
  baseline holds by the next scrape: the reset cannot be seen. It is wrong for one sample.
* With an informer that trails, the finalizer may go while a cleanup pod that the same reconcile
  created is left to the garbage collector; two cleanups of one node may be under way after two
  retries; and of two failed attempts both may be deleted with no retry.
* `StampIsTrue` leaves out the node's address where an override replaces or suppresses it
  (`INFERENCECACHE_NODE_IP` is not reserved), the storage endpoint of a pod that was admitted while
  the status trailed the spec (`effectiveEndpoint` prefers the status; the stamp carries the new
  generation), and a reserved flag that the template says twice or right after a bare
  `--lmcache-config-file` (`runtime_helpers.go:81`), which the path overwrites.
* A cached admission is bounded from the time of `cachePut`; the code puts no bound on the time
  between the review and the insertion.
* The self-test runs once per prober and its tier-2 call is assumed to return; panics of a handler
  are not modelled.

Every property of a passing run has a mutant in `PROJECT.json`: a plausible bug, kept next to
the definition it distorts and marked "Mutant" or named `<definition>_<Bug>`, under which TLC finds the property violated.

Fairness. No fault and no operator action is fair.

* `PrefixIndex`, `Prober`: strong fairness of each handler's steps (a handler waits for a mutex
  that others take and release, and Go's mutexes do not starve a waiter) and weak fairness of
  the start of a sweep (the ticker). Time may stop; the liveness properties hold all the same.
* `KVEventPipeline`: the Reporter's loop, the server and the sweep run, a call ends by its
  deadline, time passes, and `select` serves a ready ticker (strong fairness, since Go chooses
  among ready cases at random).
* `PolicyPush`: watches deliver, the work queue and the ticker run, a mutex waiter is served
  (strong fairness), an abandoned request is handled or lost.
* `BackendStatus`: watches deliver, the worker takes up a queued key and finishes the reconcile,
  a pending requeue expires, time passes. `CacheIndexPoller`: the refresh runs and its informers
  follow. `StatsReporter`: the ticker runs, a late delivery arrives. `PodInjection`: an admitted
  pod is stored, its event is reconciled.
* `LookupRoute`: each handler takes its steps and its deadline passes.
* `NodeLocal`: the reconcile runs, and the cluster does its part: pods are scheduled, start, run
  their cleanup without failing for ever, and disappear when deleted; a stalled informer catches
  up; engines that are leaving leave; retention ends.

Observations made while modelling, where a comment or a document and the code differ without a
run of their own, or where the code's behaviour is easily read otherwise:

* `forwarder.go:241`: "retried by the next flush"; the buffer is emptied whatever the outcome
  (`forwarder.go:126`), and nothing sends the batch again.
* `controlplane_controller.go:182`: an older snapshot cannot land after a newer one; a POST whose
  client timed out may be handled after the next push. The periodic push repairs it.
  `AwaitedPushOrdered` speaks of the pushes somebody waits for.
* `cacheindex_metrics.go:75`: the query counter's `rate()` reflects real growth; the increments
  are taken over a changing set of replicas.
* `cachebackend_status.go:605`: the rollout is read from the cache after the apply and may carry
  the old template's counters; the next Deployment event corrects it.
* NodeLocal: a generation change may leave a directory that no later pass cleans; a retry of a
  failed cleanup is cancelled when the node gets a server again.
* `docs/design/cachebackend-api.md:833` and `podinjector.go:277`: re-admission of a fully injected
  pod yields an empty patch. `ReadmissionStable` names the exceptions: events-only backends, an
  engine container that is found only by being the single one, positional override arguments, which
  are appended again, and a vLLM engine to which an override adds a variable: the adapter removes
  and appends its own variables (`vllm_lmcache_mp.go:288`), which move behind it. SGLang keeps the
  later of two `--lmcache-config-file` flags.
* Admission: a rule broken by the stored object may be broken with another value on update, since
  the errors carry no value to compare.
* The CachePolicy webhook's refusal may name a policy that is not in force when one of the
  request's own name was stored meanwhile. Inserting a token that is already cached into a full
  token cache evicts another one.

## 4. Proofs

Eight modules hold theorems. They hold for all sets of tenants, workers, requests, nodes and so
on that satisfy the named assumptions of the modules (`LookupRoute` assumes finitely many
replicas and handlers), and for every value of the counters that bound a run.

| Module | Theorem | States |
|---|---|---|
| `PrefixIndexProofs` | `TypeCorrect` | types; each mutex has at most one holder |
| | `BookkeepingExact` | `IndexConsistent`: all counters equal the cardinalities they stand for, also between two removals under the lock |
| | `CapTheorem` | `CapHolds`: when `mu` is free, real tenants hold at most `maxEntries` entries |
| | `ReservedTheorem` | `ReservedIngestHarmless` |
| | `QuotaTheorem` | `QuotaAtUnlock` |
| | `RemovalTheorem` | `RemovalJustified` |
| | `GaugeTheorem` | `GaugeAtRest` |
| `ProberProofs` | `ProbeUsesIndex`, `ProbeGaugeTheorem` | the self-test is a client of the index as specified; the gauge stays right beside it |
| | `AlarmTheorem` | `NoFalseAlarm` |
| | `ResidueTheorem` | `NoResidue` |
| | `CacheTheorem` | `CachedAdmission` of the authenticator |
| `PolicyPushProofs` | `OrderTheorem`, `AdmittedOrderTheorem` | `AwaitedPushOrdered`, with arbitrary writers and with admitted ones |
| | `AdmissionTheorem` | `CollisionOnlyByRace`, `NoNewRuleBroken` |
| `LookupRouteProofs` | `SlotsTheorem` | `SlotsMatchEncodes` |
| | `ContractTheorem` | `LookupRoute` implements the safety part of `LookupContract` |
| `LookupGroundProofs` | `GroundedTheorem` | `AnswerGrounded` |
| `StatsReporterProofs` | `OutageTheorem` | `OutageAnnounced` |
| `NodeLocalProofs` | `CleanupTheorem`, `GoneTheorem` | `CleanupSafe`, `GoneMeansGone` |

`LookupCallProofs` holds the lemmas the two Lookup modules share.

**PrefixIndex.** Assumed: an update names finitely many prefixes and blocks, the tie-break orders
are total, the sweeper is a worker. `Books == TypeOK /\ IndexConsistent` is inductive:
`upsertReplicaLocked` and `removeReplicaLocked` change one element in each counted set, and every
action is one of these or a frame step. The cap is not inductive by itself, since an ingest may
exceed it between its upserts and `enforceCapLocked`. `CapInv` adds that the keys still to be
written belong to the ingest's own tenant and that the excess exists only inside an ingest of a
real tenant; `overCap` compares the number of real entries, which is where `Books` is needed. A
reserved ingest adds no real entry, so it never finds the cap exceeded. `QuotaInv` says the same
of one tenant and the budget its handler resolved. `DoomInv` keeps, for each entry selected for
removal, the cause for which it was selected, which lasts because the lock is held from the
selection to the last removal. `GaugeInv` says that a gauge that differs from the counts has a
reporter still to come.

**Prober.** Assumed: distinct backends have distinct probe replica ids (the id is a prefix and
the name), no policy sets a TTL or quota for the reserved tenant (its id is no namespace name,
and `TenantQuota` exempts it), cache bound and lifetime are positive. Each step of the prober is a
step of the index or leaves it alone, hence `ProbeSpec => Spec`, and the invariants of the index
carry over. `RunInv` adds: a run holds its lock from `RunBegin` to `RunReturn`, its index call
carries its own request, and nobody else's call names the reserved tenant. `AlarmInv`: once
written, the entry is there and as old as the run, unless `DefaultTTL` has passed. Every other
way out needs a cause (`DoomInv`): a reserved entry is no victim of the cap, the reserved tenant
has no quota, and an event for it comes from a run of the same backend and model, which the lock
excludes. `ResidueInv`: each entry and statistic of the reserved tenant belongs to a run that
will still clear it, that is, has not begun to clear, or has not selected yet, or holds the entry
among the selected. `AuthInv`: an entry expires one lifetime after the confirmation it stands
for, and `cachePut` makes room before it inserts.

**PolicyPush, PolicyAdmission.** `OrderInv` orders the stamps: store, then what is listed, then
caches, then the API server; the lock keeps a second listing from starting before the first POST
has ended. An abandoned POST is no newer than anything listed after it. For the webhooks,
`WriteInv` ties each reviewed request to what the listing showed.

**LookupRoute.** `CallsOK` describes each call at each of its places. The contract's steps are
matched place by place: only the delivering step changes the abstract `answer` and the access
counts. The slots need a count of running encodes including the abandoned ones. Groundedness
compares each lock section's reading with the sets of keys seen always and seen ever during the
call; that the affinity pick exists is an induction over a finite set, done as the choice of a
least counterexample.

**StatsReporter.** The failure counter bounds the silence, and the alarm's history is a function
of the counter.

**NodeLocal.** `CleanupSafe` rests on three facts: a cleanup that was released has a node without
consumers; while any cleanup is unfinished no server is created there, and the servers that exist
are being deleted (or the backend is, and the node is shed before the next cleanup pass); at most
one attempt per node is alive. The invariant `IInv` states them relative to the pass of the
reconcile under way, under the condition `Smooth`, that no delete of a server was refused (the case
`nodelocal_wipe` shows) and no informer stalled. `GoneMeansGone` is proved without that condition:
`SeenOK` says that a stalled listing shows pods that could be, and that nothing trails before the
informer stalls; `GoneOK` that a backend that was let go is not reconciled again, and has left
nothing if the listing was current. The induction runs over
`IInv /\ SeenOK /\ GoneOK`. `MCNodeLocal` starts from states that are reachable from `Init`; the
theorems are about `Init`.

What only TLC checks, and why:

* all liveness properties (`ExpiredIsSwept`, `ProbesAnswered`, `PipelineRecovers`,
  `PushConverges`, `VerdictsRenewed`, `ProjectionsConverge`, `LoadSignalSettles`, `NodesSettle`,
  the liveness of `EventsFollow` and of `LookupContract`): they need fairness;
* `SampleIsTrue`, `ProjectionsAgree`, `ChainMatchRight`, `ConflictInForce`: they are about what a
  fold, a sum or a sort computes, which needs induction over data;
* `WiringSound` and `ReadmissionStable`: statements about the rewriting of an argv token by
  token, which needs induction over its length;
* `ReverseMapExact`, `HintsBacked`, `HintsCurrent`: the inductive invariant must describe the
  reverse map relative to the events still in the stream, a statement about every prefix of a
  sequence; no such proof was completed;
* `GateKeepsItsWord`, `ManagedVerdictEarned`, `ProbeFailureSticky`, `PolicyGates`,
  `NumbersNeedEvidence`, `AdmissionSound` of `PodInjection`: within the prover's reach, not
  done. The first three are about three patches that each merge a condition list read earlier;
  their invariant must say what every such list may hold.

## 5. Possible extensions

An abstract index with one atomic step per handler, implemented by `PrefixIndex` and
instantiated for one replica by `KVEventPipeline`'s `apply`; `BackendStatus` with the NodeLocal
topology; theorems for the last group above.

## 6. Not modelled

Hash collisions and msgpack decoding; text rendering (manifests, CLI output); TLS, listeners and
metrics export; the tokenizer library; the field-by-field flattening of a policy and merge of a
pod template. `PROJECT.json` gives the reason for each part. Integer overflow of token counts
cannot be reached by any context length an engine serves.
