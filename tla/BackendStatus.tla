--------------------------- MODULE BackendStatus ---------------------------
(***************************************************************************)
(* The status side of the CacheBackend reconciler, for one CacheBackend:   *)
(* the base readiness of each mode, the KV-event readiness gate, the       *)
(* functional-probe gate with its in-memory rate limiter, the engine       *)
(* kernel downgrade, and the way the verdict reaches the API server.       *)
(*                                                                         *)
(* One reconcile is three steps, because the controller reads, patches and *)
(* patches again with other writers in between: a Reconcile* action (read  *)
(* from the informer cache, dispatch, apply, compute the verdict),         *)
(* PatchStatus (the merge patch of updateManagedStatus, reconcileExternal, *)
(* reconcileServerless or reconcileUnmanaged) and FinishReconcile (the     *)
(* connector refresh with its own patch, then the transition events).      *)
(* Time is the age of each stored timestamp, capped at MaxAge. The informer *)
(* follows the API server with any delay, so that a reconcile may read a   *)
(* CacheBackend from before the controller's own last patch, and its patch, *)
(* which carries no resourceVersion, lands all the same.                   *)
(***************************************************************************)
EXTENDS Integers

CONSTANTS
    Specs,       \* the specs the operator may write
    Annotations, \* the annotation settings the operator may write
    Firsts,      \* what the CacheBackend is created with, and the bounds for it
    Kernels,     \* what the kernel check of the engine pods may report
    Planes,      \* how the server may answer /probe; "off" is no probe URL
    RateLimit,   \* the probe rate limit, in ticks
    MaxAge       \* the cap of every age

Modes == {"Managed", "External", "HostOnly", "EventsOnly", "Unmanaged"}
NoTime == -1

ASSUME BoundAssumption ==
    /\ RateLimit \in 1 .. MaxAge
    /\ \A s \in Specs : s.mode \in Modes /\ s.timeout \in 1 .. MaxAge
    /\ \A f \in Firsts : f.spec \in Specs /\ \A b \in DOMAIN f.left : f.left[b] \in Nat

VARIABLES
    cr,       \* the CacheBackend in the API server
    cache,    \* the controller's informer copy of it
    dep,      \* the managed Redis Deployment in the API server
    depCache, \* the informer copy of it
    svc,      \* does the managed Service exist
    engine,   \* the matched engine pods: generation injected with, sidecars ready
    kernel,   \* what their kernel check reports
    plane,    \* how the server answers /probe
    limiter,  \* probeRateLimiter: age of the last recorded probe call
    job,      \* the reconcile in flight
    queued,   \* is the key in the workqueue
    timer,    \* is a RequeueAfter pending
    left,     \* the bounds, see Bounds
    hist      \* history, see NoHistory

vars == <<cr, cache, dep, depCache, svc, engine, kernel, plane,
          limiter, job, queued, timer, left, hist>>

-----------------------------------------------------------------------------
(* Conditions and status *)

Absent == [status |-> "absent", reason |-> "", gen |-> 0]
Cond(status, reason, gen) == [status |-> status, reason |-> reason, gen |-> gen]

EmptyStatus ==
    [obsGen |-> 0, latch |-> FALSE, anchor |-> NoTime, lastEvent |-> FALSE,
     remoteStorage |-> FALSE,
     conds |-> [Ready |-> Absent, Degraded |-> Absent, FunctionalProbeOK |-> Absent,
                EngineKernelsHealthy |-> Absent, ConnectorReady |-> Absent,
                RemoteStorageReady |-> Absent]]

\* isTypedLMCacheMP: admission requires spec.lmCache on every LMCache backend but
\* an events-only one; the unmanaged backends are the SGLang HiCache ones.
isTypedLMCacheMP(s) == s.mode \in {"Managed", "External", "HostOnly"}

\* EffectiveRemoteStorage() # nil
HasRemoteStorage(s) == s.mode \in {"Managed", "External"}

IsEventsOnly(s) == s.mode = "EventsOnly"

\* The JSON merge patch of Status().Patch(backend, MergeFrom(before)): the fields
\* that differ from before are written, the condition list as one field.
MergePatch(stored, before, after) ==
    [f \in DOMAIN stored |-> IF after[f] # before[f] THEN after[f] ELSE stored[f]]

-----------------------------------------------------------------------------
(* The readiness verdict *)

Verdict(status, reason) == [status |-> status, reason |-> reason]

managedReadiness(d) ==
    CASE d.rollout = "zero"      -> Verdict("False", "ScaledToZero")
      [] d.rollout = "available" -> Verdict("True", "BackendReady")
      [] d.rollout = "rolling"   -> Verdict("False", "RolloutInProgress")
      [] OTHER                   -> Verdict("False", "ReplicasUnavailable")

\* The RemoteStorageReady verdict updateManagedStatus derives from it.
remoteReadiness(base, endpoint) ==
    CASE base.reason = "RolloutInProgress" -> Verdict("Unknown", "RemoteStoragePending")
      [] base.reason # "RolloutInProgress" /\ ~endpoint
                                           -> Verdict("False", "RemoteStorageUnavailable")
      [] base.status = "True" /\ endpoint  -> Verdict("True", "RemoteStorageReady")
      [] OTHER                             -> Verdict(base.status, "RemoteStorageUnavailable")

lmCacheMPReadyBase(obj, remote) ==
    LET connector == obj.st.conds.ConnectorReady IN
    IF ~isTypedLMCacheMP(obj.spec)
    THEN remote
    ELSE IF connector = Absent \/ connector.gen # obj.gen
    THEN Verdict("Unknown", "ConnectorUnverified")
    ELSE IF connector.status # "True"
    THEN Verdict(connector.status, connector.reason)
    ELSE IF HasRemoteStorage(obj.spec) /\ ~obj.spec.failOpen /\ remote.status # "True"
    THEN remote
    ELSE Verdict("True", "ConnectorReady")

lastKVEventSeen_LiveOnly(st) == st.lastEvent

lastKVEventSeen(st) == st.latch \/ st.lastEvent

Degraded(reason) == [status |-> "True", reason |-> reason]
NotDegraded == [status |-> "False", reason |-> "NotDegraded"]

Gate(ready, degraded, after) == [ready |-> ready, degraded |-> degraded, after |-> after]

\* The window is open: come back when it ends.
AwaitFirstEvent == Gate(Verdict("False", "AwaitingFirstKVEvent"), NotDegraded, TRUE)

\* The window was breached before, and no mode transition restarted it.
breachIsSticky(obj, freshWindow) ==
    ~freshWindow /\ obj.st.conds.Ready.reason = "NoKVEventsObserved"

\* anchor is the age of the anchor: 0 when the anchor is now (or unset).
evaluateKVEventReadiness(obj, base, anchor, freshWindow) ==
    IF ~obj.ann.requireKVEvents \/ base.status # "True"
    THEN Gate(base,
              IF base = Verdict("False", "ReplicasUnavailable")
                THEN Degraded(base.reason) ELSE NotDegraded,
              FALSE)
    ELSE IF lastKVEventSeen(obj.st)
    THEN Gate(Verdict("True", "KVEventsObserved"), NotDegraded, FALSE)
    ELSE IF breachIsSticky(obj, freshWindow) \/ anchor >= obj.spec.timeout
    THEN Gate(Verdict("False", "NoKVEventsObserved"), Degraded("NoKVEventsObserved"), FALSE)
    ELSE AwaitFirstEvent

allow(last) == last = NoTime \/ last >= RateLimit

Probe(cond, down, after, mark) ==
    [cond |-> cond, down |-> down, after |-> after, mark |-> mark]

callProbe_Fades(old) ==
    CASE plane = "unreachable" -> Probe(Cond("Unknown", "ProbeError", 0), FALSE, TRUE, FALSE)
      [] plane = "ok"          -> Probe(Cond("True", "ProbeOK", 0), FALSE, TRUE, TRUE)
      [] plane = "failed"      -> Probe(Cond("False", "ProbeStageFailed", 0), TRUE, TRUE, TRUE)

\* The call of /probe, by how the server answers it.
callProbe(old) ==
    CASE plane = "unreachable" /\ old.status = "False" -> Probe(old, TRUE, TRUE, FALSE)
      [] plane = "unreachable" /\ old.status # "False"
           -> Probe(Cond("Unknown", "ProbeError", 0), FALSE, TRUE, FALSE)
      [] plane = "ok"     -> Probe(Cond("True", "ProbeOK", 0), FALSE, TRUE, TRUE)
      [] plane = "failed" -> Probe(Cond("False", "ProbeStageFailed", 0), TRUE, TRUE, TRUE)

rateLimited_Passes(old) == Probe(old, FALSE, TRUE, FALSE)

\* Too early for another call: the last outcome stands, and holds Ready down.
rateLimited(old) == Probe(old, old.status = "False", TRUE, FALSE)

\* evaluateFunctionalProbe: the FunctionalProbeOK condition it leaves, whether it
\* downgrades Ready, whether it asks for a requeue, whether a slot is to be marked.
evaluateFunctionalProbe(obj, gate) ==
    LET old == obj.st.conds.FunctionalProbeOK IN
    IF plane = "off"
    THEN Probe(Absent, FALSE, FALSE, FALSE)
    ELSE IF gate.ready.status # "True"
    THEN Probe(old, FALSE, FALSE, FALSE)
    ELSE IF obj.ann.skipProbe
    THEN Probe(Cond("True", "ProbeBypassed", 0), FALSE, FALSE, FALSE)
    ELSE IF ~allow(limiter)
    THEN rateLimited(old)
    ELSE callProbe(old)

\* listMatchedEnginePods keeps the pods that this CacheBackend's UID was injected in.
ownedPods(obj) == obj.spec.selector /\ engine.gen > 0

\* aggregateKernelHealth
KernelCondition ==
    CASE kernel = "inactive" -> Absent
      [] kernel = "healthy"  -> Cond("True", "KernelsHealthy", 0)
      [] kernel = "pending"  -> Cond("Unknown", "KernelCheckPending", 0)
      [] kernel \in {"failed", "failedStrict"} -> Cond("False", "KernelLoadFailed", 0)

\* A failed pod list leaves condition and Ready alone.
evaluateEngineKernelHealth(obj, listed) ==
    CASE ~listed                   -> [cond |-> obj.st.conds.EngineKernelsHealthy, down |-> FALSE]
      [] listed /\ ~ownedPods(obj) -> [cond |-> Absent, down |-> FALSE]
      [] listed /\ ownedPods(obj)  -> [cond |-> KernelCondition, down |-> kernel = "failedStrict"]

\* downgradeReadyVerdict, then downgradeKernelReadyVerdict.
Downgrade(gate, probe, kernels) ==
    CASE kernels.down -> Verdict("False", "EngineKernelDegraded")
      [] ~kernels.down /\ probe.down -> Verdict("False", probe.cond.reason)
      [] OTHER -> gate.ready

-----------------------------------------------------------------------------
(* The status each path writes *)

\* status.firstKVEventObservedAt, written once from the poller's lastEventAt.
Latched(st) == st.latch \/ st.lastEvent

publishedGen(obj, applyOK) == IF applyOK THEN obj.gen ELSE obj.st.obsGen

updateManagedStatus(obj, live, endpoint, applyOK, listed) ==
    LET remote  == remoteReadiness(managedReadiness(live), endpoint)
        base    == lmCacheMPReadyBase(obj, remote)
        anchor  == IF obj.st.anchor # NoTime THEN obj.st.anchor ELSE 0
        gate    == evaluateKVEventReadiness(obj, base, anchor, FALSE)
        probe   == evaluateFunctionalProbe(obj, gate)
        kernels == evaluateEngineKernelHealth(obj, listed)
        ready   == Downgrade(gate, probe, kernels)
        gen     == publishedGen(obj, applyOK)
    IN [st |-> [obj.st EXCEPT
                  !.obsGen = gen,
                  !.latch = Latched(obj.st),
                  !.anchor = IF obj.st.anchor = NoTime /\ base.status = "True" THEN 0 ELSE @,
                  !.remoteStorage = TRUE,
                  !.conds = [obj.st.conds EXCEPT
                      !.Ready = Cond(ready.status, ready.reason, 0),
                      !.Degraded = Cond(gate.degraded.status, gate.degraded.reason, 0),
                      !.FunctionalProbeOK = probe.cond,
                      !.EngineKernelsHealthy = kernels.cond,
                      !.RemoteStorageReady = Cond(remote.status, remote.reason, gen)]],
        after |-> TRUE,      \* reconcileManaged always adds the matched-pods cadence
        mark |-> probe.mark]

ExternalStatus(obj) ==
    LET remote == IF obj.spec.accepted THEN Verdict("True", "RemoteStorageReady")
                                       ELSE Verdict("False", "ExternalEndpointInvalid")
        ready  == lmCacheMPReadyBase(obj, remote)
    IN [obj.st EXCEPT
          !.obsGen = obj.gen,
          !.remoteStorage = TRUE,
          !.conds = [obj.st.conds EXCEPT
              !.Ready = Cond(ready.status, ready.reason, 0),
              !.Degraded = Absent,
              !.FunctionalProbeOK = Absent,
              !.EngineKernelsHealthy = Absent,
              !.RemoteStorageReady = Cond(remote.status, remote.reason, obj.gen)]]

\* Only a remote-storage mode leaves status.remoteStorage behind.
transitionedFromServerMode(st) == st.remoteStorage

ServerlessStatus(obj, listed) ==
    LET transitioned == transitionedFromServerMode(obj.st)
        base    == IF IsEventsOnly(obj.spec) THEN Verdict("True", "EventsOnlyActive")
                   ELSE lmCacheMPReadyBase(obj, Verdict("True", "HostOnlyActive"))
        anchor  == IF obj.st.anchor # NoTime /\ ~transitioned THEN obj.st.anchor ELSE 0
        gate    == evaluateKVEventReadiness(obj, base, anchor, transitioned)
        kernels == IF IsEventsOnly(obj.spec) THEN [cond |-> Absent, down |-> FALSE]
                   ELSE evaluateEngineKernelHealth(obj, listed)
        ready   == Downgrade(gate, Probe(Absent, FALSE, FALSE, FALSE), kernels)
        canAnchor == base.status = "True"
    IN [st |-> [obj.st EXCEPT
                  !.obsGen = obj.gen,
                  !.latch = Latched(obj.st),
                  !.anchor = IF canAnchor
                             THEN IF @ = NoTime \/ transitioned THEN 0 ELSE @
                             ELSE IF transitioned THEN NoTime ELSE @,
                  !.remoteStorage = FALSE,
                  !.conds = [obj.st.conds EXCEPT
                      !.Ready = Cond(ready.status, ready.reason, 0),
                      !.Degraded = Cond(gate.degraded.status, gate.degraded.reason, 0),
                      !.FunctionalProbeOK = Absent,
                      !.EngineKernelsHealthy = kernels.cond,
                      !.RemoteStorageReady = Absent]],
        after |-> gate.after]

UnmanagedStatus(obj) ==
    [obj.st EXCEPT !.obsGen = obj.gen, !.anchor = NoTime, !.remoteStorage = FALSE,
                   !.conds = EmptyStatus.conds]

-----------------------------------------------------------------------------
(* The reconcile: read, dispatch, compute *)

NewObject(f) ==
    [live |-> TRUE, spec |-> f.spec, gen |-> 1, st |-> EmptyStatus, ann |-> f.ann]
NoObject == [NewObject(CHOOSE f \in Firsts : TRUE) EXCEPT !.live = FALSE, !.gen = 0]
NoDeployment == [image |-> 0, rollout |-> "rolling"]

\* What may still happen: spec writes, other changes of the world around the
\* controller, changes of lastEventAt by the poller, failed API calls, controller
\* restarts, delete-and-create pairs, and reconciles that read an old CacheBackend.
Bounds == {"edits", "changes", "polls", "faults", "restarts", "recreations", "stale"}

\* hist: the mode of the last published status, whether the mode published before it
\* was a server-bearing or unmanaged one and the age of its first status if so, whether
\* it reported NoKVEventsObserved and by which timeout; the KVEventsObserved events
\* emitted; unseen: the informer has yet to show the controller's own last patch, or a
\* recreation; inherited: the rate-limit slot was taken for an earlier CacheBackend of
\* this name; behind: the stored verdict is that of a reconcile behind the controller's
\* own patches; unprobed: no probe was called since, or since the recreation, because
\* the slot was taken, or there is no probe URL.
NoHistory == [mode |-> "", fromServer |-> FALSE, since |-> NoTime, breached |-> FALSE,
              timeout |-> 0, emitted |-> 0, unseen |-> FALSE, inherited |-> FALSE,
              behind |-> FALSE, unprobed |-> FALSE]

\* behind and limited are history: the reconcile read a copy without the controller's own
\* last patch, or an earlier CacheBackend; it was not free to call the probe.
IdleJob == [pc |-> "idle", obj |-> NoObject, want |-> EmptyStatus, now |-> 0,
            mark |-> FALSE, err |-> FALSE, after |-> FALSE, latched |-> FALSE,
            behind |-> FALSE, limited |-> FALSE]

\* A step that makes n API calls fail.
Faults(n) ==
    /\ n <= left.faults
    /\ left' = [left EXCEPT !.faults = @ - n]

\* The read of a reconcile, which makes n calls that fail. The informer may lag.
Dequeue(n) ==
    /\ job.pc = "idle"
    /\ queued
    /\ queued' = FALSE
    /\ n <= left.faults
    /\ cache # cr => left.stale > 0
    /\ left' = [left EXCEPT !.faults = @ - n, !.stale = IF cache = cr THEN @ ELSE @ - 1]

StartPatch(want, after, mark, err) ==
    job' = [pc |-> "patch", obj |-> cache, want |-> want, now |-> 0, mark |-> mark,
            err |-> err, after |-> after, latched |-> cache.st.latch, behind |-> hist.unseen,
            limited |-> ~allow(limiter)]

DispatchFailed ==
    job' = [IdleJob EXCEPT !.pc = "tail", !.obj = cache, !.err = TRUE, !.latched = cache.st.latch, !.behind = hist.unseen]

\* forget
ForgetSlot ==
    /\ limiter' = NoTime
    /\ hist' = [hist EXCEPT !.inherited = FALSE]

ReconcileNotFound ==
    /\ Dequeue(0)
    /\ ~cache.live
    /\ ForgetSlot
    /\ UNCHANGED <<cr, cache, dep, depCache, svc, engine, kernel, plane, job, timer>>

\* CreateOrUpdate on the cached Deployment: a create that finds the object, or an
\* update from an old resourceVersion or of an object that is gone (or whose owner
\* was an earlier CacheBackend of this name), fails; an equal template writes nothing.
applyDeployment(image) ==
    LET fresh == [image |-> image, rollout |-> "rolling"] IN
    CASE depCache.image = 0 /\ dep.image = 0 -> [dep |-> fresh, ok |-> TRUE]
      [] depCache.image = image /\ depCache.rollout # "zero" /\ dep.image # 0
           -> [dep |-> dep, ok |-> TRUE]
      [] depCache.image # 0 /\ depCache = dep /\ dep.image # image -> [dep |-> fresh, ok |-> TRUE]
      [] depCache.image = image /\ depCache = dep /\ dep.rollout = "zero"
           -> [dep |-> [dep EXCEPT !.rollout = "rolling"], ok |-> TRUE]
      [] OTHER -> [dep |-> dep, ok |-> FALSE]

\* failed is the call that fails, if one does: applying the Deployment or the Service,
\* or reading the Service for its endpoint.
ReconcileManaged ==
    /\ cache.live /\ cache.spec.mode = "Managed"
    /\ \E failed \in {"", "deployment", "service", "endpoint"}, listed, synced \in BOOLEAN :
         LET applied == IF failed = "deployment" THEN [dep |-> dep, ok |-> FALSE]
                                                 ELSE applyDeployment(cache.spec.image)
             applyOK == applied.ok /\ failed # "service"
             live    == IF synced THEN applied.dep ELSE depCache
             status  == updateManagedStatus(cache, live, svc \/ applyOK, applyOK, listed)
         IN /\ Dequeue((IF failed = "" THEN 0 ELSE 1) + (IF listed THEN 0 ELSE 1))
            /\ dep' = applied.dep
            /\ depCache' = live
            /\ svc' = (svc \/ applyOK)
            /\ IF live.image = 0 \/ failed = "endpoint" THEN DispatchFailed
               ELSE StartPatch(status.st, status.after, status.mark, ~applyOK)
    /\ UNCHANGED <<cr, cache, engine, kernel, plane, limiter, timer, hist>>

\* deleteIfOwned deletes what the informer cache shows.
deleteDeployment ==
    /\ dep' = IF depCache.image = 0 THEN dep ELSE NoDeployment
    /\ depCache' = NoDeployment

cleanupOwnedWorkload == deleteDeployment /\ svc' = FALSE

\* A cleanup that fails, at the Deployment or at the Service after it; the paths
\* without a managed workload all begin with one.
CleanupFailed ==
    /\ Dequeue(1)
    /\ cache.live /\ cache.spec.mode # "Managed"
    /\ \/ UNCHANGED <<dep, depCache>>
       \/ deleteDeployment
    /\ DispatchFailed
    /\ UNCHANGED <<cr, cache, svc, engine, kernel, plane, limiter, timer, hist>>

ReconcileExternal ==
    /\ Dequeue(0)
    /\ cache.live /\ cache.spec.mode = "External"
    /\ cleanupOwnedWorkload
    /\ ForgetSlot
    /\ StartPatch(ExternalStatus(cache), FALSE, FALSE, FALSE)
    /\ UNCHANGED <<cr, cache, engine, kernel, plane, timer>>

ReconcileServerless ==
    /\ cache.live /\ cache.spec.mode \in {"HostOnly", "EventsOnly"}
    /\ cleanupOwnedWorkload
    /\ ForgetSlot
    /\ \E listed \in BOOLEAN :
         LET status == ServerlessStatus(cache, listed) IN
         /\ Dequeue(IF listed THEN 0 ELSE 1)
         /\ StartPatch(status.st, status.after, FALSE, FALSE)
    /\ UNCHANGED <<cr, cache, engine, kernel, plane, timer>>

ReconcileUnmanaged ==
    /\ Dequeue(0)
    /\ cache.live /\ cache.spec.mode = "Unmanaged"
    /\ cleanupOwnedWorkload
    /\ ForgetSlot
    /\ StartPatch(UnmanagedStatus(cache), FALSE, FALSE, FALSE)
    /\ UNCHANGED <<cr, cache, engine, kernel, plane, timer>>

-----------------------------------------------------------------------------
(* The reconcile: patch, refresh the connector, emit *)

\* History: the verdict of a reconcile is the stored one, sent or found there. The slot
\* it marks is that of the CacheBackend it read.
Judged(h) ==
    [h EXCEPT !.inherited = @ /\ (job.mark => job.behind),
              !.behind = job.behind,
              !.unprobed = \/ job.behind \/ plane = "off"
                           \/ job.limited /\ (@ \/ hist.inherited)]

\* History: a status of the mode the reconcile read has been published.
Published ==
    LET mode    == job.obj.spec.mode
        flipped == mode # hist.mode
        from    == IF flipped THEN hist.mode \in {"Managed", "External", "Unmanaged"}
                              ELSE hist.fromServer
        breach  == job.want.conds.Ready.reason = "NoKVEventsObserved"
        known   == hist.breached /\ ~flipped
    IN hist' = Judged([hist EXCEPT
                  !.mode = mode,
                  !.fromServer = from,
                  !.since = CASE ~from -> NoTime [] from /\ flipped -> job.now [] OTHER -> @,
                  !.breached = breach \/ (known /\ ~job.behind),
                  !.timeout = IF breach /\ ~known THEN job.obj.spec.timeout ELSE @,
                  !.unseen = TRUE])

\* A failed patch restores the status in memory.
rolledBack(st) == st

\* The object in hand after the patch.
Patched(obj) == [job EXCEPT !.pc = "tail", !.obj = obj, !.want = EmptyStatus, !.now = 0,
                            !.mark = FALSE, !.limited = FALSE]

\* patchStatus and, after it, commitMark. A status equal to the one read is not
\* sent; a failed patch is rolled back in memory. A patch that lands replaces the
\* object in hand by the stored one.
PatchStatus ==
    /\ job.pc = "patch"
    /\ \/ /\ job.want = job.obj.st
          /\ job' = Patched(job.obj)
          /\ limiter' = IF job.mark THEN job.now ELSE limiter
          /\ hist' = IF job.behind THEN hist ELSE Judged(hist)
          /\ UNCHANGED <<cr, left>>
       \/ /\ job.want # job.obj.st
          /\ cr.live
          /\ cr' = [cr EXCEPT !.st = MergePatch(cr.st, job.obj.st, job.want)]
          /\ job' = Patched(cr')
          /\ limiter' = IF job.mark THEN job.now ELSE limiter
          /\ Published
          /\ UNCHANGED left
       \/ /\ job.want # job.obj.st
          /\ Faults(IF cr.live THEN 1 ELSE 0)
          /\ job' = [Patched([job.obj EXCEPT !.st = rolledBack(@)]) EXCEPT !.err = TRUE]
          /\ UNCHANGED <<cr, limiter, hist>>
    /\ UNCHANGED <<cache, dep, depCache, svc, engine, kernel, plane, queued, timer>>

\* refreshLMCacheMPConnectorStatus for PodLocal: every matched pod must carry the
\* injection record of this generation and a ready native sidecar.
ConnectorStatus(obj) ==
    CASE ~isTypedLMCacheMP(obj.spec) -> Absent
      [] isTypedLMCacheMP(obj.spec) /\ (engine.gen = NoTime \/ ~obj.spec.selector)
           -> Cond("False", "NoEnginePods", obj.gen)
      [] isTypedLMCacheMP(obj.spec) /\ obj.spec.selector /\ engine.gen \notin {NoTime, obj.gen}
           -> Cond("Unknown", "ConnectorUnverified", obj.gen)
      [] OTHER -> IF engine.sidecar THEN Cond("True", "ConnectorReady", obj.gen)
                                    ELSE Cond("False", "MPServersNotReady", obj.gen)

Requeues_Dropped == FALSE

Requeues == job.obj.spec.selector \/ job.after

\* The tail of Reconcile. A failed list or patch of the connector refresh is dropped;
\* an error from dispatch makes the workqueue retry and RequeueAfter is ignored.
\* emitTransitionEvents compares the object in hand with the snapshot taken first.
FinishReconcile ==
    /\ job.pc = "tail"
    /\ \E refreshed \in BOOLEAN :
         LET obj   == job.obj
             after == [obj.st EXCEPT !.conds.ConnectorReady = ConnectorStatus(obj)]
             sent  == refreshed /\ cr.live /\ after # obj.st
             final == IF sent THEN MergePatch(cr.st, obj.st, after) ELSE obj.st
         IN /\ Faults(IF refreshed THEN 0 ELSE 1)
            /\ cr' = IF sent THEN [cr EXCEPT !.st = final] ELSE cr
            /\ hist' = [hist EXCEPT
                  !.emitted = IF ~job.latched /\ final.latch /\ ~job.behind /\ @ < 2
                              THEN @ + 1 ELSE @,
                  !.unseen = @ \/ sent,
                  !.behind = @ \/ (sent /\ job.behind)]
    /\ queued' = (queued \/ job.err)
    /\ timer' = (timer \/ (~job.err /\ Requeues))
    /\ job' = IdleJob
    /\ UNCHANGED <<cache, dep, depCache, svc, engine, kernel, plane, limiter>>

-----------------------------------------------------------------------------
(* The controller runtime *)

\* For(&CacheBackend{}): every stored change, status included, enqueues the key.
WatchCacheBackend ==
    /\ cache # cr
    /\ cache' = cr
    /\ queued' = TRUE
    /\ hist' = [hist EXCEPT !.unseen = FALSE]
    /\ UNCHANGED <<cr, dep, depCache, svc, engine, kernel, plane, limiter, job, timer, left>>

\* Owns(&Deployment{})
WatchDeployment ==
    /\ depCache # dep
    /\ depCache' = dep
    /\ queued' = TRUE
    /\ UNCHANGED <<cr, cache, dep, svc, engine, kernel, plane, limiter, job, timer, left, hist>>

RequeueAfter ==
    /\ timer
    /\ timer' = FALSE
    /\ queued' = TRUE
    /\ UNCHANGED <<cr, cache, dep, depCache, svc, engine, kernel, plane, limiter, job, left, hist>>

\* The limiter, the queue and the reconcile in flight die with the process; the new
\* one lists everything and enqueues every CacheBackend. It may have been given another
\* probe URL, or none.
Restart ==
    /\ left.restarts > 0
    /\ left' = [left EXCEPT !.restarts = @ - 1]
    /\ limiter' = NoTime
    /\ job' = IdleJob
    /\ cache' = cr
    /\ depCache' = dep
    /\ queued' = TRUE
    /\ timer' = FALSE
    /\ plane' \in IF plane = "off" THEN Planes ELSE {plane} \cup (Planes \cap {"off"})
    /\ hist' = [hist EXCEPT !.unseen = FALSE, !.inherited = FALSE]
    /\ UNCHANGED <<cr, dep, svc, engine, kernel>>

Older(age) == IF age = NoTime \/ age = MaxAge THEN age ELSE age + 1
OlderStatus(st) == [st EXCEPT !.anchor = Older(@)]

Tick ==
    /\ cr' = [cr EXCEPT !.st = OlderStatus(@)]
    /\ cache' = [cache EXCEPT !.st = OlderStatus(@)]
    /\ job' = CASE job.pc = "idle"  -> job
                [] job.pc = "tail"  -> [job EXCEPT !.obj.st = OlderStatus(@)]
                [] job.pc = "patch" -> [job EXCEPT !.obj.st = OlderStatus(@), !.want = OlderStatus(@),
                                                   !.now = Older(@)]
    /\ limiter' = IF limiter = RateLimit THEN limiter ELSE Older(limiter)
    /\ hist' = [hist EXCEPT !.since = Older(@)]
    /\ UNCHANGED <<dep, depCache, svc, engine, kernel, plane, queued, timer, left>>

-----------------------------------------------------------------------------
(* The world around the controller *)

Change ==
    /\ left.changes > 0
    /\ left' = [left EXCEPT !.changes = @ - 1]

EditSpec ==
    /\ cr.live /\ left.edits > 0
    /\ left' = [left EXCEPT !.edits = @ - 1]
    /\ \E s \in Specs :
         /\ s # cr.spec
         /\ cr' = [cr EXCEPT !.spec = s, !.gen = @ + 1]
    /\ UNCHANGED <<cache, dep, depCache, svc, engine, kernel, plane,
                   limiter, job, queued, timer, hist>>

Annotate ==
    /\ Change
    /\ cr.live
    /\ \E a \in Annotations :
         /\ a # cr.ann
         /\ cr' = [cr EXCEPT !.ann = a]
    /\ UNCHANGED <<cache, dep, depCache, svc, engine, kernel, plane,
                   limiter, job, queued, timer, hist>>

\* Owned objects are collected with the CacheBackend, and the injection record of
\* the engine pods names the old UID, which generation 0 stands for.
Delete ==
    /\ cr.live
    /\ left.recreations > 0
    /\ left' = [left EXCEPT !.recreations = @ - 1]
    /\ cr' = [cr EXCEPT !.live = FALSE, !.gen = 0, !.st = EmptyStatus]
    /\ dep' = NoDeployment
    /\ svc' = FALSE
    /\ engine' = [engine EXCEPT !.gen = IF @ = NoTime THEN @ ELSE 0]
    /\ UNCHANGED <<cache, depCache, kernel, plane, limiter, job, queued, timer, hist>>

\* From the same manifest. The slot of the limiter, taken or about to be marked, and
\* the reconcile in flight are the old one's.
Recreate ==
    /\ ~cr.live
    /\ cr' = [cr EXCEPT !.live = TRUE, !.gen = 1]
    /\ job' = [job EXCEPT !.behind = job.pc # "idle"]
    /\ hist' = [NoHistory EXCEPT !.unseen = TRUE, !.inherited = limiter # NoTime \/ job.mark]
    /\ UNCHANGED <<cache, dep, depCache, svc, engine, kernel, plane, limiter, queued, timer, left>>

\* refreshCacheBackendParticipation: lastEventAt follows the engines' reports, and
\* clears when the replicas drain. It is the only field the poller patches.
PollParticipation ==
    /\ cr.live /\ left.polls > 0
    /\ left' = [left EXCEPT !.polls = @ - 1]
    /\ cr' = [cr EXCEPT !.st.lastEvent = ~@]
    /\ hist' = [hist EXCEPT !.breached = @ /\ cr.st.lastEvent]
    /\ UNCHANGED <<cache, dep, depCache, svc, engine, kernel, plane,
                   limiter, job, queued, timer>>

DeploymentChanges ==
    /\ Change
    /\ dep.image # 0
    /\ \E r \in {"rolling", "available", "unavailable", "zero"} :
         /\ r # dep.rollout
         /\ dep' = [dep EXCEPT !.rollout = r]
    /\ UNCHANGED <<cr, cache, depCache, svc, engine, kernel, plane,
                   limiter, job, queued, timer, hist>>

\* Pods created now are injected with the stored generation. Watches(&Pod{}).
EngineChanges ==
    /\ Change
    /\ \E e \in [gen : {NoTime, engine.gen, cr.gen}, sidecar : BOOLEAN] :
         /\ e.gen = NoTime => ~e.sidecar
         /\ engine' = e
    /\ kernel' \in Kernels
    /\ <<engine', kernel'>> # <<engine, kernel>>
    /\ queued' = TRUE
    /\ UNCHANGED <<cr, cache, dep, depCache, svc, plane, limiter, job, timer, hist>>

PlaneChanges ==
    /\ Change
    /\ plane # "off"
    /\ plane' \in Planes \ {plane, "off"}
    /\ UNCHANGED <<cr, cache, dep, depCache, svc, engine, kernel,
                   limiter, job, queued, timer, hist>>

-----------------------------------------------------------------------------
NoEngine == [gen |-> NoTime, sidecar |-> FALSE]
ReadyEngine == [gen |-> 1, sidecar |-> TRUE]

\* The CacheBackend has just been created; the engines may have started after it and
\* before the first reconcile.
Init ==
    /\ \E f \in Firsts : cr = NewObject(f) /\ left = f.left
    /\ cache = cr
    /\ dep = NoDeployment
    /\ depCache = NoDeployment
    /\ svc = FALSE
    /\ engine \in {NoEngine, ReadyEngine}
    /\ kernel \in Kernels
    /\ plane \in Planes
    /\ limiter = NoTime
    /\ job = IdleJob
    /\ queued = TRUE
    /\ timer = FALSE
    /\ hist = NoHistory

Reconcile ==
    \/ ReconcileNotFound \/ ReconcileManaged \/ CleanupFailed \/ ReconcileExternal
    \/ ReconcileServerless \/ ReconcileUnmanaged

Environment ==
    \/ EditSpec \/ Annotate \/ Delete \/ Recreate
    \/ PollParticipation \/ DeploymentChanges \/ EngineChanges \/ PlaneChanges

\* The worker that holds the key.
Work == Reconcile \/ PatchStatus \/ FinishReconcile

Next ==
    \/ Work
    \/ WatchCacheBackend \/ WatchDeployment \/ RequeueAfter \/ Restart \/ Tick
    \/ Environment

Spec == Init /\ [][Next]_vars

\* The watches deliver, the single worker of the key takes it up and finishes it, a
\* pending RequeueAfter expires and time passes. Nothing is assumed of the world.
Fairness ==
    /\ WF_vars(Work) /\ WF_vars(WatchCacheBackend) /\ WF_vars(WatchDeployment)
    /\ WF_vars(RequeueAfter) /\ WF_vars(Tick)

FairSpec == Spec /\ Fairness

-----------------------------------------------------------------------------
(* Properties *)

\* The stored verdict is that of a reconcile which had read the controller's own last
\* patch. A patch carries no resourceVersion, so one computed from an older copy lands
\* and puts back that copy's condition list; VerdictsRenewed says it does not last.
Informed == cr.live /\ ~hist.behind

\* The managed path has published the verdict for the stored generation.
ManagedCurrent == Informed /\ cr.spec.mode = "Managed" /\ cr.st.obsGen = cr.gen

\* A managed backend is never published Ready=True while its FunctionalProbeOK is
\* False or missing: no rate-limited, failed or repeated reconcile, no failed patch,
\* no restart and no recreation lets evaluateFunctionalProbe's verdict get lost. The
\* exceptions are verdicts for which no probe was due: under a slot that a CacheBackend
\* deleted and recreated at once inherits, until it expires, and without a probe URL.
ReadyProbed ==
    ManagedCurrent /\ ~hist.unprobed /\ cr.st.conds.Ready.status = "True"
        => cr.st.conds.FunctionalProbeOK.status \in {"True", "Unknown"}

\* A FunctionalProbeOK=False that a stage failure published goes away only through a
\* probe that passed, the bypass annotation, a path that is not managed, a controller
\* without a probe URL, or a reconcile that read a copy from before the controller's
\* last patch; an unreachable server never fades it (evaluateFunctionalProbe's sticky
\* False), and neither does a restart, a poller's patch or a failed call.
ProbeFailureSticky ==
    [][cr.live /\ cr.st.conds.FunctionalProbeOK.status = "False"
       /\ cr'.live /\ cr'.st.conds.FunctionalProbeOK.status # "False"
         => \/ job.obj.spec.mode # "Managed" \/ job.behind \/ plane = "off"
            \/ cr'.st.conds.FunctionalProbeOK.reason \in {"ProbeOK", "ProbeBypassed"}]_vars

\* Once an event has been latched, the gate never again reports that it waits for,
\* or missed, the first one, however often the replicas drain (lastKVEventSeen).
LatchSettlesGate ==
    Informed /\ cr.st.latch
        => cr.st.conds.Ready.reason \notin {"AwaitingFirstKVEvent", "NoKVEventsObserved"}

\* Once a backend has reported NoKVEventsObserved, it does not go back to
\* AwaitingFirstKVEvent before an event arrives (evaluateKVEventReadiness): not when
\* replicas or sidecars flap, because the anchor of the window stays, and an events-only
\* backend not even when its timeout is raised. Elsewhere a raised timeout opens the
\* window again, since the edit makes the reason ConnectorUnverified.
StickyDegraded ==
    (/\ Informed /\ hist.breached
     /\ IsEventsOnly(cr.spec) \/ cr.spec.timeout <= hist.timeout)
        => cr.st.conds.Ready.reason # "AwaitingFirstKVEvent"

\* A backend that flips to a serverless mode from a server-bearing or unmanaged one
\* is given a whole first-event window, counted from the first status of the new mode
\* and as long as the timeout it is judged by, before NoKVEventsObserved
\* (transitionedFromServerMode, the reset anchor).
FreshWindow ==
    (/\ cr.live /\ hist.mode \in {"HostOnly", "EventsOnly"} /\ hist.fromServer
     /\ cr.st.conds.Ready.reason = "NoKVEventsObserved")
        => hist.since >= hist.timeout

\* status.observedGeneration of a managed backend equals the generation only when
\* the stored Deployment carries that generation's template: an apply that failed
\* does not advance it (publishedGen in updateManagedStatus).
ObservedGenerationApplied == ManagedCurrent => dep.image = cr.spec.image

\* The KVEventsObserved event is emitted at most once for a CacheBackend
\* (emitTransitionEvents keys on the latch going from nil to set), not counting the
\* reconciles that read a copy from before the latch.
ObservedOnce == hist.emitted <= 1

\* A backend that waits for its first event does not wait for ever: it becomes Ready,
\* Degraded or another verdict takes over (the requeue at the deadline).
AwaitingResolves ==
    cr.st.conds.Ready.reason = "AwaitingFirstKVEvent"
        ~> cr.st.conds.Ready.reason # "AwaitingFirstKVEvent"

Healthy ==
    /\ cr.live /\ cr.spec.mode = "Managed" /\ plane = "ok" /\ kernel # "failedStrict"
    /\ engine = [gen |-> cr.gen, sidecar |-> TRUE]
    /\ dep.image = cr.spec.image /\ dep.rollout = "available"
    /\ cr.ann.requireKVEvents => lastKVEventSeen(cr.st)

\* A managed backend whose parts all stay healthy ends up Ready, whatever probe
\* failures, strict kernel failures, lost sidecars or replicas came before: no gate
\* of updateManagedStatus holds Ready down on a verdict it never renews.
RecoversToReady == <>[]Healthy => <>[](cr.st.conds.Ready.status = "True")

Failing ==
    /\ cr.live /\ cr.spec.mode = "Managed"
    /\ plane = "failed" /\ ~cr.ann.skipProbe

\* A managed backend whose self-test keeps failing ends up not Ready, also when the
\* failure was overwritten from an old copy, hidden by an inherited rate-limit slot, or
\* forgotten in a restart: the requeue of evaluateFunctionalProbe asks again.
FailureIsShown == <>[]Failing => <>[](cr.st.conds.Ready.status # "True")

\* A latched first event prevails in the end over a wait or a breach that a reconcile
\* published from a copy without it.
LatchPrevails ==
    <>[](cr.live /\ cr.st.latch)
        => <>[](cr.st.conds.Ready.reason \notin {"AwaitingFirstKVEvent", "NoKVEventsObserved"})

\* The KV-event gate keeps its word (evaluateKVEventReadiness): the first event is
\* settled and announced once, a breach sticks, and a window is given whole.
GateKeepsItsWord == LatchSettlesGate /\ StickyDegraded /\ FreshWindow /\ ObservedOnce

\* What the managed path publishes for the stored generation was earned
\* (updateManagedStatus): the template applied, and Ready probed.
ManagedVerdictEarned == ReadyProbed /\ ObservedGenerationApplied

\* No verdict outlives its cause, whichever copies the reconciles read: not the wait for
\* the first event, not a failure of the probe, the kernels, the sidecars or the
\* replicas, and not a Ready that the probe contradicts.
VerdictsRenewed == AwaitingResolves /\ RecoversToReady /\ FailureIsShown /\ LatchPrevails
=============================================================================
