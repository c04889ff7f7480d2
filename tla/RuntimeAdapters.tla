--------------------------- MODULE RuntimeAdapters ---------------------------
(***************************************************************************)
(* The built-in engine adapters: vLLM and SGLang with LMCache (a PodLocal   *)
(* server in the engine pod, or the NodeLocal server of the node behind a  *)
(* gate), and SGLang with its native HiCache.  An adapter either rewrites  *)
(* the engine pod as a whole or refuses it, so a rewriting operator yields *)
(* {pod'} or {}.                                                           *)
(*                                                                         *)
(* A pod is [domain, containers, args, env, gpu, mounts, volumes, init,    *)
(* sidecar] plus what its admission adds (PodInjection).  args, env and    *)
(* mounts belong to the engine container; a mount with vol "" and a volume *)
(* of kind "none" are absent, as is an init container without an owner.    *)
(* Capacities are counted in half gibibytes.  Of HiCache's three           *)
(* enumerated settings, which are treated alike, one is kept.              *)
(***************************************************************************)
EXTENDS EngineArgs

CONSTANT SubscriberImage  \* does the operator configure a subscriber image?

KVTransferArg      == "--kv-transfer-config"
DisableHybridArg   == "--disable-hybrid-kv-cache-manager"
EnableLMCacheArg   == "--enable-lmcache"
ConfigFileArg      == "--lmcache-config-file"
EnableMetricsArg   == "--enable-metrics"
EnableHiCacheArg   == "--enable-hierarchical-cache"
HiCacheSizeArg     == "--hicache-size"
HiCacheRatioArg    == "--hicache-ratio"
HiCachePolicyArg   == "--hicache-write-policy"

HashSeedEnv     == "PYTHONHASHSEED"
FailOpenEnv     == "INFERENCECACHE_FAIL_OPEN"
ExperimentalEnv == "LMCACHE_USE_EXPERIMENTAL"
NodeIPEnv       == "INFERENCECACHE_NODE_IP"

ServerName == "lmcache-mp-server"
GateName   == "lmcache-node-local-gate"
CheckName  == "lmcache-kernel-check"

HTTPPort == 8080      \* lmCacheMPHTTPPort
Headroom == 2         \* lmCacheMPShmHeadroom, 1Gi

\* What the index of a container, a volume and a mount reads when it is absent.
NoInit   == [owner |-> "", cfg |-> <<>>]
NoVolume == [kind |-> "none", n |-> 0]
NoMount  == [vol |-> "", ro |-> FALSE, sub |-> FALSE, expr |-> FALSE]
Mounting(v) == [NoMount EXCEPT !.vol = v]

-----------------------------------------------------------------------------
\* Selection.

EffectiveCacheType(spec) == IF spec.type = "" THEN "LMCache" ELSE spec.type

IsEventsOnly(spec) == spec.mode = "EventsOnly"

SupportsLMCache(spec) ==
    /\ EffectiveCacheType(spec) = "LMCache"
    /\ IsEventsOnly(spec) \/ spec.topology \in {"PodLocal", "NodeLocal"}

\* Registry.Select over the registered adapters, in their order.
Select(spec) ==
    CASE spec.runtime = "VLLM" /\ SupportsLMCache(spec) -> "vllm"
      [] spec.runtime = "SGLang" /\ SupportsLMCache(spec) -> "sglang"
      [] spec.runtime = "SGLang" /\ spec.type = "SGLangHiCache" -> "hicache"
      [] OTHER -> "none"

SupportsBinding(adapter, protocol) ==
    protocol = "" \/ (adapter # "hicache" /\ protocol = "RESP")

EngineContainerName(adapter) == IF adapter = "vllm" THEN "vllm" ELSE "sglang"

hiCacheReservedArgs ==
    {EnableHiCacheArg, HiCacheSizeArg, HiCacheRatioArg, HiCachePolicyArg, EnableMetricsArg}

ReservedArgs(adapter) ==
    CASE adapter = "vllm" -> {KVTransferArg, DisableHybridArg}
      [] adapter = "sglang" -> {EnableLMCacheArg, ConfigFileArg, EnableMetricsArg}
      [] adapter = "hicache" -> hiCacheReservedArgs

ReservedEnv(adapter) ==
    CASE adapter = "vllm" -> {HashSeedEnv, FailOpenEnv}
      [] adapter = "sglang" -> {ExperimentalEnv, FailOpenEnv}
      [] adapter = "hicache" -> {}

\* EngineContainerIndexNamed: the named container, or the only one.
Engine(pod, adapter) ==
    LET name == EngineContainerName(adapter) IN
    IF name \in pod.containers THEN {name}
    ELSE IF Cardinality(pod.containers) = 1 THEN pod.containers
    ELSE {}

Server(spec) ==
    CASE spec.topology = "PodLocal" -> spec.podLocal
      [] spec.topology = "NodeLocal" -> spec.nodeLocal
      [] OTHER -> {}

effectiveLMCacheChunkSize(spec) == IF spec.chunk = {} THEN 256 ELSE CHOOSE c \in spec.chunk : TRUE

FailOpenString(spec) == IF spec.failOpen THEN "true" ELSE "false"

-----------------------------------------------------------------------------
\* ValidateMPEnginePod.

UnsupportedParallelFlags == {"--data-parallel-rank", "--data-parallel-size-local"}

validateVLLMEngine(args) ==
    /\ positiveParallelSize(args, "--tensor-parallel-size", 1) # {}
    /\ positiveParallelSize(args, "--pipeline-parallel-size", 1) = {1}
    /\ positiveParallelSize(args, "--data-parallel-size", 1) = {1}
    /\ \A f \in UnsupportedParallelFlags : ~hasArg(args, f)
    /\ validateVLLMBooleanArg(args, DisableHybridArg)
    /\ Once(args, KVTransferArg)

validateSGLangMPPageSize(args, chunk) ==
    /\ hasArg(args, "--page-size")
    /\ \E size \in positiveParallelSize(args, "--page-size", 0) : chunk % size = 0

ValidateMPEnginePod(adapter, pod, spec) ==
    /\ Server(spec) # {}
    /\ Engine(pod, adapter) # {}
    /\ IF adapter = "vllm" THEN validateVLLMEngine(pod.args)
       ELSE validateSGLangMPPageSize(pod.args, effectiveLMCacheChunkSize(spec))

-----------------------------------------------------------------------------
\* The PodLocal server.  Everything a previous admission of the pod left is
\* recognised by the managed mark of the server container.

Managed(pod, name) == pod.init[name].owner = "managed"

\* adoptContainer, adoptVolume: a name is taken over only from ourselves.
Adoptable(pod, container, volumes, owned) ==
    owned \/ (pod.init[container] = NoInit /\ \A v \in volumes : pod.volumes[v] = NoVolume)

\* The path is free, or mounted by us.
Reusable(pod, path, volume, owned) ==
    pod.mounts[path].vol = "" \/ (owned /\ pod.mounts[path].vol = volume)

checkLMCacheMPShmReusable(pod, m) ==
    ~m.ro /\ ~m.expr /\ pod.volumes[m.vol].kind # "readonly"

checkLMCacheMPShmBudget(pod, m, budget) ==
    pod.volumes[m.vol].kind = "memory" /\ pod.volumes[m.vol].n >= budget

validateLMCacheMPServerConfig(s, chunk) ==
    /\ s.image # ""
    /\ s.port \in 1..65535 \ {HTTPPort}
    /\ chunk >= 1 /\ s.l1 > 0 /\ s.workers >= 1

\* The endpoints that are host:port with a usable port (ValidateExternalEndpoint
\* and splitLMCacheHostPort read them alike).
HostPort == {"redis:6379", "redis.other.svc:6379", "managed.svc:6379"}

renderLMCacheMPL2Binding(binding) ==
    \A b \in binding : ~b.tls /\ ~b.database /\ b.endpoint \in HostPort

ConfigPath(topology) == <<topology, "client.yaml">>

\* renderLMCachePodLocalServer
PodLocalServer(pod, adapter, s, chunk, binding) ==
    LET writeConfig == adapter = "sglang"
        owned == Managed(pod, ServerName)
        ownShm == Reusable(pod, "shm", "lmcache-mp-shm", owned)
        shm == IF ownShm THEN "lmcache-mp-shm" ELSE pod.mounts["shm"].vol
        rendered == (IF writeConfig THEN {"lmcache-mp-config"} ELSE {})
                      \cup (IF ownShm THEN {"lmcache-mp-shm"} ELSE {}) IN
    IF /\ Engine(pod, adapter) # {}
       /\ validateLMCacheMPServerConfig(s, chunk)
       /\ renderLMCacheMPL2Binding(binding)
       /\ writeConfig => Reusable(pod, "config", "lmcache-mp-config", owned)
       /\ ownShm \/ ( /\ checkLMCacheMPShmReusable(pod, pod.mounts["shm"])
                      /\ checkLMCacheMPShmBudget(pod, pod.mounts["shm"], s.l1 + Headroom))
       /\ Adoptable(pod, ServerName, rendered, owned)
    THEN {[pod EXCEPT
             !.volumes = [v \in DOMAIN @ |->
                            CASE v \notin rendered -> @[v]
                              [] v = "lmcache-mp-shm" -> [kind |-> "memory", n |-> s.l1 + Headroom]
                              [] OTHER -> [kind |-> "disk", n |-> 0]],
             !.mounts["config"] = IF writeConfig THEN Mounting("lmcache-mp-config") ELSE @,
             !.mounts["shm"] = IF ownShm THEN Mounting(shm) ELSE @,
             !.init[ServerName] = [owner |-> "managed",
                                   cfg |-> <<s.image, s.port, chunk, s.l1, s.workers, shm, binding>>]]}
    ELSE {}

-----------------------------------------------------------------------------
\* The NodeLocal engine: the node's server is reached through its address and
\* the backend's shared-memory directory, behind a gate that waits for the
\* instance of this backend and generation.

validateLMCacheNodeLocalServerConfig(s, chunk) ==
    /\ s.image # ""
    /\ s.port \in 1..65535 /\ s.httpPort \in 1..65535 /\ s.port # s.httpPort
    /\ chunk >= 1 /\ s.l1 > 0 /\ s.workers >= 1

checkNodeLocalHostShm(pod, m, uid) ==
    ~m.ro /\ ~m.sub /\ ~m.expr /\ pod.volumes[m.vol] = [kind |-> "host", n |-> uid]

\* The address of the node, from the downward API.
NodeIP == Var(NodeIPEnv, "hostIP")

\* renderLMCacheNodeLocalEngine with its gate container.
NodeLocalEngine(pod, adapter, s, chunk, cb) ==
    LET writeConfig == adapter = "sglang"
        owned == Managed(pod, GateName)
        mounted == pod.mounts["shm"].vol # ""
        rendered == (IF writeConfig THEN {"lmcache-node-config"} ELSE {})
                      \cup (IF mounted THEN {} ELSE {"lmcache-node-shm"}) IN
    IF /\ Engine(pod, adapter) # {}
       /\ validateLMCacheNodeLocalServerConfig(s, chunk)
       /\ owned \/ \A e \in ToSet(pod.env) : e.name = NodeIPEnv => e = NodeIP
       /\ mounted => checkNodeLocalHostShm(pod, pod.mounts["shm"], cb.uid)
       /\ writeConfig => Reusable(pod, "nodeConfig", "lmcache-node-config", owned)
       /\ Adoptable(pod, GateName, rendered, owned)
    THEN {[pod EXCEPT
             !.env = UpsertEnv(@, NodeIP),
             !.volumes = [v \in DOMAIN @ |->
                            CASE v \notin rendered -> @[v]
                              [] v = "lmcache-node-shm" -> [kind |-> "host", n |-> cb.uid]
                              [] OTHER -> [kind |-> "disk", n |-> 0]],
             !.mounts["nodeConfig"] = IF writeConfig THEN Mounting("lmcache-node-config") ELSE @,
             !.mounts["shm"] = IF mounted THEN @ ELSE Mounting("lmcache-node-shm"),
             !.init[GateName] = [owner |-> "managed",
                                 cfg |-> <<cb.uid, cb.gen, s.port, s.httpPort, chunk>>]]}
    ELSE {}

Topology(pod, adapter, binding, cb) ==
    LET chunk == effectiveLMCacheChunkSize(cb.spec) IN
    UNION {IF cb.spec.topology = "PodLocal"
           THEN PodLocalServer(pod, adapter, s, chunk, binding)
           ELSE NodeLocalEngine(pod, adapter, s, chunk, cb) : s \in Server(cb.spec)}

-----------------------------------------------------------------------------
\* InjectEngineConfig of the three adapters.

KVTransferConfig(spec) ==
    LET s == CHOOSE x \in Server(spec) : TRUE IN
    <<IF spec.topology = "PodLocal" THEN "127.0.0.1" ELSE NodeIPEnv, spec.role, s.port>>

\* vLLM's own variables are taken out and appended again.
Renewed(env, var) == Append(removeEnv(env, var.name), var)

injectVLLM(pod, binding, cb) ==
    {[p EXCEPT !.args = UpsertFlag(UpsertArgPair(@, KVTransferArg, KVTransferConfig(cb.spec)),
                                   DisableHybridArg),
               !.env = Renewed(Renewed(@, Var(HashSeedEnv, "0")),
                               Var(FailOpenEnv, FailOpenString(cb.spec)))] :
       p \in Topology(pod, "vllm", binding, cb)}

ensureSGLangMetricsForSubscriber(args, spec) ==
    IF SubscriberImage /\ spec.modelID # "" THEN UpsertFlag(args, EnableMetricsArg) ELSE args

injectSGLang(pod, binding, cb) ==
    {[p EXCEPT !.args = ensureSGLangMetricsForSubscriber(
                            UpsertArgPair(UpsertFlag(@, EnableLMCacheArg), ConfigFileArg,
                                          ConfigPath(cb.spec.topology)), cb.spec),
               !.env = UpsertEnv(UpsertEnv(@, Var(ExperimentalEnv, "True")),
                                 Var(FailOpenEnv, FailOpenString(cb.spec)))] :
       p \in Topology(pod, "sglang", binding, cb)}

WritePolicies == {"", "write_back", "write_through", "write_through_selective"}

Ratios == {"1.5", "2"}  \* those that parse as finite and positive

\* resolveHiCacheConfig: what the adapter requires of the backend again, however
\* the object was admitted.
resolveHiCacheConfig(spec) ==
    /\ spec.type = "SGLangHiCache" /\ spec.runtime = "SGLang"
    /\ spec.mode = "Offload" /\ spec.role \in {"", "ReadWrite"} /\ spec.failOpen
    /\ spec.selector # {}
    /\ \A o \in spec.overrides :
           /\ \A a \in ToSet(o.args) : a.flag \notin hiCacheReservedArgs
           /\ o.suppressArgs \cap hiCacheReservedArgs = {}
    /\ \E h \in spec.hiCache :
           /\ (h.size = {}) # (h.ratio = "")
           /\ \A n \in h.size : n >= 1
           /\ h.ratio \in Ratios \cup {""}
           /\ h.policy \in WritePolicies

\* The arguments a HiCache engine must carry, in the order they are appended.
HiCacheArgs(h) ==
    (IF h.size # {} THEN <<[flag |-> HiCacheSizeArg, value |-> <<"GB", CHOOSE n \in h.size : TRUE>>]>>
     ELSE <<[flag |-> HiCacheRatioArg, value |-> <<h.ratio>>]>>)
      \o (IF h.policy = "" THEN <<>> ELSE <<[flag |-> HiCachePolicyArg, value |-> <<h.policy>>]>>)

injectHiCache(pod, binding, cb) ==
    LET h == CHOOSE x \in cb.spec.hiCache : TRUE
        args == pod.args
        rival == IF h.size # {} THEN HiCacheRatioArg ELSE HiCacheSizeArg
        missing == SelectSeq(HiCacheArgs(h), LAMBDA a : ~hasArg(args, a.flag))
        added == FoldLeft(LAMBDA acc, a : acc \o <<Flag(a.flag), Word(a.value)>>,
                          UpsertFlag(args, EnableHiCacheArg), missing) IN
    IF /\ binding = {} /\ resolveHiCacheConfig(cb.spec) /\ Engine(pod, "hicache") # {}
       /\ ~hasArg(args, EnableLMCacheArg) /\ ~hasArg(args, ConfigFileArg)
       /\ \A i \in At(args, EnableHiCacheArg) : Bare(args[i])
       /\ Cardinality(At(args, EnableHiCacheArg)) <= 1
       /\ ~hasArg(args, rival) /\ Once(args, HiCachePolicyArg)
       /\ \A a \in ToSet(HiCacheArgs(h)) :
              Once(args, a.flag) /\ argValues(args, a.flag) \subseteq {a.value}
    THEN {[pod EXCEPT !.args = UpsertFlag(added, EnableMetricsArg)]}
    ELSE {}

InjectEngineConfig(adapter, pod, binding, cb) ==
    CASE adapter = "vllm" -> injectVLLM(pod, binding, cb)
      [] adapter = "sglang" -> injectSGLang(pod, binding, cb)
      [] adapter = "hicache" -> injectHiCache(pod, binding, cb)

-----------------------------------------------------------------------------
\* The init container that checks LMCache's kernels, and the subscriber.

resolveKernelCheckMode(spec) ==
    IF spec.kernelCheck \in {"report-only", "strict", "off"} THEN spec.kernelCheck ELSE "auto"

\* KernelCheckInitContainer: NoInit when the adapter declines.
KernelCheckInitContainer(pod, spec) ==
    LET mode == resolveKernelCheckMode(spec) IN
    IF \/ mode = "off"
       \/ Engine(pod, "vllm") = {}
       \/ mode = "auto" /\ ~pod.gpu
    THEN NoInit
    ELSE [owner |-> "managed", cfg |-> <<mode = "strict", pod.env>>]

\* enginePortFromContainer: the last usable --port of the engine.
EnginePort(pod, adapter) ==
    LET ports == {i \in At(pod.args, "--port") : ValueAt(pod.args, i) # NoValue} IN
    IF Engine(pod, adapter) = {} \/ ports = {} THEN <<"default">>
    ELSE ValueAt(pod.args, Max(ports))

\* renderSubscriberSidecar: {} when none is configured.
ObservationSidecar(adapter, pod, spec) ==
    IF ~SubscriberImage \/ spec.modelID = "" THEN {}
    ELSE {[model |-> spec.modelID, port |-> EnginePort(pod, adapter),
           ignoreBlockRemoved |-> ~IsEventsOnly(spec)]}
=============================================================================
