--------------------------- MODULE MCPodInjection ---------------------------
(* Small instances of PodInjection.  A behaviour tells one story: writes of *)
(* many specs that race, one spec that meets every template and a copy of  *)
(* the pod, or pods that are reported while backends come and go.          *)
EXTENDS PodInjection

CONSTANTS b1, b2, w1

VARIABLE story

NoRes == [n \in ResourceName |-> [req |-> {}, lim |-> {}]]
Res(cpu, req, lim) == [NoRes EXCEPT !["cpu"].req = cpu, !["memory"] = [req |-> req, lim |-> lim]]
Srv == [image |-> "pinned", port |-> 5555, httpPort |-> 8081, l1 |-> 2, workers |-> 1,
        res |-> Res({1}, {4}, {4}), claims |-> FALSE, retention |-> 300]
Redis == [provider |-> "Redis", ownership |-> "External", endpoint |-> "redis:6379", image |-> "",
          res |-> NoRes, claims |-> FALSE, workload |-> FALSE, auth |-> "none", tls |-> FALSE, database |-> FALSE]
OwnRedis == [Redis EXCEPT !.ownership = "Managed", !.endpoint = ""]

Base == [type |-> "LMCache", runtime |-> "VLLM", mode |-> "", role |-> "", failOpen |-> TRUE,
         topology |-> "PodLocal", podLocal |-> {Srv}, nodeLocal |-> {}, chunk |-> {},
         selector |-> {[domain |-> "d1", extra |-> FALSE]}, overrides |-> {}, hiCache |-> {},
         kernelCheck |-> "", modelID |-> "m", storage |-> {}, allowCrossNamespace |-> FALSE]
OnNode(s) == [s EXCEPT !.topology = "NodeLocal", !.podLocal = {}, !.nodeLocal = {Srv}]
SG(s) == [s EXCEPT !.runtime = "SGLang"]
Hi(size, ratio, policy) ==
    [SG(Base) EXCEPT !.type = "SGLangHiCache", !.topology = "none", !.podLocal = {},
                     !.hiCache = {[size |-> size, ratio |-> ratio, policy |-> policy]}]
Watch == [Base EXCEPT !.mode = "EventsOnly", !.topology = "none", !.podLocal = {}]
With(s, st) == [s EXCEPT !.storage = {st}]
Over(s, args, env, noArgs, noEnv) ==
    [s EXCEPT !.overrides = {[args |-> args, env |-> env, suppressArgs |-> noArgs,
                              suppressEnv |-> noEnv, shape |-> "ok"]}]
Server1(s, srv) == [s EXCEPT !.podLocal = {srv}]
Server2(s, srv) == [OnNode(s) EXCEPT !.nodeLocal = {srv}]
Arg(f, v) == [flag |-> f, value |-> v]

Deep == {[Base EXCEPT !.chunk = {16}], [Base EXCEPT !.kernelCheck = "strict"], [Base EXCEPT !.kernelCheck = "off"],
         SG(Base), OnNode(Base), OnNode(SG(Base)), Watch, [Watch EXCEPT !.modelID = ""],
         Hi({1}, "", ""), Hi({}, "2", "write_back"),
         With(Base, Redis), With(OnNode(SG(Base)), OwnRedis), With(Base, [OwnRedis EXCEPT !.auth = "password"]),
         Over(Base, <<Arg("--port", <<"1">>), Flag("--x"), Word(<<"2">>)>>, <<Var("USER", "o")>>, {"--x"}, {"USER"}),
         Over(OnNode(Base), <<>>, <<>>, {}, {NodeIPEnv}),
         Over(SG(Base), <<Flag(EnableMetricsArg)>>, <<>>, {EnableMetricsArg}, {}),
         Over(Base, <<>>, <<>>, {KVTransferArg}, {HashSeedEnv}),
         Over(Hi({1}, "", ""), <<Word(<<"w">>)>>, <<>>, {}, {})}

Bad == {[Base EXCEPT !.selector = {[domain |-> "", extra |-> TRUE]}],
        [Base EXCEPT !.selector = {[domain |-> "not a label", extra |-> FALSE]}],
        [Base EXCEPT !.selector = {[domain |-> "d1", extra |-> TRUE]}],
        [OnNode(Base) EXCEPT !.selector = {}], [Base EXCEPT !.type = "SGLangHiCache"],
        [Base EXCEPT !.topology = "none"], [Base EXCEPT !.podLocal = {}], [OnNode(Base) EXCEPT !.nodeLocal = {}],
        [Base EXCEPT !.nodeLocal = {Srv}], [OnNode(Base) EXCEPT !.podLocal = {Srv}],
        [Base EXCEPT !.mode = "EventsOnly"], With(Watch, Redis), [Base EXCEPT !.role = "ReadOnly"],
        [Base EXCEPT !.kernelCheck = "strcit"], [Base EXCEPT !.hiCache = {[size |-> {1}, ratio |-> "", policy |-> ""]}],
        Hi({}, "", ""), Hi({1}, "2", ""), Hi({0}, "", ""), Hi({}, "x", ""), Hi({1}, "", "sometimes"),
        [Hi({1}, "", "") EXCEPT !.failOpen = FALSE], With(Hi({1}, "", ""), Redis)}
   \cup {Server1(Base, [Srv EXCEPT !.port = x]) : x \in {0, 5557, 8080}}
   \cup {Server1(Base, [Srv EXCEPT !.image = x]) : x \in {"", "tag"}}
   \cup {Server1(Base, [Srv EXCEPT !.l1 = x]) : x \in {0, 4}}
   \cup {Server1(Base, [Srv EXCEPT !.res = x]) :
           x \in {Res({}, {4}, {4}), Res({1}, {}, {4}), Res({1}, {4}, {}), Res({1}, {5}, {4}),
                  [Srv.res EXCEPT !["gpu"].lim = {2}], [Srv.res EXCEPT !["hugepages-2Mi"] = [req |-> {6}, lim |-> {6}]],
                  [Srv.res EXCEPT !["nvidia.com/gpu"] = [req |-> {1}, lim |-> {1}]],
                  [Srv.res EXCEPT !["nvidia.com/gpu"].req = {2}]}}
   \cup {Server1(Base, [Srv EXCEPT !.workers = 0]), Server1(Base, [Srv EXCEPT !.claims = TRUE]),
         Server2(Base, [Srv EXCEPT !.httpPort = 5555]), Server2(Base, [Srv EXCEPT !.httpPort = 0]),
         Server2(Base, [Srv EXCEPT !.retention = 86401]), Server2(Base, [Srv EXCEPT !.retention = 0 - 1]),
         [Base EXCEPT !.topology = ""], [Base EXCEPT !.topology = "Cluster"],
         Server2(Base, [Srv EXCEPT !.res["nvidia.com/gpu"] = [req |-> {}, lim |-> {2}]])}
   \cup {With(Base, [Redis EXCEPT !.endpoint = x]) : x \in {"", "redis", "redis.other.svc:6379"}}
   \cup {With(Base, [Redis EXCEPT !.workload = TRUE]), With(Base, [Redis EXCEPT !.image = "tag"]),
         With(Base, [Redis EXCEPT !.tls = TRUE]), With(Base, [Redis EXCEPT !.database = TRUE]),
         With(Base, [OwnRedis EXCEPT !.endpoint = "redis:6379"]), With(Base, [OwnRedis EXCEPT !.auth = "user"]),
         With(Base, [OwnRedis EXCEPT !.auth = "incomplete"]), With(Base, [OwnRedis EXCEPT !.provider = ""]),
         With(Base, [OwnRedis EXCEPT !.res["cpu"].lim = {0 - 1}]),
         Over(Base, <<Arg(DisableHybridArg, NoValue)>>, <<Var(FailOpenEnv, "x")>>, {}, {})}

Clean == {Base, [Base EXCEPT !.selector = {[domain |-> "d2", extra |-> FALSE]}]}

MCSpecs == [b \in Backend |-> IF b = b1 THEN Deep \cup Bad \cup Clean ELSE Clean]

Stored(s) == Default(s)
MCLegacy == [b \in Backend |->
    IF b # b1 THEN {}
    ELSE {Stored(s) : s \in {[Base EXCEPT !.selector = {[domain |-> "", extra |-> TRUE]}], [Base EXCEPT !.role = "ReadOnly"],
            Server1(Base, [Srv EXCEPT !.port = 8080]), With(Base, [Redis EXCEPT !.endpoint = "redis"]), With(Base, Redis),
            Over(Base, <<Arg(KVTransferArg, <<"mine">>)>>, <<>>, {}, {})}}]

Pod == [domain |-> "d1", extra |-> FALSE, containers |-> {"vllm"}, args |-> <<>>, env |-> <<>>,
        gpu |-> FALSE, mounts |-> [m \in {"shm", "config", "nodeConfig"} |-> NoMount],
        volumes |-> [v \in {"lmcache-mp-shm", "lmcache-mp-config", "lmcache-node-shm", "lmcache-node-config", "user"} |-> NoVolume],
        init |-> [c \in {ServerName, GateName, CheckName} |-> NoInit], sidecar |-> {},
        skip |-> "", by |-> "", uid |-> 0, gen |-> 0, skipped |-> FALSE, metrics |-> FALSE]
SGPod == [Pod EXCEPT !.containers = {"sglang"}, !.args = <<Arg("--page-size", <<"1">>)>>]
Shm(pod, ro, kind, n) == [pod EXCEPT !.mounts["shm"] = [vol |-> "user", ro |-> ro, sub |-> FALSE, expr |-> FALSE],
                                     !.volumes["user"] = [kind |-> kind, n |-> n]]

Simple == {Pod, [Pod EXCEPT !.domain = "d2"]}
Marked == [Pod EXCEPT !.by = b1, !.uid = 9, !.gen = 1]

MCTemplates == Simple \cup
    {SGPod, [SGPod EXCEPT !.args = <<>>], [SGPod EXCEPT !.args = <<Flag("--page-size"), Word(<<"17">>)>>],
     Marked, [Pod EXCEPT !.skipped = TRUE], [Pod EXCEPT !.skip = "true"], [Marked EXCEPT !.skip = "note"],
     [Pod EXCEPT !.skip = "no", !.extra = TRUE], [Pod EXCEPT !.containers = {"main"}],
     [Pod EXCEPT !.containers = {"main", "proxy"}], [Pod EXCEPT !.containers = {"vllm", Subscriber}],
     [Pod EXCEPT !.gpu = TRUE, !.init[CheckName] = [owner |-> "user", cfg |-> <<>>]],
     [Pod EXCEPT !.init[ServerName] = [owner |-> "user", cfg |-> <<>>]],
     Shm(Pod, FALSE, "memory", 4), Shm(Pod, FALSE, "memory", 3), Shm(Pod, TRUE, "memory", 4), Shm(Pod, FALSE, "disk", 0),
     [Pod EXCEPT !.env = <<Var(NodeIPEnv, "other")>>],
     [Pod EXCEPT !.args = <<Flag("--port"), Word(<<"2">>), Arg(KVTransferArg, <<"own">>), Flag("--y")>>, !.env = <<Var("USER", "u")>>],
     [Pod EXCEPT !.args = <<Flag(DisableHybridArg), Arg("--x", <<"1">>)>>, !.env = <<Var(HashSeedEnv, "1"), Var("OTHER", "o")>>],
     [Pod EXCEPT !.args = <<Arg("--pipeline-parallel-size", <<"2">>)>>],
     [Pod EXCEPT !.args = <<Flag(KVTransferArg)>>],
     [SGPod EXCEPT !.args = @ \o <<Arg(ConfigFileArg, <<"own">>), Flag(EnableMetricsArg)>>],
     [SGPod EXCEPT !.args = @ \o <<Flag(ConfigFileArg), Flag("--y")>>],
     [SGPod EXCEPT !.args = @ \o <<Flag(ConfigFileArg), Flag(EnableLMCacheArg)>>],
     [SGPod EXCEPT !.args = <<Arg(HiCacheSizeArg, <<"GB", 1>>), Flag(EnableHiCacheArg)>>],
     [SGPod EXCEPT !.args = <<Arg(HiCacheRatioArg, <<"2">>)>>],
     [SGPod EXCEPT !.args = @ \o <<Flag(EnableLMCacheArg)>>]}

\* Racing writes.  No rule reads a status, and none is published.
WritesNext ==
    /\ AdmissionNext /\ UNCHANGED podVars
    /\ \A b \in Backend : \A cb \in backends'[b] : cb.endpoint = ""

\* One write at most, then a pod of any template, then a copy of it.
WiringNext ==
    \/ used = {} /\ Next
    \/ /\ used # {}
       /\ \/ \E p, q \in PodName : \E t \in pods[q] : Handle(p, t)
          \/ \E p \in PodName : StorePod(p) \/ Reconcile(p)

\* A backend that is written, changed and deleted; pods of two templates or copies.
ReportsNext ==
    /\ Next
    /\ \A w \in Writer : \A r \in requests'[w] :
          w = w1 /\ r.name = b1 /\ r.spec \in {Stored(Base), Stored(Watch)}
    /\ \A p \in used' \ used :
          {v.template : v \in verdict'[p]} \cup (IF verdict'[p] = {} THEN admitting'[p] ELSE {})
            \subseteq {Pod, Marked} \cup UNION {pods[q] \cup {v.template : v \in verdict[q]} : q \in PodName}

MCInit ==
    /\ AdmissionInit!1
    /\ requests = [w \in Writer |-> {}] /\ uids = 1 /\ raced = FALSE
    /\ admitting = [p \in PodName |-> {}] /\ pods = [p \in PodName |-> {}]
    /\ used = {} /\ verdict = [p \in PodName |-> {}] /\ queue = {} /\ events = {}
    /\ \/ story = "writes" /\ writes = 0 /\ faults = MaxFaults /\ restarts = MaxRestarts
       \/ story = "wiring" /\ writes = MaxWrites - 1 /\ faults = MaxFaults /\ restarts = MaxRestarts
       \/ /\ story = "reports" /\ writes = 0 /\ faults = 0 /\ restarts = 0
          /\ backends = [b \in Backend |-> {}]

MCNext ==
    /\ UNCHANGED story
    /\ \/ story = "writes" /\ WritesNext
       \/ story = "wiring" /\ WiringNext
       \/ story = "reports" /\ ReportsNext

MCSpec == MCInit /\ [][MCNext]_<<vars, story>>
            /\ \A p \in PodName : WF_vars(StorePod(p)) /\ WF_vars(Reconcile(p))
=============================================================================
