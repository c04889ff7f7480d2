---------------------------- MODULE PodInjection ----------------------------
(***************************************************************************)
(* Engine pods: the mutating webhook that wires a pod to the CacheBackend  *)
(* of its domain when the pod is created, and the controller that reports  *)
(* the wiring as an event.                                                 *)
(*                                                                         *)
(* The webhook reads the backends live and answers; the pod is stored      *)
(* later, after the backends may have changed, and the event is decided    *)
(* later still.  The webhook is fail-open: an API error, a backend it      *)
(* cannot use or a webhook that does not answer leave the pod unwired.     *)
(* Templates may carry what an earlier admission left (a pod copied from a *)
(* running one, a template written from it).                               *)
(*                                                                         *)
(* On top of RuntimeAdapters' fields a pod has extra (an application label *)
(* a legacy selector matches) and the annotations skip, by, uid, gen and   *)
(* skipped; by "", uid 0 and gen 0 are absent ones.                        *)
(***************************************************************************)
EXTENDS BackendAdmission

CONSTANTS PodName,         \* names of engine pods
          Templates,       \* what the pods' owners submit
          MaxFaults,       \* bound: failed lists, unanswered webhooks
          MaxRestarts      \* bound: restarts of the controller

VARIABLES admitting,       \* admitting[p]: {} or {pod}, answered and not stored
          pods,            \* pods[p]: {} or {pod}
          used,            \* the names that were submitted
          verdict,         \* history, verdict[p]: {} or {[outcome, cb, template]}
          queue,           \* the controller's work queue
          events,          \* the events emitted: <<p, "skipped">> or <<p, "injected", uid>>
          faults, restarts

podVars == <<admitting, pods, used, verdict, queue, events, faults, restarts>>
vars == <<admissionVars, podVars>>

Subscriber == "kvevent-subscriber"

-----------------------------------------------------------------------------
\* The webhook's parts.

SkipAnnotationOptsOut(value) == value \notin {"", "false", "no"}

Unmarked(pod) == [pod EXCEPT !.by = "", !.uid = 0, !.gen = 0, !.skipped = FALSE]

failOpen(pod) == Unmarked(pod)

skipInjection(pod) == [Unmarked(pod) EXCEPT !.skipped = TRUE]

Matches(pod, spec) ==
    \E sel \in spec.selector : /\ sel.domain \in {"", pod.domain}
                               /\ sel.extra => pod.extra

\* selectCacheBackend, before its verdict on their number.
Claimants(pod) == {b \in Backend : \E cb \in backends[b] : Matches(pod, cb.spec)}

effectiveEndpoint(cb) ==
    LET external == {st \in cb.spec.storage : st.ownership = "External"} IN
    IF external # {} THEN (CHOOSE e \in {IF st.endpoint \in HostPort THEN st.endpoint ELSE "" : st \in external} : TRUE)
    ELSE IF cb.spec.topology \notin {"none", ""} THEN cb.endpoint ELSE ""

BindingFor(cb) ==
    {[endpoint |-> effectiveEndpoint(cb), auth |-> st.auth, tls |-> st.tls, database |-> st.database] :
       st \in cb.spec.storage}

\* Everything before the adapter is asked to write.
Injectable(pod, cb) ==
    LET spec == cb.spec
        adapter == Select(spec) IN
    /\ adapter # "none"
    /\ spec.topology \notin {"none", ""} => adapter # "hicache" /\ ValidateMPEnginePod(adapter, pod, spec)
    /\ \A st \in spec.storage : st.provider = "Redis"
    /\ SupportsBinding(adapter, ProtocolFor(spec.storage))
    /\ IsEventsOnly(spec) \/ \A b \in BindingFor(cb) : b.endpoint # ""

\* InjectEngineConfig and the engineOverrides merge; events-only leaves the engine alone.
Connected(pod, cb) ==
    LET adapter == Select(cb.spec) IN
    IF IsEventsOnly(cb.spec) THEN {pod}
    ELSE {IF cb.spec.overrides = {} \/ Engine(pod, adapter) = {} THEN p
          ELSE applyEngineInjectionOverrides(pod, p, CHOOSE o \in cb.spec.overrides : TRUE) :
            p \in InjectEngineConfig(adapter, pod, BindingFor(cb), cb)}

\* The kernel check is the webhook's alone: replaced, or stripped.
Checked(pod, cb) ==
    IF Select(cb.spec) # "vllm" THEN pod
    ELSE [pod EXCEPT !.init[CheckName] = IF IsEventsOnly(cb.spec) THEN NoInit
                                         ELSE KernelCheckInitContainer(pod, cb.spec)]

\* The subscriber is appended unless a container of its name is there.
Observed(pod, cb) ==
    LET sidecar == ObservationSidecar(Select(cb.spec), pod, cb.spec) IN
    IF sidecar = {} \/ Subscriber \in pod.containers THEN pod
    ELSE [pod EXCEPT !.containers = @ \cup {Subscriber}, !.sidecar = sidecar]

Stamped(pod, b, cb) ==
    [pod EXCEPT !.by = b, !.uid = cb.uid, !.gen = cb.gen, !.skipped = FALSE,
                !.metrics = @ \/ cb.spec.topology = "PodLocal"]

\* The wired pod, or {} where the webhook fails open.
Wired(pod, b, cb) ==
    IF ~Injectable(pod, cb) THEN {}
    ELSE {Stamped(Observed(Checked(p, cb), cb), b, cb) :
            p \in {q \in Connected(pod, cb) :
                     IsEventsOnly(cb.spec) => Observed(Checked(q, cb), cb).containers # q.containers}}

-----------------------------------------------------------------------------
\* Admission of a pod.

Answer(p, pod, outcome, cb, template) ==
    /\ admitting' = [admitting EXCEPT ![p] = {pod}]
    /\ verdict' = [verdict EXCEPT ![p] = {[outcome |-> outcome, cb |-> cb, template |-> template]}]

\* Pods have generated names.
Fresh(p) == used # PodName /\ p = CHOOSE q \in PodName \ used : TRUE

\* A listing that fails is a fault; otherwise the list is live.
Handle(p, t) ==
    /\ Fresh(p)
    /\ used' = used \cup {p}
    /\ \/ /\ SkipAnnotationOptsOut(t.skip)
          /\ Answer(p, skipInjection(t), "skipped", {}, t)
          /\ UNCHANGED faults
       \/ /\ ~SkipAnnotationOptsOut(t.skip) /\ faults < MaxFaults
          /\ Answer(p, failOpen(t), "open", {}, t)
          /\ faults' = faults + 1
       \/ /\ ~SkipAnnotationOptsOut(t.skip)
          /\ Cardinality(Claimants(t)) > 1
          /\ UNCHANGED <<admitting, faults>>
          /\ verdict' = [verdict EXCEPT ![p] = {[outcome |-> "denied", cb |-> {}, template |-> t]}]
       \/ /\ ~SkipAnnotationOptsOut(t.skip)
          /\ Claimants(t) = {}
          /\ Answer(p, failOpen(t), "open", {}, t)
          /\ UNCHANGED faults
       \/ /\ ~SkipAnnotationOptsOut(t.skip)
          /\ \E b \in Backend : \E cb \in backends[b] :
                /\ Claimants(t) = {b}
                /\ \E wired \in {Wired(t, b, cb)} :
                       \/ wired = {} /\ Answer(p, failOpen(t), "open", {cb}, t)
                       \/ \E pod \in wired : Answer(p, pod, "wired", {cb}, t)
          /\ UNCHANGED faults
    /\ UNCHANGED <<admissionVars, pods, queue, events, restarts>>

\* failurePolicy=Ignore: a webhook that does not answer leaves the pod as it was
\* submitted.  A copy of a stored pod is then what the webhook made of that one.
Unanswered(p, t, origin) ==
    /\ Fresh(p) /\ faults < MaxFaults
    /\ used' = used \cup {p}
    /\ admitting' = [admitting EXCEPT ![p] = {t}]
    /\ verdict' = [verdict EXCEPT ![p] = origin]
    /\ faults' = faults + 1
    /\ UNCHANGED <<admissionVars, pods, queue, events, restarts>>

(* Mutant: pods that opted out are the only candidates. *)
skippedPodCandidate(pod) == SkipAnnotationOptsOut(pod.skip) /\ pod.skipped

enginePodEventCandidate(pod) == pod.by # "" \/ (SkipAnnotationOptsOut(pod.skip) /\ pod.skipped)

StorePod(p) ==
    \E pod \in admitting[p] :
        /\ pods' = [pods EXCEPT ![p] = {pod}]
        /\ admitting' = [admitting EXCEPT ![p] = {}]
        /\ queue' = IF enginePodEventCandidate(pod) THEN queue \cup {p} ELSE queue
        /\ UNCHANGED <<admissionVars, used, verdict, events, faults, restarts>>

DeletePod(p) ==
    /\ pods[p] # {}
    /\ pods' = [pods EXCEPT ![p] = {}]
    /\ UNCHANGED <<admissionVars, admitting, used, verdict, queue, events, faults, restarts>>

-----------------------------------------------------------------------------
\* The events controller.

\* The annotations name a live backend and carry its uid.
Verified(pod) == \E b \in Backend : pod.by = b /\ \E cb \in backends[b] : pod.uid = cb.uid

\* A reference that is no name, a missing uid and a missing backend are skipped.
Emitted(p, pod) ==
    IF pod.by = "" THEN {<<p, "skipped", 0>> : x \in {y \in {pod} : enginePodEventCandidate(y)}}
    ELSE {<<p, "injected", pod.uid>> : x \in {y \in {pod} : Verified(y)}}

Reconcile(p) ==
    /\ p \in queue
    /\ queue' = queue \ {p}
    /\ events' = events \cup UNION {Emitted(p, pod) : pod \in pods[p]}
    /\ UNCHANGED <<admissionVars, admitting, pods, used, verdict, faults, restarts>>

\* A lookup that fails otherwise than by NotFound is retried.
LookupFails(p) ==
    /\ p \in queue /\ \E pod \in pods[p] : pod.by # ""
    /\ UNCHANGED vars

\* The informer's first list shows every pod as created.
Restart ==
    /\ restarts < MaxRestarts
    /\ restarts' = restarts + 1
    /\ queue' = {p \in PodName : \E pod \in pods[p] : enginePodEventCandidate(pod)}
    /\ UNCHANGED <<admissionVars, admitting, pods, used, verdict, events, faults>>

-----------------------------------------------------------------------------
Init ==
    /\ AdmissionInit
    /\ admitting = [p \in PodName |-> {}] /\ pods = [p \in PodName |-> {}]
    /\ used = {} /\ verdict = [p \in PodName |-> {}]
    /\ queue = {} /\ events = {} /\ faults = 0 /\ restarts = 0

Next ==
    \/ AdmissionNext /\ UNCHANGED podVars
    \/ \E p \in PodName, t \in Templates : Handle(p, t) \/ Unanswered(p, t, {})
    \/ \E p, q \in PodName : \E t \in pods[q] : Handle(p, t) \/ Unanswered(p, t, verdict[q])
    \/ \E p \in PodName : StorePod(p) \/ DeletePod(p) \/ Reconcile(p) \/ LookupFails(p)
    \/ Restart

Spec == Init /\ [][Next]_vars /\ \A p \in PodName : WF_vars(StorePod(p)) /\ WF_vars(Reconcile(p))

-----------------------------------------------------------------------------
\* Properties.

\* A template that is nothing but an engine of this adapter's runtime.
Plain(t, adapter) ==
    /\ EngineContainerName(adapter) \in t.containers /\ Subscriber \notin t.containers
    /\ t.args = IF adapter = "sglang" THEN <<[flag |-> "--page-size", value |-> <<"1">>]>> ELSE <<>>
    /\ \A m \in DOMAIN t.mounts : t.mounts[m] = NoMount
    /\ \A v \in DOMAIN t.volumes : t.volumes[v] = NoVolume
    /\ \A c \in DOMAIN t.init : t.init[c] = NoInit
    /\ NodeIPEnv \notin EnvNames(t.env)

(* What the validating webhook lets through, the adapters can render.  A   *)
(* plain engine pod that is handled while its one backend violates no rule *)
(* and its status shows the present endpoint is wired, except by an        *)
(* events-only backend that configures no subscriber: validation and       *)
(* rendering check ports, capacities, topology, storage and overrides in   *)
(* two different places.                                                   *)
AdmissionSuffices ==
    \A p \in PodName : \A v \in verdict[p] : \A cb \in v.cb :
        /\ Select(cb.spec) # "none" => Plain(v.template, Select(cb.spec))
        /\ Violations[cb.spec] = {}
        /\ \A st \in cb.spec.storage : effectiveEndpoint(cb) = Published(cb)
        /\ IsEventsOnly(cb.spec) => SubscriberImage /\ cb.spec.modelID # ""
        => v.outcome = "wired"

\* The engine reads for flag f what the adapter means it to read.
Reads(pod, f, v) == argValues(pod.args, f) = {v}

\* The variables the operator's overrides set or suppress.
AmendedEnv(spec) == UNION {EnvNames(o.env) \cup o.suppressEnv : o \in spec.overrides}

\* The connector's flags and variables are there, with the values of cb.
EngineWired(pod, adapter, cb) ==
    CASE adapter = "vllm" ->
           /\ Reads(pod, KVTransferArg, KVTransferConfig(cb.spec)) /\ hasArg(pod.args, DisableHybridArg)
           /\ EnvValue(pod.env, HashSeedEnv) = "0" /\ EnvValue(pod.env, FailOpenEnv) = FailOpenString(cb.spec)
           /\ cb.spec.topology = "NodeLocal" /\ NodeIPEnv \notin AmendedEnv(cb.spec)
                 => EnvValue(pod.env, NodeIPEnv) = NodeIP.value
      [] adapter = "sglang" ->
           /\ Reads(pod, ConfigFileArg, ConfigPath(cb.spec.topology)) /\ hasArg(pod.args, EnableLMCacheArg)
           /\ EnvValue(pod.env, ExperimentalEnv) = "True" /\ EnvValue(pod.env, FailOpenEnv) = FailOpenString(cb.spec)
      [] adapter = "hicache" ->
           /\ hasArg(pod.args, EnableHiCacheArg) /\ hasArg(pod.args, EnableMetricsArg)
           /\ \A h \in cb.spec.hiCache : \A a \in ToSet(HiCacheArgs(h)) : Reads(pod, a.flag, a.value)

\* The server's memory, or the gate and the directory of this very backend.
ServerWired(pod, cb) ==
    \A s \in Server(cb.spec) :
        LET shm == pod.mounts["shm"] IN
        /\ ~shm.ro
        /\ IF cb.spec.topology = "PodLocal"
           THEN /\ pod.init[ServerName].owner = "managed" /\ pod.init[ServerName].cfg[2] = s.port
                /\ pod.volumes[shm.vol].kind = "memory" /\ pod.volumes[shm.vol].n >= s.l1 + Headroom
           ELSE /\ pod.init[GateName].cfg = <<cb.uid, cb.gen, s.port, s.httpPort, effectiveLMCacheChunkSize(cb.spec)>>
                /\ pod.volumes[shm.vol] = [kind |-> "host", n |-> cb.uid]

\* The in-pod server spills to the storage of cb.
StorageWired(pod, cb) ==
    cb.spec.topology = "PodLocal" =>
        {x.endpoint : x \in pod.init[ServerName].cfg[7]} = {Published(cb) : st \in cb.spec.storage}

\* The flag that UpsertArgPair takes for the value of a bare --lmcache-config-file.
Overwritten(args, adapter) ==
    LET i == SelectInSeq(args, LAMBDA a : a.flag = ConfigFileArg) IN
    IF adapter = "sglang" /\ i \in 1..(Len(args) - 1) /\ Bare(args[i]) THEN {args[i + 1].flag} ELSE {}

(* The stamp is the truth about the pod.  While a stored pod carries the   *)
(* uid and the generation of the live backend, and that backend violates   *)
(* no rule, the pod's arguments, environment, server or gate, shared       *)
(* memory and storage are those of the backend's present spec, whatever    *)
(* the template or an earlier admission left and whatever was overridden   *)
(* or suppressed (MP status counts such pods as current).  Three things    *)
(* the code does not guarantee are left out: the node's address, which is  *)
(* not reserved, when an override suppresses or replaces it; the storage,  *)
(* when the webhook read a status that is behind the spec; a template that *)
(* says a reserved flag twice, or after a bare --lmcache-config-file.      *)
StampIsTrue ==
    \A p \in PodName : \A pod \in pods[p], v \in verdict[p] :
        \A b \in Backend : \A cb \in backends[b] :
            LET adapter == Select(cb.spec) IN
            /\ pod.by = b /\ pod.uid = cb.uid /\ pod.gen = cb.gen
            /\ Violations[cb.spec] = {} /\ ~IsEventsOnly(cb.spec)
            /\ \A f \in ReservedArgs(adapter) : /\ Cardinality(At(v.template.args, f)) <= 1
                                               /\ f \notin Overwritten(v.template.args, adapter)
            => /\ EngineWired(pod, adapter, cb) /\ ServerWired(pod, cb)
               /\ (\A read \in v.cb : effectiveEndpoint(read) = Published(read)) => StorageWired(pod, cb)

(* What the pod's owner wrote stays: every argument and every variable of  *)
(* the template that the adapter does not write has its value in the       *)
(* stored pod, overrides or not (applyEngineInjectionOverrides touches     *)
(* only what the adapter contributed).  The one exception is the flag      *)
(* after a bare --lmcache-config-file, which the path replaces.            *)
TemplateKept ==
    \A p \in PodName : \A pod \in pods[p], v \in verdict[p] : \A cb \in v.cb :
        LET adapter == Select(cb.spec)
            was == argsByFlag(v.template.args)
            is == argsByFlag(pod.args) IN
        v.outcome = "wired" =>
            /\ \A f \in DOMAIN was \ (ReservedArgs(adapter) \cup Overwritten(v.template.args, adapter)) :
                   f \in DOMAIN is /\ is[f] = was[f]
            /\ \A n \in EnvNames(v.template.env) \ ReservedEnv(adapter) :
                   \/ n = NodeIPEnv /\ cb.spec.topology = "NodeLocal"
                   \/ EnvValue(pod.env, n) = EnvValue(v.template.env, n)

\* The pod with the order of its variables forgotten, in the engine and in the
\* kernel check, which copies them.
Unordered(pod) ==
    LET Vars(env) == <<Len(env), ToSet(env)>> IN
    [pod EXCEPT !.env = Vars(@),
                !.init[CheckName].cfg = IF @ = <<>> THEN @ ELSE <<@[1], Vars(@[2])>>]

\* vLLM's variables move behind the one that an override appended to them.
Reorders(spec) == Select(spec) = "vllm" /\ \E o \in spec.overrides : o.env # <<>>

(* Admitting a wired pod again changes nothing.  A copy of a stored pod    *)
(* that meets the same backend object comes out as it went in (the         *)
(* adapters merge, so that "re-admissions on an already-injected pod are   *)
(* free"); where the overrides add a variable to a vLLM engine, the same   *)
(* variables may come out in another order, and nothing else changes.  For *)
(* an engine container with its name, in offload mode, without positional  *)
(* override words, and a first template that did not say a reserved flag   *)
(* after a bare --lmcache-config-file.                                     *)
ReadmissionStable ==
    \A p, q \in PodName : \A old \in verdict[p], new \in verdict[q] : \A pod \in admitting[q], cb \in new.cb :
        /\ p # q /\ old.outcome = "wired" /\ old.cb = new.cb /\ pods[p] = {new.template}
        /\ ~IsEventsOnly(cb.spec) /\ EngineContainerName(Select(cb.spec)) \in new.template.containers
        /\ \A o \in cb.spec.overrides : \A i \in DOMAIN o.args : o.args[i].flag # "" \/ IsValueOf(o.args, i)
        /\ Overwritten(old.template.args, Select(cb.spec)) \cap ReservedArgs(Select(cb.spec)) = {}
        => IF Reorders(cb.spec) THEN Unordered(pod) = Unordered(new.template) ELSE pod = new.template

(* An event tells what happened.  InjectedByCacheBackend is emitted for a  *)
(* pod only if the webhook wired it (or wired the stored pod it is a whole *)
(* copy of) to the backend object whose uid was then live; a skipped pod   *)
(* is one the webhook did not wire.  Between the answer, the store and the *)
(* report, backends are deleted and recreated, webhooks do not answer and  *)
(* the controller restarts.                                                *)
EventTruthful ==
    \A e \in events : \E v \in verdict[e[1]] \cup {[outcome |-> "none", cb |-> {}]} :
        IF e[2] = "injected" THEN v.outcome = "wired" /\ \E cb \in v.cb : cb.uid = e[3]
        ELSE v.outcome # "wired"

(* A wired pod is reported: as long as the pod is there and its backend is *)
(* the one that wired it, the event comes, over failed lookups and         *)
(* restarts of the controller.  Assumes that a lookup error is transient   *)
(* and that an admitted pod is stored.                                     *)
EventEventually ==
    []<>(\A p \in PodName : \A pod \in pods[p] :
            Verified(pod) => <<p, "injected", pod.uid>> \in events)

(* Wiring is sound (Handle): an admitted spec suffices for it, the stamp   *)
(* is true, and what the owner wrote is kept.                              *)
WiringSound == AdmissionSuffices /\ StampIsTrue /\ TemplateKept

(* The events tell the truth, and they come (the events controller).       *)
EventsFollow == []EventTruthful /\ EventEventually

(* What the CacheBackend webhook guarantees, whatever races it: engines    *)
(* are claimed twice only after a race, and no rule is broken anew.        *)
AdmissionSound == []OverlapOnlyByRace /\ NoNewViolation
=============================================================================
