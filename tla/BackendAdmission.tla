-------------------------- MODULE BackendAdmission --------------------------
(***************************************************************************)
(* CacheBackend objects and the validating webhook in front of them.       *)
(*                                                                         *)
(* A write is two steps, as the API server performs it: the webhook judges *)
(* the new object against the stored one and a live list of its siblings   *)
(* (Submit), and only later is the object stored (Persist), unless the     *)
(* stored object has moved on.  Objects admitted by an earlier release may *)
(* violate today's rules: an update may keep such a violation and may not  *)
(* add one.                                                                *)
(*                                                                         *)
(* A violation is the tuple by which filterIntroducedErrors recognises an  *)
(* error, its rule first.  Resource quantities are counted in halves of a  *)
(* unit; a resource is [req, lim], each {} or {quantity}.                  *)
(***************************************************************************)
EXTENDS RuntimeAdapters

CONSTANTS Backend,         \* names of CacheBackends of one namespace
          Writer,          \* concurrent API requests
          Specs,           \* Specs[b]: the specs an operator submits for b
          LegacySpecs,     \* LegacySpecs[b]: what an earlier release left behind
          MaxWrites        \* bound: writes submitted

VARIABLES backends,        \* backends[b]: {} or {[uid, gen, spec, endpoint]}
          requests,        \* requests[w]: {} or {[name, spec, base]}, judged and not stored
          uids,            \* uids handed out
          writes,          \* writes submitted
          raced            \* history: two requests were in flight at once

admissionVars == <<backends, requests, uids, writes, raced>>

KVEventPort == 5557

-----------------------------------------------------------------------------
\* Container resources.

Overcommittable == {"cpu", "memory"}   \* isOvercommittableResource
Hugepages       == {"hugepages-2Mi"}
Extended        == {"nvidia.com/gpu"}
ResourceName    == Overcommittable \cup Hugepages \cup Extended \cup {"gpu"}

PageSize == 4   \* of hugepages-2Mi, in halves of a mebibyte

validateContainerResourceName(n) == n # "gpu"  \* neither built in nor vendor-prefixed

Quantities(res, n) ==
    {<<"requests", q>> : q \in res[n].req} \cup {<<"limits", q>> : q \in res[n].lim}

Fractional(n, q) == n \notin Overcommittable \cup Hugepages /\ q % 2 # 0

Misaligned(n, q) == n \in Hugepages /\ q > 0 /\ q % PageSize # 0

\* A limit below its request, or different from it where overcommit is not allowed.
LimitErrors(res) ==
    {<<"limits", n, res[n]>> : n \in {m \in ResourceName :
        \E r \in res[m].req, l \in res[m].lim :
            IF m \in Overcommittable THEN l < r ELSE l # r}}

RequestOnlyErrors(res) ==
    {<<"requests only", n, res[n].req>> : n \in {m \in ResourceName \ Overcommittable :
        res[m].req # {} /\ res[m].lim = {}}}

QuantityErrors(res, names) ==
    UNION {{<<rule, n, x[1], x[2]>> : x \in {y \in Quantities(res, n) :
               CASE rule = "negative" -> y[2] < 0
                 [] rule = "fractional" -> Fractional(n, y[2])
                 [] rule = "hugepages" -> Misaligned(n, y[2])}} :
           <<rule, n>> \in {"negative", "fractional", "hugepages"} \X names}

NameErrors(res) ==
    {<<"name", n>> : n \in {m \in ResourceName :
        Quantities(res, m) # {} /\ ~validateContainerResourceName(m)}}

ClaimErrors(claims) == IF claims THEN {<<"claims">>} ELSE {}

\* The seven rules on the resources of a managed provider.
ProviderResourceErrors(st) ==
    LimitErrors(st.res) \cup RequestOnlyErrors(st.res) \cup ClaimErrors(st.claims)
      \cup QuantityErrors(st.res, ResourceName) \cup NameErrors(st.res)

\* validateMPServerResourceRequirements: an unknown name gets no further check.
validateMPServerResourceRequirements(s) ==
    ClaimErrors(s.claims) \cup NameErrors(s.res) \cup LimitErrors(s.res) \cup RequestOnlyErrors(s.res)
      \cup QuantityErrors(s.res, {n \in ResourceName : validateContainerResourceName(n)})

-----------------------------------------------------------------------------
\* The rules on the spec, in the order of DefaultValidationRules.

When(condition, violation) == IF condition THEN {violation} ELSE {}

validateEngineSelectorDomain(spec) ==
    UNION {IF sel.domain = "" THEN {<<"domain required">>}
           ELSE IF sel.domain = "not a label" THEN {<<"domain invalid", sel.domain>>}
           ELSE When(sel.extra, <<"domain only">>) : sel \in spec.selector}

ProvidesResources(st) == st.claims \/ \E n \in ResourceName : Quantities(st.res, n) # {}

validateCacheHierarchy(spec) ==
    When(spec.topology # "none" /\ EffectiveCacheType(spec) # "LMCache", <<"lmCache of another type">>)
      \cup UNION {
        When(st.provider = "", <<"provider">>)
          \cup When(st.ownership = "", <<"ownership">>)
          \cup When(st.ownership = "Managed" /\ st.endpoint # "", <<"managed endpoint">>)
          \cup (IF st.ownership # "External" THEN {} ELSE
                 When(st.endpoint = "", <<"endpoint required">>)
                   \cup When(st.endpoint \notin HostPort \cup {""}, <<"endpoint", st.endpoint>>)
                   \cup When(st.workload, <<"workload">>)
                   \cup When(st.image # "", <<"external image">>)
                   \cup When(ProvidesResources(st), <<"external resources">>)) :
        st \in spec.storage}

validateMPServer(s, reserved) ==
    LET budget == s.l1 + Headroom
        memory == s.res["memory"] IN
    When(s.image = "", <<"image required">>)
      \cup When(s.image = "tag", <<"image", s.image>>)
      \cup When(s.port \notin 1..65535 \ reserved, <<"port", s.port>>)
      \cup When(s.l1 <= 0, <<"l1Capacity", s.l1>>)
      \cup validateMPServerResourceRequirements(s)
      \cup When(~\E q \in s.res["cpu"].req : q > 0, <<"cpu request">>)
      \cup When(~\E q \in memory.req : q > 0, <<"memory request">>)
      \cup When(s.l1 > 0 /\ \E q \in memory.req : q \in 1..(budget - 1), <<"memory request budget", memory>>)
      \cup When(~\E q \in memory.lim : q > 0, <<"memory limit">>)
      \cup When(s.l1 > 0 /\ \E q \in memory.lim : q \in 1..(budget - 1), <<"memory limit budget", memory>>)

validatePodLocalServer(s) ==
    validateMPServer(s, {KVEventPort, HTTPPort})
      \cup When(s.workers < 1, <<"maxWorkers", s.workers>>)

validateNodeLocalServer(s) ==
    validateMPServer(s, {})
      \cup When(s.workers < 1, <<"workers", s.workers>>)
      \cup When(s.httpPort \notin 1..65535, <<"httpPort", s.httpPort>>)
      \cup When(s.port = s.httpPort, <<"ports distinct", s.httpPort>>)
      \cup When(Quantities(s.res, "nvidia.com/gpu") # {}, <<"server reserves GPUs">>)

validateLMCacheTopology(spec) ==
    IF EffectiveCacheType(spec) # "LMCache" THEN {}
    ELSE IF IsEventsOnly(spec) THEN When(spec.topology # "none", <<"topology of events-only">>)
    ELSE CASE spec.topology = "none" -> {<<"lmCache required">>}
           [] spec.topology = "" -> {<<"topology required">>}
           [] spec.topology = "PodLocal" ->
                When(spec.podLocal = {}, <<"podLocal required">>)
                  \cup UNION {validatePodLocalServer(s) : s \in spec.podLocal}
                  \cup When(spec.nodeLocal # {}, <<"nodeLocal forbidden">>)
           [] spec.topology = "NodeLocal" ->
                When(spec.nodeLocal = {}, <<"nodeLocal required">>)
                  \cup UNION {validateNodeLocalServer(s)
                                 \cup When(s.retention \notin 0..86400, <<"retention", s.retention>>) :
                               s \in spec.nodeLocal}
                  \cup When(spec.podLocal # {}, <<"podLocal forbidden">>)
                  \cup When(spec.selector = {}, <<"selector required">>)
           [] OTHER -> {<<"topology", spec.topology>>}

rejectUnimplementedRedisBindingFeatures(spec) ==
    LET typed == EffectiveCacheType(spec) = "LMCache" /\ spec.topology \in {"PodLocal", "NodeLocal"} IN
    UNION {When(st.auth # "none" /\ ~typed, <<"authentication">>)
             \cup When(st.auth = "incomplete" /\ typed, <<"secret selector">>)
             \cup When(st.auth = "user" /\ typed /\ st.ownership = "Managed", <<"username">>)
             \cup When(st.tls, <<"tls">>)
             \cup When(st.database, <<"database">>) : st \in spec.storage}

serviceDNSNamespace(endpoint) == IF endpoint = "redis.other.svc:6379" THEN {"other"} ELSE {}

rejectCrossNamespaceEndpointWithoutOptIn(spec) ==
    UNION {When(serviceDNSNamespace(st.endpoint) # {} /\ ~spec.allowCrossNamespace,
                <<"cross namespace">>) : st \in spec.storage}

rejectEventsOnlyMisconfiguration(spec) ==
    IF ~IsEventsOnly(spec) THEN {}
    ELSE When(EffectiveCacheType(spec) # "LMCache", <<"events-only type">>)
           \cup When(spec.storage # {}, <<"events-only storage">>)

validateSGLangHiCache(spec) ==
    IF spec.type # "SGLangHiCache" THEN When(spec.hiCache # {}, <<"hiCache forbidden">>)
    ELSE When(spec.hiCache = {}, <<"hiCache required">>)
           \cup UNION {
             When(h.size = {} /\ h.ratio = "", <<"size or ratio">>)
               \cup When(h.size # {} /\ h.ratio # "", <<"size and ratio">>)
               \cup When(\E n \in h.size : n < 1, <<"sizeGB", h.size>>)
               \cup When(h.ratio \notin Ratios \cup {""}, <<"ratio", h.ratio>>)
               \cup When(h.policy \notin WritePolicies, <<"writePolicy", h.policy>>) : h \in spec.hiCache}
           \cup When(spec.runtime # "SGLang", <<"hiCache runtime", spec.runtime>>)
           \cup When(spec.selector = {}, <<"hiCache selector">>)
           \cup When(IsEventsOnly(spec), <<"hiCache mode", spec.mode>>)
           \cup When(spec.role \notin {"", "ReadWrite"}, <<"hiCache role", spec.role>>)
           \cup When(~spec.failOpen, <<"hiCache failOpen">>)

rejectInvalidKernelCheckAnnotation(spec) ==
    When(spec.kernelCheck \notin {"", "auto", "report-only", "strict", "off"},
         <<"kernel check", spec.kernelCheck>>)

rejectUnsupportedLMCacheRole(spec) ==
    When(spec.type = "LMCache" /\ spec.role \notin {"", "ReadWrite"}, <<"role", spec.role>>)

ProtocolFor(storage) == IF storage = {} THEN "" ELSE "RESP"

checkRuntimeAdapter(spec) ==
    IF Select(spec) = "none" THEN {<<"no adapter", spec.runtime>>}
    ELSE IF \E st \in spec.storage : st.provider # "Redis" THEN {<<"no provider">>}
    ELSE When(~SupportsBinding(Select(spec), ProtocolFor(spec.storage)), <<"binding">>)

(* Mutant: what is suppressed is not looked at. *)
checkAddedOverrides(spec) ==
    UNION {{<<"reserved arg", i, o.args[i].flag>> :
              i \in {j \in DOMAIN o.args : o.args[j].flag \in ReservedArgs(Select(spec))}} :
           o \in IF Select(spec) = "none" THEN {} ELSE spec.overrides}

checkEngineOverrides(spec) ==
    LET adapter == Select(spec) IN
    UNION {
      When(o.shape # "ok", <<"env shape", o.shape>>)
        \cup (IF adapter = "none" THEN {} ELSE
              {<<"reserved arg", i, o.args[i].flag>> :
                 i \in {j \in DOMAIN o.args : o.args[j].flag \in ReservedArgs(adapter)}}
                \cup {<<"suppressed arg", f>> : f \in o.suppressArgs \cap ReservedArgs(adapter)}
                \cup {<<"reserved env", n>> : n \in EnvNames(o.env) \cap ReservedEnv(adapter)}
                \cup {<<"suppressed env", n>> : n \in o.suppressEnv \cap ReservedEnv(adapter)}) :
      o \in spec.overrides}

collectErrors(spec) ==
    validateEngineSelectorDomain(spec) \cup validateCacheHierarchy(spec)
      \cup validateLMCacheTopology(spec) \cup rejectUnimplementedRedisBindingFeatures(spec)
      \cup rejectCrossNamespaceEndpointWithoutOptIn(spec)
      \cup UNION {ProviderResourceErrors(st) : st \in spec.storage}
      \cup rejectEventsOnlyMisconfiguration(spec) \cup validateSGLangHiCache(spec)
      \cup rejectInvalidKernelCheckAnnotation(spec) \cup rejectUnsupportedLMCacheRole(spec)
      \cup checkRuntimeAdapter(spec) \cup checkEngineOverrides(spec)

-----------------------------------------------------------------------------
\* Judging a write.

Default(spec) ==
    [spec EXCEPT !.mode = IF @ = "" THEN "Offload" ELSE @,
                 !.role = IF @ = "" THEN "ReadWrite" ELSE @]

\* The rules depend on the spec alone: what they say of every spec there is.
Known == UNION {{Default(s) : s \in Specs[b]} \cup LegacySpecs[b] : b \in Backend}
Violations == [spec \in Known |-> collectErrors(spec)]

\* The domains spec claims: a legacy selector may claim none.
Domains(spec) == {sel.domain : sel \in spec.selector} \ {""}

checkOverlappingEngineSelectors(b, spec) ==
    {<<"owned", d>> : d \in {x \in Domains(spec) :
        \E c \in Backend \ {b} : \E other \in backends[c] : x \in Domains(other.spec)}}

(* Mutant: an error is known by its field, whatever the value. *)
filterByField(oldErrs, newErrs) == {e \in newErrs : \A o \in oldErrs : Head(o) # Head(e)}

filterIntroducedErrors(oldErrs, newErrs) == newErrs \ oldErrs

ValidateCreate(b, spec) ==
    Violations[spec] = {} /\ checkOverlappingEngineSelectors(b, spec) = {}

ValidateUpdate(b, old, spec) ==
    /\ filterIntroducedErrors(Violations[old], Violations[spec]) = {}
    /\ validateEngineSelectorDomain(spec) = {}
    /\ checkOverlappingEngineSelectors(b, spec) = {}

-----------------------------------------------------------------------------
\* The API server.

AdmissionInit ==
    /\ backends \in [Backend -> {{}}]
         \cup {[c \in Backend |-> IF c = b THEN {[uid |-> 1, gen |-> 1, spec |-> spec, endpoint |-> ""]}
                                  ELSE {}] : <<b, spec>> \in {x \in Backend \X UNION {LegacySpecs[c] : c \in Backend} :
                                                             x[2] \in LegacySpecs[x[1]]}}
    /\ requests = [w \in Writer |-> {}]
    /\ uids = 1 /\ writes = 0 /\ raced = FALSE

Submit(w, b, submitted) ==
    LET spec == Default(submitted) IN
    /\ requests[w] = {} /\ writes < MaxWrites
    /\ \A old \in backends[b] : old.spec # spec
    /\ IF backends[b] = {} THEN ValidateCreate(b, spec)
       ELSE \A old \in backends[b] : ValidateUpdate(b, old.spec, spec)
    /\ requests' = [requests EXCEPT ![w] = {[name |-> b, spec |-> spec, base |-> backends[b]]}]
    /\ raced' = (raced \/ \E v \in Writer \ {w} : requests[v] # {})
    /\ writes' = writes + 1
    /\ UNCHANGED <<backends, uids>>

\* The generation counts changes of the spec; the kernel check is an annotation.
Generation(old, spec) ==
    IF [old.spec EXCEPT !.kernelCheck = ""] = [spec EXCEPT !.kernelCheck = ""] THEN old.gen ELSE old.gen + 1

\* The object the webhook judged against is still the stored one.
Stands(r) == backends[r.name] = r.base

\* Store the judged object; a write whose base has moved on is refused.
Persist(w) ==
    \E r \in requests[w] :
        /\ requests' = [requests EXCEPT ![w] = {}]
        /\ IF ~Stands(r) THEN UNCHANGED <<backends, uids>>
           ELSE /\ backends' = [backends EXCEPT ![r.name] =
                     IF @ = {} THEN {[uid |-> uids + 1, gen |-> 1, spec |-> r.spec, endpoint |-> ""]}
                     ELSE {[old EXCEPT !.spec = r.spec, !.gen = Generation(old, r.spec)] : old \in @}]
                /\ uids' = IF backends[r.name] = {} THEN uids + 1 ELSE uids
        /\ UNCHANGED <<writes, raced>>

\* ValidateDelete admits every deletion.
Delete(b) ==
    /\ backends[b] # {} /\ writes < MaxWrites
    /\ backends' = [backends EXCEPT ![b] = {}]
    /\ writes' = writes + 1
    /\ UNCHANGED <<requests, uids, raced>>

\* What the reconciler says of a backend's storage in its status: the endpoint
\* of the external or of the managed provider, nothing where there is no storage.
Published(cb) ==
    IF /\ EffectiveCacheType(cb.spec) = "LMCache" /\ ~IsEventsOnly(cb.spec)
       /\ cb.spec.topology \in {"PodLocal", "NodeLocal"} /\ cb.spec.storage # {}
    THEN LET st == CHOOSE x \in cb.spec.storage : TRUE IN
         IF st.ownership = "External" THEN st.endpoint ELSE "managed.svc:6379"
    ELSE ""

\* The reconciler brings the status to the present spec, some time after the write.
Publish(b) ==
    \E cb \in backends[b] :
        /\ cb.endpoint # Published(cb)
        /\ backends' = [backends EXCEPT ![b] = {[cb EXCEPT !.endpoint = Published(cb)]}]
        /\ UNCHANGED <<requests, uids, writes, raced>>

AdmissionNext ==
    \/ \E w \in Writer, b \in Backend : \E spec \in Specs[b] : Submit(w, b, spec)
    \/ \E w \in Writer : Persist(w)
    \/ \E b \in Backend : Delete(b) \/ Publish(b)

-----------------------------------------------------------------------------
\* Properties.

(* No write makes the stored object worse.  What is created violates       *)
(* nothing; an update, judged before it was stored while others were in    *)
(* flight, adds no violation to those of the object it really replaces and *)
(* never leaves a selector that is not a domain (ValidateUpdate,           *)
(* filterIntroducedErrors and the API server's conflict check).            *)
NoNewViolation ==
    [][\A b \in Backend : \A new \in backends'[b] \ backends[b] :
          /\ validateEngineSelectorDomain(new.spec) \subseteq
                UNION {IF new.spec = old.spec THEN validateEngineSelectorDomain(old.spec) ELSE {} :
                         old \in backends[b]}
          /\ Violations[new.spec] \subseteq UNION {Violations[old.spec] : old \in backends[b]}]_admissionVars

(* Two backends claim one cache domain only after two writes were in       *)
(* flight at once: the check on create and update lists the siblings live, *)
(* and the validator calls itself best effort only against concurrent      *)
(* writes.                                                                 *)
OverlapOnlyByRace ==
    raced \/ \A b, c \in Backend : \A x \in backends[b], y \in backends[c] :
                b # c => Domains(x.spec) \cap Domains(y.spec) = {}
=============================================================================
