-------------------------- MODULE PolicyAdmission ---------------------------
(***************************************************************************)
(* How CachePolicies and CacheTenants get into the cluster that PolicyPush *)
(* reads: the validating webhooks between an API request and its storage.  *)
(*                                                                         *)
(* A request is checked against a live list and stored later, so requests  *)
(* in flight together do not see each other.  Resources that an earlier    *)
(* release admitted may violate today's rules.  A violation is the tuple   *)
(* by which filterIntroducedErrors recognises an error.                    *)
(***************************************************************************)
EXTENDS PolicyPush

CONSTANTS
  Client,
  ProbeTenantID,
  PolicySpec(_)   \* of a policy's value: [ttl, enableChainMatching, requireChain], each {} or {v}

VARIABLES
  writes,   \* per client: {} or {[kind, cr, old, seen]}; seen is {} until the review
  told      \* the sibling the latest refusal named: {} or {[kind, cr, conflict, items]}

admissionVars == <<writes, told>>

stored == [policy |-> policies, tenant |-> tenants]
Of(items, cr) == {o \in items : Identity(o) = Identity(cr)}

-----------------------------------------------------------------------------
(* The rules. *)

rejectNonPositiveEvictionTTL(cp) ==
  {<<"evictionTTL", ttl>> : ttl \in {t \in PolicySpec(cp.value).ttl : t <= 0}}

rejectIncoherentStrategy(cp) ==
  IF PolicySpec(cp.value).enableChainMatching = {FALSE} /\ PolicySpec(cp.value).requireChain = {TRUE}
  THEN {<<"requireChain", 1>>} ELSE {}

rejectReservedProbeTenantID(ct) == IF ct.key = ProbeTenantID THEN {<<"tenantID", 0>>} ELSE {}

specErrors(kind, cr) ==
  IF kind = "policy" THEN rejectNonPositiveEvictionTTL(cr) \cup rejectIncoherentStrategy(cr)
  ELSE rejectReservedProbeTenantID(cr)

\* checkSinglePolicyPerNamespace and checkTenantIDUniqueness: a policy's
\* key is its namespace, a tenant's its tenantID.
siblings(cr, items) ==
  {o \in items : o.namespace = cr.namespace /\ o.name # cr.name /\ o.key = cr.key}

\* The sibling the message names.
conflict(cr, items) ==
  {o \in siblings(cr, items) : \A p \in siblings(cr, items) : ~Before(p, o)}

(* Mutant: a tenantID may be changed to a sibling's. *)
ValidateUpdateAlone(kind, cr, old, items) == specErrors(kind, cr) \subseteq specErrors(kind, old)

(* Only a tenant's siblings count, and only when its tenantID changes.     *)
ValidateUpdate(kind, cr, old, items) ==
  /\ specErrors(kind, cr) \subseteq specErrors(kind, old)
  /\ kind = "tenant" /\ cr.key # old.key => siblings(cr, items) = {}

ValidateCreate(kind, cr, items) == specErrors(kind, cr) = {} /\ siblings(cr, items) = {}

-----------------------------------------------------------------------------
(* The API server. *)

Room(kind) == stored[kind].stamp + Cardinality({c \in Client : writes[c] # {}}) < MaxChanges

Submit(c, kind, cr) ==
  /\ writes[c] = {} /\ Room(kind)
  /\ writes' = [writes EXCEPT ![c] =
                  {[kind |-> kind, cr |-> cr, old |-> Of(stored[kind].items, cr), seen |-> {}]}]
  /\ UNCHANGED <<vars, told>>

(* The webhook's answer.  A list that fails, or no answer, refuses.         *)
Validate(c) ==
  \E req \in writes[c] :
    LET items == stored[req.kind].items
        ok == \A o \in req.old : ValidateUpdate(req.kind, req.cr, o, items) IN
    /\ req.seen = {}
    /\ \/ /\ ok /\ (req.old = {} => ValidateCreate(req.kind, req.cr, items))
          /\ writes' = [writes EXCEPT ![c] = {[req EXCEPT !.seen = {items}]}]
          /\ UNCHANGED told
       \/ /\ writes' = [writes EXCEPT ![c] = {}]
          /\ told' = {[kind |-> req.kind, cr |-> req.cr, conflict |-> o, items |-> items] :
                        o \in IF req.old = {} THEN conflict(req.cr, items) ELSE {}}
    /\ UNCHANGED vars

(* An object that changed since the request began is a conflict.           *)
Store(c) ==
  \E req \in writes[c] :
    LET now == stored[req.kind]
        next == [items |-> (now.items \ Of(now.items, req.cr)) \cup {req.cr}, stamp |-> now.stamp + 1] IN
    /\ req.seen # {}
    /\ writes' = [writes EXCEPT ![c] = {}]
    /\ IF Of(now.items, req.cr) # req.old THEN UNCHANGED clusterVars
       ELSE IF req.kind = "policy" THEN policies' = next /\ UNCHANGED tenants
       ELSE tenants' = next /\ UNCHANGED policies
    /\ UNCHANGED <<cacheVars, queued, pc, listed, pushMu, late, store, faults, told>>

(* ValidateDelete allows every deletion.                                   *)
Delete(kind, cr) ==
  LET next == [items |-> stored[kind].items \ {cr}, stamp |-> stored[kind].stamp + 1] IN
  /\ cr \in stored[kind].items /\ Room(kind)
  /\ IF kind = "policy" THEN policies' = next /\ UNCHANGED tenants
     ELSE tenants' = next /\ UNCHANGED policies
  /\ UNCHANGED <<cacheVars, queued, pc, listed, pushMu, late, store, faults, admissionVars>>

Candidates(kind) == IF kind = "policy" THEN PolicyCR ELSE TenantCR

Admission(kind) ==
  \/ \E c \in Client : \/ \E cr \in Candidates(kind) : Submit(c, kind, cr)
                       \/ Validate(c) \/ Store(c)
  \/ \E cr \in Candidates(kind) : Delete(kind, cr)

(* Whatever an earlier release left in the cluster, one object of a name.  *)
AdmissionInit ==
  /\ \E P \in SUBSET PolicyCR, T \in SUBSET TenantCR :
       /\ \A K \in {P, T} : \A a, b \in K : Identity(a) = Identity(b) => a = b
       /\ InitWith(P, T)
  /\ writes = [c \in Client |-> {}] /\ told = {}

AdmissionNext ==
  \/ \E kind \in {"policy", "tenant"} : Admission(kind)
  \/ Propagate /\ UNCHANGED admissionVars

AdmissionSpec == AdmissionInit /\ [][AdmissionNext]_<<vars, admissionVars>>

-----------------------------------------------------------------------------
(* Properties *)

\* The request of c that this step stores.
Storing(c) == {req \in writes[c] : writes'[c] = {} /\ req.cr \in stored'[req.kind].items \ stored[req.kind].items}

(* Two policies share a namespace, or two tenants of one namespace a       *)
(* tenantID, only if they did before or if one was stored between the      *)
(* review of the other and its storage: the live list catches every clash  *)
(* that does not race ("best effort" in both validators).                  *)
CollisionOnlyByRace ==
  [][\A c \in Client : \A req \in Storing(c) : \A o \in siblings(req.cr, stored[req.kind].items) :
       \/ \E p \in req.old : p.key = req.cr.key
       \/ \A items \in req.seen : o \notin items]_<<vars, admissionVars>>

(* What is stored violates no rule that the object it replaces did not     *)
(* violate in the same way, whatever was written while it was reviewed; in *)
(* particular the probe tenant's id is never claimed anew.                 *)
NoNewRuleBroken ==
  [][\A c \in Client : \A req \in Storing(c) :
       specErrors(req.kind, req.cr) \subseteq
         UNION {specErrors(req.kind, p) : p \in Of(stored[req.kind].items, req.cr)}]_<<vars, admissionVars>>

(* A refused second policy is told of the one in force: "points at the     *)
(* policy actually in force" (checkSinglePolicyPerNamespace), unless one   *)
(* of its own name was stored in the meantime, which it does not compare   *)
(* itself with.                                                            *)
ConflictInForce ==
  \A t \in told : t.kind = "policy" /\ Of(t.items, t.cr) = {} => resolvePolicies(t.items)[t.cr.key] = t.conflict

(* What the two validators guarantee of the cluster, whatever races them.  *)
AdmissionSound == CollisionOnlyByRace /\ NoNewRuleBroken /\ []ConflictInForce
=============================================================================
