-------------------------- MODULE PolicyPushProofs --------------------------
(* Proofs about PolicyPush and PolicyAdmission for every set of resources, *)
(* every order of names, every number of clients and any number of faults. *)
EXTENDS PolicyAdmission, TLAPS

Section == {"policies", "tenants", "post"}

(* Nothing on its way to the store, nor the store itself, is ahead of the  *)
(* informer caches; and what a pusher listed under pushMu is no older than *)
(* the store and than any POST whose sender gave up.                       *)
OrderInv ==
  /\ cachedPolicies.stamp <= policies.stamp /\ cachedTenants.stamp <= tenants.stamp
  /\ store.stamps[1] <= cachedPolicies.stamp /\ store.stamps[2] <= cachedTenants.stamp
  /\ \A b \in late : b.policies.stamp <= cachedPolicies.stamp /\ b.tenants.stamp <= cachedTenants.stamp
  /\ \A w \in Pusher :
       /\ pc[w] \in {"tenants", "post"} =>
            /\ listed[w].policies.stamp <= cachedPolicies.stamp
            /\ store.stamps[1] <= listed[w].policies.stamp
            /\ \A b \in late : b.policies.stamp <= listed[w].policies.stamp
       /\ pc[w] = "post" =>
            /\ listed[w].tenants.stamp <= cachedTenants.stamp
            /\ store.stamps[2] <= listed[w].tenants.stamp
            /\ \A b \in late : b.tenants.stamp <= listed[w].tenants.stamp

PushInv == TypeOK /\ OrderInv

(* A write of the cluster's users: the resources move on, nothing else.    *)
ClusterMoves ==
  /\ policies' \in Kind(PolicyCR) /\ tenants' \in Kind(TenantCR)
  /\ policies'.stamp >= policies.stamp /\ tenants'.stamp >= tenants.stamp
  /\ UNCHANGED <<cacheVars, queued, pc, listed, pushMu, late, store, faults>>

LEMMA InitKeeps ==
  ASSUME NEW P \in SUBSET PolicyCR, NEW T \in SUBSET TenantCR, InitWith(P, T)
  PROVE  PushInv
<1>1. policies \in Kind(PolicyCR) /\ tenants \in Kind(TenantCR) /\ NoSnapshot \in Body
  BY DEF InitWith, Kind, Body, NoSnapshot, NoList
<1>2. store.stamps = <<0, 0>> /\ late = {} /\ cachedPolicies = policies /\ cachedTenants = tenants
      /\ \A w \in Pusher : pc[w] = "idle"
  BY DEF InitWith, EmptyStore
<1>3. TypeOK
  BY <1>1, <1>2, LimitAssumption DEF InitWith, TypeOK, Pusher, NoPusher
<1>4. OrderInv
  BY <1>1, <1>2 DEF InitWith, OrderInv, Kind
<1> QED BY <1>3, <1>4 DEF PushInv

LEMMA ClusterKeeps ==
  ASSUME PushInv, ClusterMoves
  PROVE  PushInv'
<1>1. TypeOK'
  BY DEF PushInv, TypeOK, ClusterMoves, cacheVars
<1>2. OrderInv'
  <2>1. cachedPolicies'.stamp <= policies'.stamp /\ cachedTenants'.stamp <= tenants'.stamp
    BY DEF PushInv, TypeOK, OrderInv, ClusterMoves, cacheVars, Kind
  <2> QED BY <2>1 DEF PushInv, OrderInv, ClusterMoves, cacheVars
<1> QED BY <1>1, <1>2 DEF PushInv

LEMMA Stamps ==
  ASSUME TypeOK
  PROVE  /\ cachedPolicies.stamp \in Nat /\ cachedTenants.stamp \in Nat
         /\ policies.stamp \in Nat /\ tenants.stamp \in Nat /\ store.stamps \in Nat \X Nat
         /\ \A b \in late : b.policies.stamp \in Nat /\ b.tenants.stamp \in Nat
         /\ \A w \in Pusher : listed[w].policies.stamp \in Nat /\ listed[w].tenants.stamp \in Nat
BY DEF TypeOK, Kind, Body

(* The informers only catch up.                                            *)
LEMMA WatchKeeps ==
  ASSUME PushInv, WatchPolicies \/ WatchTenants
  PROVE  PushInv'
<1> USE DEF PushInv
<1>1. TypeOK'
  BY ZenonT(60) DEF TypeOK, WatchPolicies, WatchTenants, clusterVars
<1>3. cachedPolicies'.stamp >= cachedPolicies.stamp /\ cachedTenants'.stamp >= cachedTenants.stamp
      /\ cachedPolicies'.stamp \in Nat /\ cachedTenants'.stamp \in Nat
      /\ cachedPolicies'.stamp <= policies.stamp /\ cachedTenants'.stamp <= tenants.stamp
  BY Stamps DEF WatchPolicies, WatchTenants, OrderInv
<1>4. UNCHANGED <<policies, tenants, pc, listed, late, store>>
  BY DEF WatchPolicies, WatchTenants, clusterVars
<1>5. OrderInv'
  BY Stamps, <1>3, <1>4 DEF OrderInv
<1> QED BY <1>1, <1>5

(* A pusher is queued and takes pushMu.                                    *)
LEMMA LockKeeps ==
  ASSUME PushInv, Reconcile \/ Start \/ \E w \in Pusher : Lock(w)
  PROVE  PushInv'
<1> USE DEF PushInv
<1>1. TypeOK'
  BY ZenonT(60) DEF TypeOK, Reconcile, Start, Lock, pushMuFree, clusterVars, cacheVars, Pusher, NoPusher
<1>2. UNCHANGED <<policies, tenants, cachedPolicies, cachedTenants, listed, late, store>>
  BY DEF Reconcile, Start, Lock, clusterVars, cacheVars
<1>3. \A w \in Pusher : pc'[w] \in {"tenants", "post"} => pc'[w] = pc[w]
  BY DEF TypeOK, Reconcile, Start, Lock, Pusher
<1>4. OrderInv'
  BY <1>2, <1>3 DEF OrderInv
<1> QED BY <1>1, <1>4

(* What is listed under pushMu is the cache of that moment.                *)
LEMMA ListKeeps ==
  ASSUME PushInv, NEW w \in Pusher, ListPolicies(w) \/ ListTenants(w)
  PROVE  PushInv'
<1> USE DEF PushInv
<1>1. TypeOK'
  BY DEF TypeOK, Body, ListPolicies, ListTenants, clusterVars, cacheVars
<1>2. UNCHANGED <<policies, tenants, cachedPolicies, cachedTenants, late, store>>
  BY DEF ListPolicies, ListTenants, clusterVars, cacheVars
<1>3. \A v \in Pusher \ {w} : pc'[v] = pc[v] /\ listed'[v] = listed[v]
  BY DEF TypeOK, ListPolicies, ListTenants
<1>4. CASE ListPolicies(w)
  <2>1. pc'[w] = "tenants" /\ listed'[w].policies = cachedPolicies
    BY <1>4 DEF TypeOK, Body, ListPolicies
  <2>2. OrderInv'
    BY <1>2, <1>3, <2>1, Stamps DEF OrderInv
  <2> QED BY <1>1, <2>2
<1>5. CASE ListTenants(w)
  <2>1. pc[w] = "tenants" /\ pc'[w] = "post" /\ listed'[w].tenants = cachedTenants
        /\ listed'[w].policies = listed[w].policies
    BY <1>5 DEF TypeOK, Body, ListTenants
  <2>2. OrderInv'
    BY <1>2, <1>3, <2>1, Stamps DEF OrderInv
  <2> QED BY <1>1, <2>2
<1> QED BY <1>4, <1>5

(* A pusher that returns frees pushMu and forgets what it listed.          *)
LEMMA ReturnFacts ==
  ASSUME TypeOK, NEW w \in Pusher, pc[w] \in Section, return(w)
  PROVE  /\ pc' \in [Pusher -> {"idle", "lock", "policies", "tenants", "post"}]
         /\ listed' \in [Pusher -> Body] /\ pushMu' = NoPusher
         /\ \A v \in Pusher : pc'[v] \notin Section
<1>1. \A v \in Pusher : pc[v] \in Section => v = w
  BY DEF TypeOK, Section
<1>2. NoSnapshot \in Body
  BY DEF NoSnapshot, NoList, Body, Kind
<1> QED BY <1>1, <1>2 DEF TypeOK, return, Section

(* The POST and its fates: handled, failed, given up.                      *)
LEMMA PostKeeps ==
  ASSUME PushInv, NEW w \in Pusher,
         PolicyHandler(w) \/ PoliciesNotFound(w) \/ PushFails(w) \/ PushTimesOut(w)
  PROVE  PushInv'
<1> USE DEF PushInv
<1>1. pc[w] \in Section /\ return(w)
  BY DEF PolicyHandler, PoliciesNotFound, PushFails, PushTimesOut, Section
<1>2. UNCHANGED <<policies, tenants, cachedPolicies, cachedTenants>>
  BY DEF PolicyHandler, PoliciesNotFound, PushFails, PushTimesOut, clusterVars, cacheVars
<1>3. /\ late' \subseteq Body /\ store'.stamps \in Nat \X Nat
      /\ store'.stamps[1] <= cachedPolicies.stamp /\ store'.stamps[2] <= cachedTenants.stamp
      /\ \A b \in late' : b.policies.stamp <= cachedPolicies.stamp /\ b.tenants.stamp <= cachedTenants.stamp
  <2>1. CASE PolicyHandler(w)
    <3>1. store'.stamps = <<listed[w].policies.stamp, listed[w].tenants.stamp>> /\ late' = late
          /\ pc[w] = "post"
      BY <2>1 DEF PolicyHandler, ReplaceSnapshot
    <3> QED BY <3>1, Stamps DEF OrderInv, TypeOK
  <2>2. CASE PoliciesNotFound(w) \/ PushFails(w)
    BY <2>2 DEF PoliciesNotFound, PushFails, OrderInv, TypeOK
  <2>3. CASE PushTimesOut(w)
    <3>1. late' = late \cup {listed[w]} /\ store' = store /\ pc[w] = "post" /\ listed[w] \in Body
      BY <2>3 DEF PushTimesOut, TypeOK
    <3> QED BY <3>1 DEF OrderInv, TypeOK
  <2> QED BY <2>1, <2>2, <2>3
<1>4. queued' \in BOOLEAN /\ faults' \in 0..MaxFaults
  <2>1. queued' \in BOOLEAN
    BY ZenonT(60) DEF PolicyHandler, PoliciesNotFound, PushFails, PushTimesOut, retry, TypeOK
  <2>2. faults' \in 0..MaxFaults
    BY LimitAssumption DEF PolicyHandler, PoliciesNotFound, PushFails, PushTimesOut, fault, TypeOK
  <2> QED BY <2>1, <2>2
<1>5. TypeOK'
  BY <1>1, <1>2, <1>3, <1>4, ReturnFacts DEF TypeOK, Section, Pusher, NoPusher
<1>6. OrderInv'
  BY <1>1, <1>2, <1>3, ReturnFacts DEF OrderInv, Section
<1> QED BY <1>5, <1>6

(* A POST whose sender gave up is handled after all, or dropped.           *)
LEMMA LateKeeps ==
  ASSUME PushInv, LateHandler \/ LateDrop
  PROVE  PushInv'
<1> USE DEF PushInv
<1>1. UNCHANGED <<policies, tenants, cachedPolicies, cachedTenants, queued, pc, listed, pushMu, faults>>
      /\ late' \subseteq late
  BY DEF LateHandler, LateDrop, clusterVars, cacheVars
<1>2. store' = store \/ \E b \in late : store'.stamps = <<b.policies.stamp, b.tenants.stamp>>
  BY DEF LateHandler, LateDrop, ReplaceSnapshot
<1>3. store'.stamps \in Nat \X Nat
  BY <1>2, Stamps
<1>4. TypeOK'
  BY <1>1, <1>3 DEF TypeOK
<1>5. OrderInv'
  BY <1>1, <1>2, Stamps DEF OrderInv
<1> QED BY <1>4, <1>5

(* The server restarts empty; a new leader starts from a fresh list.       *)
LEMMA RestartKeeps ==
  ASSUME PushInv, ServerRestart \/ LeaderChange
  PROVE  PushInv'
<1> USE DEF PushInv
<1>0. faults' \in 0..MaxFaults /\ queued' \in BOOLEAN /\ UNCHANGED <<policies, tenants>>
  <2>1. queued' \in BOOLEAN
    BY ZenonT(60) DEF ServerRestart, LeaderChange, TypeOK
  <2>2. faults' \in 0..MaxFaults /\ UNCHANGED <<policies, tenants>>
    BY LimitAssumption DEF ServerRestart, LeaderChange, restart, fault, TypeOK, clusterVars
  <2> QED BY <2>1, <2>2
<1>1. CASE ServerRestart
  <2>1. /\ store'.stamps = <<0, 0>> /\ late' = {}
        /\ UNCHANGED <<cachedPolicies, cachedTenants, pc, listed, pushMu>>
    BY <1>1 DEF ServerRestart, EmptyStore, cacheVars
  <2>2. TypeOK'
    BY <1>0, <2>1 DEF TypeOK
  <2>3. OrderInv'
    BY <1>0, <2>1, Stamps DEF OrderInv
  <2> QED BY <2>2, <2>3
<1>2. CASE LeaderChange
  <2>1. /\ cachedPolicies' = policies /\ cachedTenants' = tenants /\ store' = store
        /\ pc' = [w \in Pusher |-> "idle"] /\ listed' = [w \in Pusher |-> NoSnapshot] /\ pushMu' = NoPusher
    BY <1>2 DEF LeaderChange
  <2>2. \A b \in late' : /\ b \in Body
                          /\ b.policies.stamp <= cachedPolicies.stamp /\ b.tenants.stamp <= cachedTenants.stamp
    <3> SUFFICES ASSUME NEW b \in late'
                 PROVE  /\ b \in Body
                        /\ b.policies.stamp <= cachedPolicies.stamp /\ b.tenants.stamp <= cachedTenants.stamp
      OBVIOUS
    <3>1. CASE b \in late
      BY <3>1 DEF OrderInv, TypeOK
    <3>2. CASE b \notin late
      <4>1. PICK w \in Pusher : pc[w] = "post" /\ b = listed[w]
        BY <1>2, <3>2 DEF LeaderChange
      <4> QED BY <4>1 DEF OrderInv, TypeOK
    <3> QED BY <3>1, <3>2
  <2>3. NoSnapshot \in Body
    BY DEF NoSnapshot, NoList, Body, Kind
  <2>4. TypeOK'
    BY <1>0, <2>1, <2>2, <2>3 DEF TypeOK, Pusher, NoPusher
  <2>5. \A b \in late' : b.policies.stamp \in Nat /\ b.tenants.stamp \in Nat
    BY <2>2 DEF Body, Kind
  <2>6. OrderInv'
    BY <1>0, <2>1, <2>2, <2>5, Stamps DEF OrderInv
  <2> QED BY <2>4, <2>6
<1> QED BY <1>1, <1>2

LEMMA PropagateKeeps ==
  ASSUME PushInv, Propagate
  PROVE  PushInv'
BY WatchKeeps, LockKeeps, ListKeeps, PostKeeps, LateKeeps, RestartKeeps DEF Propagate, Push

-----------------------------------------------------------------------------
(* The order of pushes.                                                    *)

(* A step of the pushers is ordered, whoever writes to the cluster.        *)
Ordered == \A w \in Pusher : pc[w] = "post" /\ pc'[w] = "idle" /\ faults' = faults
                             => newer(store'.stamps, store.stamps)

LEMMA PropagateOrdered ==
  ASSUME PushInv, Propagate
  PROVE  Ordered
<1> SUFFICES ASSUME NEW w \in Pusher, pc[w] = "post", pc'[w] = "idle", faults' = faults
             PROVE  newer(store'.stamps, store.stamps)
  BY DEF Ordered
<1>0. TypeOK /\ OrderInv
  BY DEF PushInv
<1>1. \A v \in Pusher \ {w} : pc[v] \notin Section
  BY <1>0 DEF TypeOK, Section
<1>2. faults \in Nat /\ ~fault
  BY <1>0, LimitAssumption DEF TypeOK, fault
<1>3. ASSUME NEW v \in Pusher, PolicyHandler(v)
      PROVE  newer(store'.stamps, store.stamps)
  <2>1. v = w
    BY <1>1, <1>3 DEF PolicyHandler, Section
  <2>2. store'.stamps = <<listed[w].policies.stamp, listed[w].tenants.stamp>>
    BY <1>3, <2>1 DEF PolicyHandler, ReplaceSnapshot
  <2> QED BY <1>0, <2>2, Stamps DEF newer, OrderInv
<1>4. ASSUME NEW v \in Pusher, Lock(v) \/ ListPolicies(v) \/ ListTenants(v) PROVE FALSE
  BY <1>0, <1>1, <1>4 DEF TypeOK, Lock, ListPolicies, ListTenants, Section
<1>5. ASSUME NEW v \in Pusher, PoliciesNotFound(v) \/ PushFails(v) \/ PushTimesOut(v) PROVE FALSE
  BY <1>2, <1>5 DEF PoliciesNotFound, PushFails, PushTimesOut
<1>6. CASE Reconcile \/ Start
  BY <1>0, <1>6 DEF TypeOK, Reconcile, Start, Pusher
<1>7. CASE WatchPolicies \/ WatchTenants \/ LateHandler \/ LateDrop
  BY <1>7 DEF WatchPolicies, WatchTenants, LateHandler, LateDrop
<1>8. CASE ServerRestart \/ LeaderChange
  BY <1>2, <1>8 DEF ServerRestart, LeaderChange, restart
<1> QED BY <1>3, <1>4, <1>5, <1>6, <1>7, <1>8 DEF Propagate, Push

LEMMA ChangeMoves ==
  ASSUME PushInv, ChangePolicies \/ ChangeTenants
  PROVE  ClusterMoves
<1>1. ASSUME NEW CR, NEW kind \in Kind(CR), NEW next \in Changed(kind, CR)
      PROVE  next \in Kind(CR) /\ next.stamp >= kind.stamp
  BY <1>1 DEF Kind, Changed
<1>2. policies \in Kind(PolicyCR) /\ tenants \in Kind(TenantCR)
  BY DEF PushInv, TypeOK
<1>3. policies.stamp >= policies.stamp /\ tenants.stamp >= tenants.stamp
  BY Stamps DEF PushInv
<1> QED BY <1>1, <1>2, <1>3 DEF ChangePolicies, ChangeTenants, ClusterMoves

LEMMA PushStep == PushInv /\ [Next]_vars => PushInv'
<1> SUFFICES ASSUME PushInv, [Next]_vars PROVE PushInv'
  BY ZenonT(60)
<1>1. CASE UNCHANGED vars
  BY <1>1 DEF vars, PushInv, TypeOK, OrderInv
<1> QED BY <1>1, ChangeMoves, ClusterKeeps, PropagateKeeps DEF Next

(* A push somebody waits for never replaces a snapshot listed after it,    *)
(* whatever changes, fails, times out or restarts: pushSnapshot holds      *)
(* pushMu from its first list to the end of its POST, so what it sends is  *)
(* no older than anything that was sent before.                            *)
THEOREM OrderTheorem == Spec => AwaitedPushOrdered
<1>1. Init => PushInv
  BY InitKeeps DEF Init
<1>2. PushInv /\ [Next]_vars => [Ordered]_vars
  <2>1. ASSUME ClusterMoves PROVE Ordered
    BY <2>1 DEF ClusterMoves, Ordered
  <2> QED BY <2>1, ChangeMoves, PropagateOrdered DEF Next
<1>3. Spec => [][Ordered]_vars
  BY <1>1, <1>2, PushStep, PTL DEF Spec
<1> QED BY <1>3 DEF AwaitedPushOrdered, Ordered

-----------------------------------------------------------------------------
(* Admission.                                                              *)

Kinds == {"policy", "tenant"}
Resources == PolicyCR \cup TenantCR
Request == [kind : Kinds, cr : Resources, old : SUBSET Resources, seen : SUBSET SUBSET Resources]

(* A request in flight is one object with its predecessor of that name,    *)
(* and the list it was reviewed against, if any, spoke for it.             *)
Reviewed(req) ==
  /\ req.cr \in Candidates(req.kind) /\ req.old \subseteq Candidates(req.kind)
  /\ \A p \in req.old : Identity(p) = Identity(req.cr)
  /\ \A items \in req.seen :
       /\ \A p \in req.old : ValidateUpdate(req.kind, req.cr, p, items)
       /\ req.old = {} => ValidateCreate(req.kind, req.cr, items)

WriteInv ==
  /\ writes \in [Client -> SUBSET Request]
  /\ \A c \in Client : \A req \in writes[c] : Reviewed(req) /\ writes[c] = {req}

LEMMA StoredTyped ==
  ASSUME PushInv, NEW kind \in Kinds
  PROVE  stored[kind] \in Kind(Candidates(kind)) /\ stored[kind].items \subseteq Candidates(kind)
BY DEF PushInv, TypeOK, Kinds, Kind, Candidates, stored

LEMMA WriteStep ==
  ASSUME PushInv, WriteInv, [AdmissionNext]_<<vars, admissionVars>>
  PROVE  WriteInv'
<1>1. ASSUME NEW c \in Client, NEW req, writes' = [writes EXCEPT ![c] = {req}], req \in Request, Reviewed(req)
      PROVE  WriteInv'
  <2>1. writes' \in [Client -> SUBSET Request] /\ writes'[c] = {req}
        /\ \A d \in Client \ {c} : writes'[d] = writes[d]
    BY <1>1 DEF WriteInv
  <2>2. \A d \in Client : \A r \in writes'[d] : Reviewed(r) /\ writes'[d] = {r}
    BY <1>1, <2>1, ZenonT(60) DEF WriteInv
  <2> QED BY <2>1, <2>2, ZenonT(60) DEF WriteInv, Reviewed, Candidates, ValidateUpdate, ValidateCreate
<1>2. ASSUME NEW c \in Client, writes' = [writes EXCEPT ![c] = {}]
      PROVE  WriteInv'
  BY <1>2, ZenonT(60) DEF WriteInv, Reviewed, Candidates, ValidateUpdate, ValidateCreate
<1>3. ASSUME UNCHANGED writes PROVE WriteInv'
  BY <1>3, ZenonT(60) DEF WriteInv, Reviewed, Candidates, ValidateUpdate, ValidateCreate
<1>4. ASSUME NEW c \in Client, NEW kind \in Kinds, NEW cr \in Candidates(kind), Submit(c, kind, cr)
      PROVE  WriteInv'
  <2> DEFINE req == [kind |-> kind, cr |-> cr, old |-> Of(stored[kind].items, cr), seen |-> {}]
  <2>1. writes' = [writes EXCEPT ![c] = {req}]
    BY <1>4 DEF Submit
  <2>2. Of(stored[kind].items, cr) \subseteq Candidates(kind)
    BY StoredTyped DEF Of
  <2>3. req \in Request
    BY <2>2 DEF Request, Candidates, Resources
  <2>4. Reviewed(req)
    BY <2>2 DEF Reviewed, Of
  <2> QED BY <1>1, <2>1, <2>3, <2>4, ZenonT(60)
<1>5. ASSUME NEW c \in Client, Validate(c) PROVE WriteInv'
  <2>1. PICK req \in writes[c] :
          LET items == stored[req.kind].items
              ok == \A o \in req.old : ValidateUpdate(req.kind, req.cr, o, items)
          IN \/ /\ ok /\ (req.old = {} => ValidateCreate(req.kind, req.cr, items))
                /\ writes' = [writes EXCEPT ![c] = {[req EXCEPT !.seen = {items}]}]
             \/ writes' = [writes EXCEPT ![c] = {}]
    BY <1>5 DEF Validate
  <2> DEFINE items == stored[req.kind].items
             next == [req EXCEPT !.seen = {items}]
  <2>2. req \in Request /\ Reviewed(req)
    BY DEF WriteInv
  <2>3. CASE writes' = [writes EXCEPT ![c] = {}]
    BY <1>2, <2>3, ZenonT(60)
  <2>4. CASE writes' # [writes EXCEPT ![c] = {}]
    <3>1. /\ \A o \in req.old : ValidateUpdate(req.kind, req.cr, o, items)
          /\ req.old = {} => ValidateCreate(req.kind, req.cr, items)
          /\ writes' = [writes EXCEPT ![c] = {next}]
      BY <2>1, <2>4
    <3>2. items \subseteq Resources
      BY <2>2, StoredTyped DEF Request, Candidates, Resources
    <3>3. /\ next \in Request /\ next.kind = req.kind /\ next.cr = req.cr /\ next.old = req.old
          /\ next.seen = {items}
      BY <2>2, <3>2 DEF Request
    <3>4. Reviewed(next)
      BY <2>2, <3>1, <3>3 DEF Reviewed
    <3> QED BY <1>1, <3>1, <3>3, <3>4, ZenonT(60)
  <2> QED BY <2>3, <2>4
<1>6. ASSUME NEW c \in Client, Store(c) PROVE WriteInv'
  BY <1>2, <1>6, ZenonT(60) DEF Store
<1>7. ASSUME NEW kind \in Kinds, NEW cr \in Candidates(kind), Delete(kind, cr) PROVE WriteInv'
  BY <1>3, <1>7 DEF Delete, admissionVars
<1>8. CASE Propagate /\ UNCHANGED admissionVars
  BY <1>3, <1>8 DEF admissionVars
<1>9. CASE UNCHANGED <<vars, admissionVars>>
  BY <1>3, <1>9 DEF admissionVars
<1> QED BY <1>4, <1>5, <1>6, <1>7, <1>8, <1>9 DEF AdmissionNext, Admission, Kinds

(* What the webhooks let through moves the cluster on.                     *)
LEMMA AdmissionMoves ==
  ASSUME PushInv, WriteInv, NEW kind \in Kinds, Admission(kind)
  PROVE  UNCHANGED vars \/ ClusterMoves
<1>0. /\ policies \in Kind(PolicyCR) /\ tenants \in Kind(TenantCR)
      /\ policies.stamp >= policies.stamp /\ tenants.stamp >= tenants.stamp
      /\ policies.stamp \in Nat /\ tenants.stamp \in Nat
  BY Stamps DEF PushInv, TypeOK
<1>1. ASSUME NEW k \in Kinds, NEW items \in SUBSET Candidates(k),
             LET next == [items |-> items, stamp |-> stored[k].stamp + 1]
             IN IF k = "policy" THEN policies' = next /\ UNCHANGED tenants
                ELSE tenants' = next /\ UNCHANGED policies
      PROVE  /\ policies' \in Kind(PolicyCR) /\ tenants' \in Kind(TenantCR)
             /\ policies'.stamp >= policies.stamp /\ tenants'.stamp >= tenants.stamp
  BY <1>0, <1>1 DEF Kinds, Kind, Candidates, stored
<1>2. ASSUME NEW c \in Client, Store(c) PROVE ClusterMoves
  <2>1. PICK req \in writes[c] :
          LET now == stored[req.kind]
              next == [items |-> (now.items \ Of(now.items, req.cr)) \cup {req.cr}, stamp |-> now.stamp + 1]
          IN IF Of(now.items, req.cr) # req.old THEN UNCHANGED clusterVars
             ELSE IF req.kind = "policy" THEN policies' = next /\ UNCHANGED tenants
             ELSE tenants' = next /\ UNCHANGED policies
    BY <1>2 DEF Store
  <2>2. req.kind \in Kinds /\ req.cr \in Candidates(req.kind)
    BY DEF WriteInv, Reviewed, Request
  <2> DEFINE now == stored[req.kind]
             items == (now.items \ Of(now.items, req.cr)) \cup {req.cr}
  <2>3. items \in SUBSET Candidates(req.kind)
    BY <2>2, StoredTyped, ZenonT(60)
  <2>4. UNCHANGED <<cacheVars, queued, pc, listed, pushMu, late, store, faults>>
    BY <1>2, ZenonT(60) DEF Store
  <2>5. CASE Of(now.items, req.cr) # req.old
    BY <1>0, <2>1, <2>4, <2>5, ZenonT(60) DEF ClusterMoves, clusterVars
  <2>6. CASE Of(now.items, req.cr) = req.old
    BY <1>1, <2>1, <2>2, <2>3, <2>4, <2>6, ZenonT(60) DEF ClusterMoves
  <2> QED BY <2>5, <2>6
<1>3. ASSUME NEW cr \in Candidates(kind), Delete(kind, cr) PROVE ClusterMoves
  <2>1. stored[kind].items \ {cr} \in SUBSET Candidates(kind)
    BY StoredTyped
  <2> QED BY <1>1, <1>3, <2>1 DEF Delete, ClusterMoves
<1>4. ASSUME NEW c \in Client, Validate(c) \/ \E cr \in Candidates(kind) : Submit(c, kind, cr)
      PROVE  UNCHANGED vars
  BY <1>4 DEF Validate, Submit
<1> QED BY <1>2, <1>3, <1>4 DEF Admission

LEMMA AdmissionStep ==
  ASSUME PushInv, WriteInv, [AdmissionNext]_<<vars, admissionVars>>
  PROVE  PushInv' /\ WriteInv' /\ (Ordered \/ UNCHANGED vars)
<1>1. WriteInv'
  BY WriteStep, ZenonT(60)
<1>2. CASE UNCHANGED vars
  BY <1>1, <1>2 DEF vars, PushInv, TypeOK, OrderInv
<1>3. CASE Propagate
  BY <1>1, <1>3, PropagateKeeps, PropagateOrdered
<1>4. ASSUME NEW kind \in Kinds, Admission(kind) PROVE PushInv' /\ (Ordered \/ UNCHANGED vars)
  <2>1. CASE ClusterMoves
    <3>1. Ordered
      BY <2>1, ZenonT(60) DEF ClusterMoves, Ordered
    <3> QED BY <2>1, <3>1, ClusterKeeps
  <2> QED BY <1>2, <1>4, <2>1, AdmissionMoves
<1> QED BY <1>1, <1>2, <1>3, <1>4 DEF AdmissionNext, Kinds

(* What a step adds to the cluster is a reviewed request whose object is   *)
(* still the one the review compared it with.                              *)
LEMMA StoredIsReviewed ==
  ASSUME PushInv, WriteInv, AdmissionNext, NEW c \in Client, NEW req \in Storing(c)
  PROVE  /\ req \in Request /\ Reviewed(req) /\ req.seen # {}
         /\ Of(stored[req.kind].items, req.cr) = req.old
<1>1. /\ req \in writes[c] /\ writes'[c] = {}
      /\ req.cr \in stored'[req.kind].items /\ req.cr \notin stored[req.kind].items
  BY DEF Storing
<1>2. req \in Request /\ Reviewed(req) /\ writes[c] = {req} /\ req.kind \in Kinds
  BY <1>1 DEF WriteInv, Request
<1>3. ~UNCHANGED clusterVars
  BY <1>1 DEF clusterVars, stored
<1>4. ~Propagate
  BY <1>3 DEF Propagate, Push, WatchPolicies, WatchTenants, Reconcile, Start, Lock, ListPolicies,
              ListTenants, PolicyHandler, PoliciesNotFound, PushFails, PushTimesOut, LateHandler,
              LateDrop, ServerRestart, LeaderChange
<1>5. PICK kind \in Kinds : Admission(kind)
  BY <1>4 DEF AdmissionNext, Kinds
<1>6. ASSUME NEW cr, Delete(kind, cr) PROVE FALSE
  BY <1>1, <1>2, <1>6 DEF Delete, Kinds, stored
<1>7. ASSUME NEW d \in Client, Validate(d) \/ \E cr \in Candidates(kind) : Submit(d, kind, cr) PROVE FALSE
  BY <1>3, <1>7 DEF Validate, Submit, vars, clusterVars
<1>8. PICK d \in Client : Store(d)
  BY <1>5, <1>6, <1>7, ZenonT(60) DEF Admission
<1>9. d = c
  BY <1>1, <1>8, ZenonT(60) DEF Store, WriteInv
<1>10. /\ req.seen # {}
       /\ Of(stored[req.kind].items, req.cr) # req.old => UNCHANGED clusterVars
  BY <1>2, <1>8, <1>9 DEF Store
<1> QED BY <1>2, <1>3, <1>10

(* The two validators: two policies share a namespace, or two tenants of   *)
(* one namespace a tenantID, only if they did before or one was stored     *)
(* between the review of the other and its storage; and what is stored     *)
(* breaks no rule that the object it replaces did not break.  This holds   *)
(* for any number of clients, whatever an earlier release left behind,     *)
(* while the pushers run and processes restart.                            *)
THEOREM AdmissionTheorem == AdmissionSpec => CollisionOnlyByRace /\ NoNewRuleBroken
<1> DEFINE NoClash == \A c \in Client : \A req \in Storing(c) : \A o \in siblings(req.cr, stored[req.kind].items) :
                        \/ \E p \in req.old : p.key = req.cr.key
                        \/ \A items \in req.seen : o \notin items
           NoNewError == \A c \in Client : \A req \in Storing(c) :
                           specErrors(req.kind, req.cr) \subseteq
                             UNION {specErrors(req.kind, p) : p \in Of(stored[req.kind].items, req.cr)}
           allVars == <<vars, admissionVars>>
<1>1. AdmissionInit => PushInv /\ WriteInv
  BY InitKeeps DEF AdmissionInit, WriteInv
<1>2. PushInv /\ WriteInv /\ [AdmissionNext]_allVars => (PushInv /\ WriteInv)'
  BY AdmissionStep
<1>3. PushInv /\ WriteInv /\ AdmissionNext => NoClash
  <2> SUFFICES ASSUME PushInv, WriteInv, AdmissionNext, NEW c \in Client, NEW req \in Storing(c),
                      NEW o \in siblings(req.cr, stored[req.kind].items),
                      \A p \in req.old : p.key # req.cr.key,
                      NEW items \in req.seen
               PROVE  o \notin items
    OBVIOUS
  <2>1. req \in Request /\ Reviewed(req)
    BY StoredIsReviewed
  <2>2. o \in items => o \in siblings(req.cr, items)
    BY ZenonT(60) DEF siblings
  <2>3. CASE req.old = {}
    BY <2>1, <2>2, <2>3, ZenonT(60) DEF Reviewed, ValidateCreate
  <2>4. CASE req.old # {}
    <3>1. PICK p \in req.old : p.key # req.cr.key /\ Identity(p) = Identity(req.cr)
      BY <2>1, <2>4 DEF Reviewed
    <3>2. req.kind = "tenant"
      <4>1. ASSUME req.kind = "policy" PROVE FALSE
        <5>1. p \in PolicyCR /\ req.cr \in PolicyCR
          BY <2>1, <3>1, <4>1 DEF Reviewed, Candidates
        <5> QED BY <3>1, <5>1, ResourceAssumption, ZenonT(60) DEF Identity
      <4> QED BY <2>1, <4>1, ZenonT(60) DEF Request, Kinds
    <3> QED BY <2>1, <2>2, <3>1, <3>2, ZenonT(60) DEF Reviewed, ValidateUpdate
  <2> QED BY <2>3, <2>4
<1>4. PushInv /\ WriteInv /\ AdmissionNext => NoNewError
  <2> SUFFICES ASSUME PushInv, WriteInv, AdmissionNext, NEW c \in Client, NEW req \in Storing(c)
               PROVE  specErrors(req.kind, req.cr) \subseteq
                        UNION {specErrors(req.kind, p) : p \in Of(stored[req.kind].items, req.cr)}
    OBVIOUS
  <2>1. Reviewed(req) /\ Of(stored[req.kind].items, req.cr) = req.old
    BY StoredIsReviewed
  <2>2. PICK items \in req.seen : TRUE
    BY StoredIsReviewed
  <2>3. CASE req.old = {}
    BY <2>1, <2>2, <2>3 DEF Reviewed, ValidateCreate
  <2>4. CASE req.old # {}
    BY <2>1, <2>2, <2>4 DEF Reviewed, ValidateUpdate
  <2> QED BY <2>3, <2>4
<1>5. AdmissionSpec => [][NoClash]_allVars /\ [][NoNewError]_allVars
  BY <1>1, <1>2, <1>3, <1>4, PTL DEF AdmissionSpec
<1> QED BY <1>5 DEF CollisionOnlyByRace, NoNewRuleBroken

(* The order of pushes does not depend on who writes to the cluster: it    *)
(* holds as well while the webhooks admit what is written.                 *)
THEOREM AdmittedOrderTheorem == AdmissionSpec => AwaitedPushOrdered
<1>1. AdmissionInit => PushInv /\ WriteInv
  BY InitKeeps DEF AdmissionInit, WriteInv
<1>2. PushInv /\ WriteInv /\ [AdmissionNext]_<<vars, admissionVars>> => (PushInv /\ WriteInv)' /\ [Ordered]_vars
  BY AdmissionStep
<1>3. AdmissionSpec => [][Ordered]_vars
  BY <1>1, <1>2, PTL DEF AdmissionSpec
<1> QED BY <1>3 DEF AwaitedPushOrdered, Ordered
=============================================================================
