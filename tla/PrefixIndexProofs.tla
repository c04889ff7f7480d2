------------------------- MODULE PrefixIndexProofs -------------------------
(* Proofs about PrefixIndex for every set of tenants, models, schemes,     *)
(* adapters, hashes, replicas and workers, every cap and every policy.     *)
EXTENDS PrefixIndex, FiniteSetTheorems, TLAPS

LEMMA PairParts == \A a, b : <<a, b>>[1] = a /\ <<a, b>>[2] = b
OBVIOUS

LEMMA NotAbove == \A n, q \in Nat : ~(q >= 0 /\ n > q) => n <= q
OBVIOUS

LEMMA AtMostThrough == \A a, b, c \in Nat : a <= b /\ b <= c => a <= c
OBVIOUS

(* One upsertReplicaLocked keeps the maps typed and the counters exact.    *)
LEMMA UpsertKeepsData ==
  ASSUME DataTypeOK, DataConsistent, NEW k \in PrefixKey, NEW r \in Replica, NEW ts \in Time,
         upsertReplicaLocked(k, r, ts)
  PROVE  DataTypeOK' /\ DataConsistent'
<1> DEFINE x == <<k, r>>
           D == DOMAIN entries
<1>0. /\ x \in Ref /\ x[1] = k /\ x[2] = r /\ DOMAIN entries' = D \cup {x}
      /\ k.tenant \in Tenant /\ modelKey(k) \in Tenant \X Model
      /\ <<scopeKey(k), r>> \in Scope \X Replica
  BY DEF upsertReplicaLocked, Ref, PrefixKey, modelKey, scopeKey, Scope
<1>1. CASE x \in D
  <2>1. k \in prefixes
    BY <1>0, <1>1 DEF DataConsistent
  <2>2. D' = D /\ prefixes' = prefixes
    BY ZenonT(60), <1>0, <1>1, <2>1 DEF upsertReplicaLocked
  <2>3. UNCHANGED <<prefixesByTenant, prefixesByTenantModel, servingByScope, totalEntries, reservedEntries>>
    BY <1>0, <1>1, <2>1 DEF upsertReplicaLocked, DataTypeOK
  <2>4. entries' \in [D' -> [lastSeen : Time, accessCount : Nat]]
    BY <1>0, <1>1 DEF upsertReplicaLocked, DataTypeOK
  <2>5. DataTypeOK'
    BY <2>2, <2>3, <2>4 DEF DataTypeOK
  <2>6. DataConsistent'
    BY <2>2, <2>3 DEF DataConsistent, ReservedRefs, PrefixesOf, PrefixesOfModel, ServedBy
  <2> QED BY <2>5, <2>6
<1>2. CASE x \notin D
  <2>1. entries' \in [D \cup {x} -> [lastSeen : Time, accessCount : Nat]]
    BY <1>0, <1>2 DEF upsertReplicaLocked, DataTypeOK
  <2>2. IsFiniteSet(D') /\ Cardinality(D') = Cardinality(D) + 1
    <3>1. IsFiniteSet(D)
      BY DEF DataTypeOK
    <3>2. IsFiniteSet(D \cup {x}) /\ Cardinality(D \cup {x}) = Cardinality(D) + 1
      BY <3>1, <1>2, FS_AddElement, ZenonT(60)
    <3> QED BY <3>2, <1>0
  <2>3. totalEntries' = totalEntries + 1
    BY <1>0, <1>2 DEF upsertReplicaLocked
  <2>4. prefixes' = {y[1] : y \in D'}
    BY <1>0 DEF upsertReplicaLocked, DataConsistent
  <2>5. IsFiniteSet(prefixes') /\ prefixes' \subseteq PrefixKey
    BY FS_AddElement, ZenonT(60) DEF upsertReplicaLocked, DataTypeOK
  <2>6. reservedEntries' = Cardinality(ReservedRefs') /\ reservedEntries' \in Nat
    <3>1. IsFiniteSet(ReservedRefs)
      BY FS_Subset DEF ReservedRefs, DataTypeOK
    <3>2. CASE isReservedTenant(k.tenant)
      <4>1. ReservedRefs' = ReservedRefs \cup {x} /\ x \notin ReservedRefs
        BY <1>0, <1>2, <3>2 DEF ReservedRefs, isReservedTenant
      <4>2. reservedEntries' = reservedEntries + 1
        BY <1>2, <3>2 DEF upsertReplicaLocked
      <4>3. Cardinality(ReservedRefs') = Cardinality(ReservedRefs) + 1
        BY ZenonT(60), <4>1, <3>1, FS_AddElement
      <4>4. reservedEntries = Cardinality(ReservedRefs) /\ reservedEntries \in Nat
        BY DEF DataConsistent, DataTypeOK
      <4> QED BY <4>2, <4>3, <4>4
    <3>3. CASE ~isReservedTenant(k.tenant)
      <4>1. ReservedRefs' = ReservedRefs
        BY <1>0, <1>2, <3>3 DEF ReservedRefs, isReservedTenant
      <4>2. reservedEntries' = reservedEntries
        BY <1>2, <3>3 DEF upsertReplicaLocked
      <4> QED BY <4>1, <4>2 DEF DataConsistent, DataTypeOK
    <3> QED BY <3>2, <3>3
  <2>7. /\ prefixesByTenant' \in [Tenant -> Nat]
        /\ prefixesByTenantModel' \in [Tenant \X Model -> Nat]
        /\ servingByScope' \in [Scope \X Replica -> Nat]
    BY <1>0 DEF upsertReplicaLocked, DataTypeOK
  <2>8. ASSUME NEW t \in Tenant PROVE prefixesByTenant'[t] = Cardinality(PrefixesOf(t)')
    <3>1. IsFiniteSet(PrefixesOf(t))
      BY FS_Subset DEF PrefixesOf, DataTypeOK
    <3>2. CASE k \notin prefixes /\ k.tenant = t
      <4>1. PrefixesOf(t)' = PrefixesOf(t) \cup {k} /\ k \notin PrefixesOf(t)
        BY <3>2 DEF PrefixesOf, upsertReplicaLocked
      <4>2. prefixesByTenant'[t] = prefixesByTenant[t] + 1
        BY <3>2 DEF upsertReplicaLocked, DataTypeOK
      <4>3. Cardinality(PrefixesOf(t) \cup {k}) = Cardinality(PrefixesOf(t)) + 1
        BY <4>1, <3>1, FS_AddElement
      <4>4. prefixesByTenant[t] = Cardinality(PrefixesOf(t))
        BY DEF DataConsistent
      <4> QED BY ZenonT(60), <4>1, <4>2, <4>3, <4>4
    <3>3. CASE ~(k \notin prefixes /\ k.tenant = t)
      <4>1. PrefixesOf(t)' = PrefixesOf(t)
        BY <3>3 DEF PrefixesOf, upsertReplicaLocked
      <4>2. prefixesByTenant'[t] = prefixesByTenant[t]
        BY <3>3 DEF upsertReplicaLocked, DataTypeOK
      <4> QED BY <4>1, <4>2 DEF DataConsistent
    <3> QED BY <3>2, <3>3
  <2>9. ASSUME NEW tm \in Tenant \X Model
        PROVE prefixesByTenantModel'[tm] = Cardinality(PrefixesOfModel(tm)')
    <3>1. IsFiniteSet(PrefixesOfModel(tm))
      BY FS_Subset DEF PrefixesOfModel, DataTypeOK
    <3>2. CASE k \notin prefixes /\ modelKey(k) = tm
      <4>1. PrefixesOfModel(tm)' = PrefixesOfModel(tm) \cup {k} /\ k \notin PrefixesOfModel(tm)
        BY <3>2 DEF PrefixesOfModel, upsertReplicaLocked
      <4>2. prefixesByTenantModel'[tm] = prefixesByTenantModel[tm] + 1
        BY <3>2 DEF upsertReplicaLocked, DataTypeOK
      <4>3. Cardinality(PrefixesOfModel(tm) \cup {k}) = Cardinality(PrefixesOfModel(tm)) + 1
        BY <4>1, <3>1, FS_AddElement
      <4>4. prefixesByTenantModel[tm] = Cardinality(PrefixesOfModel(tm))
        BY DEF DataConsistent
      <4> QED BY ZenonT(60), <4>1, <4>2, <4>3, <4>4
    <3>3. CASE ~(k \notin prefixes /\ modelKey(k) = tm)
      <4>1. PrefixesOfModel(tm)' = PrefixesOfModel(tm)
        BY <3>3 DEF PrefixesOfModel, upsertReplicaLocked
      <4>2. prefixesByTenantModel'[tm] = prefixesByTenantModel[tm]
        BY <3>3 DEF upsertReplicaLocked, DataTypeOK
      <4> QED BY <4>1, <4>2 DEF DataConsistent
    <3> QED BY <3>2, <3>3
  <2>10. ASSUME NEW sr \in Scope \X Replica
         PROVE servingByScope'[sr] = Cardinality(ServedBy(sr)')
    <3>1. IsFiniteSet(ServedBy(sr))
      BY FS_Subset DEF ServedBy, DataTypeOK
    <3>2. CASE <<scopeKey(k), r>> = sr
      <4>1. ServedBy(sr)' = ServedBy(sr) \cup {x} /\ x \notin ServedBy(sr)
        BY <1>0, <1>2, <3>2 DEF ServedBy
      <4>2. servingByScope'[sr] = servingByScope[sr] + 1
        BY ZenonT(60), <1>2, <3>2 DEF upsertReplicaLocked, DataTypeOK
      <4>3. Cardinality(ServedBy(sr) \cup {x}) = Cardinality(ServedBy(sr)) + 1
        BY <4>1, <3>1, FS_AddElement
      <4>4. servingByScope[sr] = Cardinality(ServedBy(sr))
        BY DEF DataConsistent
      <4> QED BY ZenonT(60), <4>1, <4>2, <4>3, <4>4
    <3>3. CASE <<scopeKey(k), r>> # sr
      <4>1. ServedBy(sr)' = ServedBy(sr)
        BY <1>0, <1>2, <3>3 DEF ServedBy
      <4>2. servingByScope'[sr] = servingByScope[sr]
        BY <1>2, <3>3 DEF upsertReplicaLocked, DataTypeOK
      <4> QED BY <4>1, <4>2 DEF DataConsistent
    <3> QED BY <3>2, <3>3
  <2>11. DataTypeOK'
    <3>1. D' \subseteq Ref /\ entries' \in [D' -> [lastSeen : Time, accessCount : Nat]]
      BY ZenonT(60), <1>0, <2>1 DEF DataTypeOK
    <3>2. totalEntries' \in Nat
      BY <2>3 DEF DataTypeOK
    <3> QED BY <3>1, <3>2, <2>2, <2>5, <2>6, <2>7 DEF DataTypeOK
  <2>12. DataConsistent'
    BY <2>2, <2>3, <2>4, <2>6, <2>8, <2>9, <2>10 DEF DataConsistent
  <2> QED BY <2>11, <2>12
<1> QED BY <1>1, <1>2

(* Removing a member of a finite set lowers its cardinality by one, and    *)
(* the clamped decrement of the code computes exactly that.                *)
LEMMA RemoveOne ==
  ASSUME NEW S, IsFiniteSet(S), NEW x \in S
  PROVE  /\ IsFiniteSet(S \ {x}) /\ Cardinality(S) \in Nat /\ Cardinality(S \ {x}) \in Nat
         /\ Cardinality(S \ {x}) = Cardinality(S) - 1
         /\ pred(Cardinality(S)) = Cardinality(S \ {x})
<1>1. IsFiniteSet(S \ {x}) /\ Cardinality(S \ {x}) = Cardinality(S) - 1
  BY FS_RemoveElement
<1>2. Cardinality(S) \in Nat /\ Cardinality(S \ {x}) \in Nat
  BY <1>1, FS_CardinalityType
<1> QED BY <1>1, <1>2 DEF pred

(* One removeReplicaLocked keeps the maps typed and the counters exact.    *)
LEMMA RemoveKeepsData ==
  ASSUME DataTypeOK, DataConsistent, NEW x \in DOMAIN entries, removeReplicaLocked(x)
  PROVE  DataTypeOK' /\ DataConsistent'
<1> DEFINE k == x[1]
           D == DOMAIN entries
           last == Holders(k) = {x}
<1>0. /\ x \in Ref /\ k \in PrefixKey /\ x[2] \in Replica /\ x = <<x[1], x[2]>>
      /\ k.tenant \in Tenant /\ modelKey(k) \in Tenant \X Model
      /\ <<scopeKey(k), x[2]>> \in Scope \X Replica
      /\ k \in prefixes
  BY DEF Ref, PrefixKey, modelKey, scopeKey, Scope, DataTypeOK, DataConsistent
<1>1. /\ D' = D \ {x}
      /\ entries' = [y \in D \ {x} |-> entries[y]]
      /\ totalEntries' = totalEntries - 1
      /\ prefixes' = IF last THEN prefixes \ {k} ELSE prefixes
  BY DEF removeReplicaLocked
<1>2. IsFiniteSet(D)
  BY DEF DataTypeOK
<1>3. D' \subseteq Ref /\ IsFiniteSet(D') /\ entries' \in [D' -> [lastSeen : Time, accessCount : Nat]]
  BY <1>1, <1>2, RemoveOne DEF DataTypeOK
<1>4. totalEntries' = Cardinality(D') /\ totalEntries' \in Nat
  <2>1. totalEntries = Cardinality(D)
    BY DEF DataConsistent
  <2>2. Cardinality(D \ {x}) = Cardinality(D) - 1 /\ Cardinality(D \ {x}) \in Nat
    BY <1>2, RemoveOne
  <2> QED BY <1>1, <2>1, <2>2
<1>5. reservedEntries' = Cardinality(ReservedRefs') /\ reservedEntries' \in Nat
  <2>1. IsFiniteSet(ReservedRefs)
    BY <1>2, FS_Subset DEF ReservedRefs
  <2>2. reservedEntries = Cardinality(ReservedRefs) /\ reservedEntries \in Nat
    BY DEF DataConsistent, DataTypeOK
  <2>3. CASE isReservedTenant(k.tenant)
    <3>1. ReservedRefs' = ReservedRefs \ {x} /\ x \in ReservedRefs
      BY <1>1, <2>3, ZenonT(60) DEF ReservedRefs, isReservedTenant
    <3>2. reservedEntries' = reservedEntries - 1
      BY <2>3 DEF removeReplicaLocked
    <3>3. Cardinality(ReservedRefs \ {x}) = Cardinality(ReservedRefs) - 1
          /\ Cardinality(ReservedRefs \ {x}) \in Nat
      BY <3>1, <2>1, RemoveOne
    <3> QED BY <2>2, <3>1, <3>2, <3>3
  <2>4. CASE ~isReservedTenant(k.tenant)
    <3>1. ReservedRefs' = ReservedRefs
      BY <1>1, <2>4 DEF ReservedRefs, isReservedTenant
    <3>2. reservedEntries' = reservedEntries
      BY <2>4 DEF removeReplicaLocked
    <3> QED BY <2>2, <3>1, <3>2
  <2> QED BY <2>3, <2>4
<1>6. prefixes' = {y[1] : y \in D'}
  <2>1. CASE last
    BY <1>1, <2>1 DEF DataConsistent, Holders
  <2>2. CASE ~last
    <3>1. PICK z \in D : z[1] = k /\ z # x
      BY <2>2, <1>0 DEF Holders
    <3> QED BY <1>1, <2>2, <3>1 DEF DataConsistent
  <2> QED BY <2>1, <2>2
<1>7. prefixes' \subseteq PrefixKey /\ IsFiniteSet(prefixes')
  BY <1>1, FS_Subset DEF DataTypeOK
<1>8. /\ prefixesByTenant' \in [Tenant -> Nat]
      /\ prefixesByTenantModel' \in [Tenant \X Model -> Nat]
      /\ servingByScope' \in [Scope \X Replica -> Nat]
  <2>1. \A n \in Nat : pred(n) \in Nat
    BY DEF pred
  <2>2. prefixesByTenant' \in [Tenant -> Nat]
    BY <1>0, <2>1 DEF removeReplicaLocked, DataTypeOK
  <2>3. prefixesByTenantModel' \in [Tenant \X Model -> Nat]
    BY <1>0, <2>1 DEF removeReplicaLocked, DataTypeOK
  <2>4. servingByScope' \in [Scope \X Replica -> Nat]
    <3>1. servingByScope' = [servingByScope EXCEPT ![<<scopeKey(k), x[2]>>] = pred(@)]
      BY DEF removeReplicaLocked
    <3>2. servingByScope \in [Scope \X Replica -> Nat]
      BY DEF DataTypeOK
    <3> QED BY ZenonT(60), <2>1, <3>1, <3>2
  <2> QED BY <2>2, <2>3, <2>4
<1>9. ASSUME NEW t \in Tenant PROVE prefixesByTenant'[t] = Cardinality(PrefixesOf(t)')
  <2>1. IsFiniteSet(PrefixesOf(t)) /\ prefixesByTenant[t] = Cardinality(PrefixesOf(t))
    BY FS_Subset DEF PrefixesOf, DataTypeOK, DataConsistent
  <2>2. CASE last /\ k.tenant = t
    <3>1. PrefixesOf(t)' = PrefixesOf(t) \ {k} /\ k \in PrefixesOf(t)
      BY <1>0, <1>1, <2>2, ZenonT(60) DEF PrefixesOf
    <3>2. prefixesByTenant'[t] = pred(prefixesByTenant[t])
      BY <2>2 DEF removeReplicaLocked, DataTypeOK
    <3>3. pred(Cardinality(PrefixesOf(t))) = Cardinality(PrefixesOf(t) \ {k})
      BY <2>1, <3>1, RemoveOne
    <3> QED BY <2>1, <3>1, <3>2, <3>3, ZenonT(60)
  <2>3. CASE ~(last /\ k.tenant = t)
    <3>1. PrefixesOf(t)' = PrefixesOf(t)
      BY <1>1, <2>3 DEF PrefixesOf
    <3>2. prefixesByTenant'[t] = prefixesByTenant[t]
      BY <2>3, ZenonT(60) DEF removeReplicaLocked, DataTypeOK
    <3> QED BY <2>1, <3>1, <3>2, ZenonT(60)
  <2> QED BY <2>2, <2>3
<1>10. ASSUME NEW tm \in Tenant \X Model
       PROVE prefixesByTenantModel'[tm] = Cardinality(PrefixesOfModel(tm)')
  <2>1. IsFiniteSet(PrefixesOfModel(tm)) /\ prefixesByTenantModel[tm] = Cardinality(PrefixesOfModel(tm))
    BY FS_Subset DEF PrefixesOfModel, DataTypeOK, DataConsistent
  <2>2. CASE last /\ modelKey(k) = tm
    <3>1. PrefixesOfModel(tm)' = PrefixesOfModel(tm) \ {k} /\ k \in PrefixesOfModel(tm)
      BY <1>0, <1>1, <2>2, ZenonT(60) DEF PrefixesOfModel
    <3>2. prefixesByTenantModel'[tm] = pred(prefixesByTenantModel[tm])
      BY <2>2, ZenonT(60) DEF removeReplicaLocked, DataTypeOK
    <3>3. pred(Cardinality(PrefixesOfModel(tm))) = Cardinality(PrefixesOfModel(tm) \ {k})
      BY <2>1, <3>1, RemoveOne
    <3> QED BY <2>1, <3>1, <3>2, <3>3, ZenonT(60)
  <2>3. CASE ~(last /\ modelKey(k) = tm)
    <3>1. PrefixesOfModel(tm)' = PrefixesOfModel(tm)
      BY <1>1, <2>3 DEF PrefixesOfModel
    <3>2. prefixesByTenantModel'[tm] = prefixesByTenantModel[tm]
      BY <2>3 DEF removeReplicaLocked, DataTypeOK
    <3> QED BY <2>1, <3>1, <3>2
  <2> QED BY <2>2, <2>3
<1>11. ASSUME NEW sr \in Scope \X Replica
       PROVE servingByScope'[sr] = Cardinality(ServedBy(sr)')
  <2>1. IsFiniteSet(ServedBy(sr)) /\ servingByScope[sr] = Cardinality(ServedBy(sr))
    BY <1>2, FS_Subset, ZenonT(60) DEF ServedBy, DataConsistent
  <2>2. CASE <<scopeKey(k), x[2]>> = sr
    <3>1. ServedBy(sr)' = ServedBy(sr) \ {x} /\ x \in ServedBy(sr)
      BY <1>0, <1>1, <2>2 DEF ServedBy
    <3>2. servingByScope'[sr] = pred(servingByScope[sr])
      BY ZenonT(60), <2>2 DEF removeReplicaLocked, DataTypeOK
    <3>3. pred(Cardinality(ServedBy(sr))) = Cardinality(ServedBy(sr) \ {x})
      BY <2>1, <3>1, RemoveOne
    <3> QED BY <2>1, <3>1, <3>2, <3>3, ZenonT(60)
  <2>3. CASE <<scopeKey(k), x[2]>> # sr
    <3>1. ServedBy(sr)' = ServedBy(sr)
      BY <1>1, <2>3 DEF ServedBy
    <3>2. servingByScope'[sr] = servingByScope[sr]
      BY <2>3 DEF removeReplicaLocked, DataTypeOK
    <3> QED BY <2>1, <3>1, <3>2
  <2> QED BY <2>2, <2>3, ZenonT(60)
<1>12. DataTypeOK'
  BY <1>3, <1>4, <1>5, <1>7, <1>8, ZenonT(60) DEF DataTypeOK
<1>13. DataConsistent'
  BY <1>4, <1>5, <1>6, <1>9, <1>10, <1>11 DEF DataConsistent
<1> QED BY <1>12, <1>13

-----------------------------------------------------------------------------
(* Frame lemmas: steps that leave a group of variables alone.              *)

(* A step that leaves the prefix map and its counters alone. *)
LEMMA DataFrame ==
  ASSUME DataTypeOK, DataConsistent, UNCHANGED dataVars
  PROVE  DataTypeOK' /\ DataConsistent'
BY ZenonT(60) DEF dataVars, DataTypeOK, DataConsistent, ReservedRefs, PrefixesOf, PrefixesOfModel, ServedBy

(* A step that leaves the stats and their scope alone. *)
LEMMA StatsFrame ==
  ASSUME StatsTypeOK, StatsConsistent, UNCHANGED statsVars
  PROVE  StatsTypeOK' /\ StatsConsistent'
BY DEF statsVars, StatsTypeOK, StatsConsistent

(* The keys an update expands to are prefix keys of its own tenant.        *)
LEMMA KeysOfUpdate ==
  ASSUME NEW u \in Updates
  PROVE  keysOf(u) \subseteq PrefixKey /\ \A k \in keysOf(u) : k.tenant = u.tenant
<1>1. u \in Update
  BY RequestAssumption
<1>2. SUFFICES ASSUME NEW k \in keysOf(u)
               PROVE  k \in PrefixKey /\ k.tenant = u.tenant
  BY ZenonT(60)
<1>3. u.hashScheme \in HashScheme
  BY <1>1, ZenonT(60) DEF keysOf, Update
<1>4. PICK p \in u.prefixes : \E h \in expand(p) :
        k = [tenant |-> u.tenant, model |-> u.model, hashScheme |-> u.hashScheme,
             adapter |-> partition(u, p), prefixHash |-> h]
  BY DEF keysOf
<1>5. p \in PrefixRef
  BY <1>1 DEF Update
<1>6. expand(p) \subseteq PrefixHash /\ partition(u, p) \in Adapter
  BY ZenonT(60), <1>1, <1>5 DEF expand, partition, PrefixRef, Update
<1> QED BY <1>1, <1>3, <1>4, <1>6 DEF PrefixKey, Update

(* Deleting stats entries with their scope entries keeps the two in step.  *)
LEMMA RemoveStatsKeeps ==
  ASSUME StatsTypeOK, StatsConsistent, NEW gone \in SUBSET StatsKey, removeStats(gone)
  PROVE  StatsTypeOK' /\ StatsConsistent'
<1>1. StatsTypeOK'
  BY ZenonT(60) DEF StatsTypeOK, removeStats
<1>2. ASSUME NEW tm \in Tenant \X Model
      PROVE  replicasByModel'[tm] = {r \in Replica : <<tm[1], tm[2], r>> \in DOMAIN stats'}
  <2>1. replicasByModel'[tm] = replicasByModel[tm] \ {s[3] : s \in {s \in gone : <<s[1], s[2]>> = tm}}
    BY DEF removeStats
  <2>2. DOMAIN stats' = DOMAIN stats \ gone
    BY DEF removeStats
  <2>3. ASSUME NEW r \in Replica
        PROVE  (\E s \in gone : <<s[1], s[2]>> = tm /\ s[3] = r) <=> <<tm[1], tm[2], r>> \in gone
    BY DEF StatsKey
  <2>4. replicasByModel[tm] = {r \in Replica : <<tm[1], tm[2], r>> \in DOMAIN stats}
    BY DEF StatsConsistent
  <2> QED BY <2>1, <2>2, <2>3, <2>4
<1> QED BY <1>1, <1>2 DEF StatsConsistent

-----------------------------------------------------------------------------
(* The type invariant and the bookkeeping invariant, together inductive:   *)
(* the types of the counters need their exactness (a decrement stays       *)
(* natural because the entry it accounts for was counted).                 *)

Books == TypeOK /\ IndexConsistent

(* The empty index New returns satisfies both invariants. *)
LEMMA BooksInit == Init => Books
<1> SUFFICES ASSUME Init PROVE Books
  OBVIOUS
<1>1. IsFiniteSet({}) /\ Cardinality({}) = 0
  BY FS_EmptySet
<1>2. DOMAIN entries = {} /\ DOMAIN stats = {}
  BY ZenonT(60) DEF Init, Nothing
<1>3. DataTypeOK /\ StatsTypeOK
  BY <1>1, <1>2, ZenonT(60) DEF Init, Nothing, DataTypeOK, StatsTypeOK
<1>4. ControlTypeOK /\ LocksOK
  BY WorkerAssumption DEF Init, ControlTypeOK, LocksOK, Label, Critical, Reporting, Time, ZeroTime
<1>5. DataConsistent
  <2>1. ReservedRefs = {} /\ \A t : PrefixesOf(t) = {} /\ PrefixesOfModel(t) = {} /\ ServedBy(t) = {}
    BY <1>2, ZenonT(60) DEF ReservedRefs, PrefixesOf, PrefixesOfModel, ServedBy, Init
  <2> QED BY ZenonT(60), <1>1, <1>2, <2>1 DEF Init, DataConsistent
<1>6. StatsConsistent
  BY <1>2 DEF Init, StatsConsistent
<1> QED BY <1>3, <1>4, <1>5, <1>6 DEF Books, TypeOK, IndexConsistent

(* Accepting an update only fills the worker's locals. *)
LEMMA Books_IngestBegin ==
  ASSUME Books, NEW w \in Worker, IngestBegin(w)
  PROVE  Books'
<1> USE DEF Books, TypeOK, IndexConsistent
<1>1. DataTypeOK' /\ DataConsistent'
  BY DataFrame DEF IngestBegin
<1>2. StatsTypeOK' /\ StatsConsistent'
  BY ZenonT(60), StatsFrame DEF IngestBegin
<1>3. ControlTypeOK'
  <2>1. PICK u \in Updates : /\ request' = [request EXCEPT ![w] = u]
                             /\ now' = [now EXCEPT ![w] = orNow(u.timestamp)]
                             /\ quota' = [quota EXCEPT ![w] = tenantQuotaFor(u.tenant)]
    BY ZenonT(60) DEF IngestBegin
  <2>2. /\ pc' = [pc EXCEPT ![w] = "ingest"]
        /\ UNCHANGED <<gauge, counts, reportedModels, policy, clock, todo, doomed>>
    BY ZenonT(60) DEF IngestBegin, goto, gaugeVars, envVars
  <2>3. orNow(u.timestamp) \in Time /\ tenantQuotaFor(u.tenant) \in Nat \cup {NoQuota}
    <3>1. u \in Update /\ policy \in Policy /\ clock \in Time
      BY RequestAssumption, ZenonT(60) DEF ControlTypeOK
    <3>2. u.timestamp \in Time /\ u.tenant \in Tenant /\ policy.quota \in [Tenant -> Nat \cup {NoQuota}]
      BY <3>1, ZenonT(60) DEF Update, Policy
    <3> QED BY <3>1, <3>2, ZenonT(60) DEF orNow, tenantQuotaFor
  <2>4. request' \in [Worker -> Updates \cup Events \cup {NoRequest}]
    BY <2>1, ZenonT(60) DEF ControlTypeOK
  <2>5. quota' \in [Worker -> Nat \cup {NoQuota}] /\ now' \in [Worker -> Time]
    BY <2>1, <2>3, ZenonT(60) DEF ControlTypeOK
  <2>6. pc' \in [Worker -> Label]
    BY <2>2, ZenonT(60) DEF ControlTypeOK, Label
  <2>7. ASSUME NEW v \in Worker
        PROVE  /\ pc'[v] \in {"ingest", "upsert", "quota", "cap"} => request'[v] \in Updates
               /\ pc'[v] = "event" => request'[v] \in Events
    BY <2>1, <2>2, ZenonT(60) DEF ControlTypeOK
  <2> QED BY <2>2, <2>4, <2>5, <2>6, <2>7, ZenonT(60) DEF ControlTypeOK
<1>4. LocksOK'
  BY WorkerAssumption DEF IngestBegin, ControlTypeOK, LocksOK, Critical, Reporting, Label, goto, gaugeVars
<1> QED BY <1>1, <1>2, <1>3, <1>4

(* Accepting an event only fills the worker's locals. *)
LEMMA Books_EventBegin ==
  ASSUME Books, NEW w \in Worker, EventBegin(w)
  PROVE  Books'
<1> USE DEF Books, TypeOK, IndexConsistent
<1>1. DataTypeOK' /\ DataConsistent'
  BY DataFrame DEF EventBegin
<1>2. StatsTypeOK' /\ StatsConsistent'
  BY ZenonT(60), StatsFrame DEF EventBegin
<1>3. ControlTypeOK'
  <2>1. PICK ev \in Events : /\ request' = [request EXCEPT ![w] = ev]
                             /\ now' = [now EXCEPT ![w] = orNow(ev.timestamp)]
    BY ZenonT(60) DEF EventBegin
  <2>2. /\ pc' = [pc EXCEPT ![w] = "event"]
        /\ UNCHANGED <<gauge, counts, reportedModels, policy, clock, quota, todo, doomed>>
    BY ZenonT(60) DEF EventBegin, goto, gaugeVars, envVars
  <2>3. orNow(ev.timestamp) \in Time
    BY RequestAssumption, ZenonT(60) DEF ControlTypeOK, Event, orNow
  <2>4. /\ request' \in [Worker -> Updates \cup Events \cup {NoRequest}]
        /\ now' \in [Worker -> Time]
    BY <2>1, <2>3, ZenonT(60) DEF ControlTypeOK
  <2>6. pc' \in [Worker -> Label]
    BY <2>2, ZenonT(60) DEF ControlTypeOK, Label
  <2>7. ASSUME NEW v \in Worker
        PROVE  /\ pc'[v] \in {"ingest", "upsert", "quota", "cap"} => request'[v] \in Updates
               /\ pc'[v] = "event" => request'[v] \in Events
    BY <2>1, <2>2, ZenonT(60) DEF ControlTypeOK
  <2> QED BY <2>2, <2>4, <2>6, <2>7, ZenonT(60) DEF ControlTypeOK
<1>4. LocksOK'
  BY WorkerAssumption DEF EventBegin, ControlTypeOK, LocksOK, Critical, Reporting, Label, goto, gaugeVars
<1> QED BY <1>1, <1>2, <1>3, <1>4

(* The sweep reads the clock before it locks. *)
LEMMA Books_SweepBegin ==
  ASSUME Books, NEW w \in Worker, SweepBegin(w)
  PROVE  Books'
<1> USE DEF Books, TypeOK, IndexConsistent
<1>1. DataTypeOK' /\ DataConsistent'
  BY DataFrame DEF SweepBegin
<1>2. StatsTypeOK' /\ StatsConsistent'
  BY StatsFrame, ZenonT(60) DEF SweepBegin
<1>3. ControlTypeOK'
  BY ZenonT(60) DEF SweepBegin, ControlTypeOK, Label, Critical, Reporting, goto, gaugeVars, localVars, envVars, Time
<1>4. LocksOK'
  BY WorkerAssumption DEF SweepBegin, ControlTypeOK, LocksOK, Critical, Reporting, Label, goto, gaugeVars
<1> QED BY <1>1, <1>2, <1>3, <1>4

(* Taking mu for an update fixes the keys to upsert. *)
LEMMA Books_IngestLock ==
  ASSUME Books, NEW w \in Worker, IngestLock(w)
  PROVE  Books'
<1> USE DEF Books, TypeOK, IndexConsistent
<1>1. DataTypeOK' /\ DataConsistent'
  BY DataFrame DEF IngestLock
<1>2. StatsTypeOK' /\ StatsConsistent'
  BY ZenonT(60), StatsFrame DEF IngestLock
<1>3. ControlTypeOK'
  BY KeysOfUpdate, ZenonT(60) DEF IngestLock, ControlTypeOK, Label, Critical, Reporting, goto, gaugeVars, localVars, envVars, lock
<1>4. LocksOK'
  BY WorkerAssumption DEF IngestLock, ControlTypeOK, LocksOK, Critical, Reporting, Label, goto, gaugeVars, lock
<1> QED BY <1>1, <1>2, <1>3, <1>4

(* One upsert of an Ingest. *)
LEMMA Books_IngestUpsert ==
  ASSUME Books, NEW w \in Worker, IngestUpsert(w)
  PROVE  Books'
<1> USE DEF Books, TypeOK, IndexConsistent
<1>1. DataTypeOK' /\ DataConsistent'
  <2>1. PICK k \in todo : upsertReplicaLocked(k, request[w].replica, now[w])
    BY DEF IngestUpsert
  <2>2. k \in PrefixKey /\ now[w] \in Time /\ request[w].replica \in Replica
    BY ZenonT(60), RequestAssumption DEF IngestUpsert, ControlTypeOK, Update
  <2> QED BY ZenonT(60), <2>1, <2>2, UpsertKeepsData
<1>2. StatsTypeOK' /\ StatsConsistent'
  BY ZenonT(60), StatsFrame DEF IngestUpsert
<1>3. ControlTypeOK'
  BY DEF IngestUpsert, ControlTypeOK, Label, Critical, Reporting, goto, gaugeVars, localVars, envVars
<1>4. LocksOK'
  BY ZenonT(60), WorkerAssumption DEF IngestUpsert, ControlTypeOK, LocksOK, Critical, Reporting, Label, goto, gaugeVars
<1> QED BY <1>1, <1>2, <1>3, <1>4

(* The stats entry and its (tenant, model) scope are written together. *)
LEMMA Books_IngestStats ==
  ASSUME Books, NEW w \in Worker, IngestStats(w)
  PROVE  Books'
<1> USE DEF Books, TypeOK, IndexConsistent
<1>1. DataTypeOK' /\ DataConsistent'
  BY DataFrame DEF IngestStats
<1>2. StatsTypeOK' /\ StatsConsistent'
  <2> DEFINE u == request[w]
             s == <<u.tenant, u.model, u.replica>>
  <2>1. u \in Update /\ now[w] \in Time
    BY ZenonT(60), RequestAssumption DEF IngestStats, ControlTypeOK
  <2>2. CASE u.stats
    <3>1. stats' = [y \in DOMAIN stats \cup {s} |-> IF y = s THEN now[w] ELSE stats[y]]
      BY ZenonT(60), <2>2 DEF IngestStats
    <3>2. replicasByModel' = [replicasByModel EXCEPT ![<<u.tenant, u.model>>] = @ \cup {u.replica}]
      BY ZenonT(60), <2>2 DEF IngestStats, statsScopeAddLocked
    <3>3. s \in StatsKey /\ <<u.tenant, u.model>> \in Tenant \X Model /\ u.replica \in Replica
      BY <2>1 DEF Update, StatsKey
    <3>4. StatsTypeOK'
      BY <2>1, <3>1, <3>2, <3>3, ZenonT(60) DEF StatsTypeOK
    <3>5. ASSUME NEW tm \in Tenant \X Model
          PROVE  replicasByModel'[tm] = {r \in Replica : <<tm[1], tm[2], r>> \in DOMAIN stats'}
      BY SMTT(60), <3>1, <3>2, <3>3 DEF StatsConsistent, StatsTypeOK
    <3> QED BY ZenonT(60), <3>4, <3>5 DEF StatsConsistent
  <2>3. CASE ~u.stats
    BY <2>3, StatsFrame DEF IngestStats
  <2> QED BY ZenonT(60), <2>2, <2>3
<1>3. ControlTypeOK'
  BY ZenonT(60) DEF IngestStats, ControlTypeOK, Label, Critical, Reporting, goto, gaugeVars, localVars, envVars
<1>4. LocksOK'
  BY ZenonT(60), WorkerAssumption DEF IngestStats, ControlTypeOK, LocksOK, Critical, Reporting, Label, goto, gaugeVars
<1> QED BY <1>1, <1>2, <1>3, <1>4

(* One removal of the quota loop. *)
LEMMA Books_evictOldestForTenantLocked ==
  ASSUME Books, NEW w \in Worker, evictOldestForTenantLocked(w)
  PROVE  Books'
<1> USE DEF Books, TypeOK, IndexConsistent
<1>1. DataTypeOK' /\ DataConsistent'
  <2>1. PICK x \in DOMAIN entries : removeReplicaLocked(x)
    BY ZenonT(60) DEF evictOldestForTenantLocked, Holders, capCandidates
  <2> QED BY ZenonT(60), <2>1, RemoveKeepsData
<1>2. StatsTypeOK' /\ StatsConsistent'
  BY ZenonT(60), StatsFrame DEF evictOldestForTenantLocked
<1>3. ControlTypeOK'
  BY ZenonT(60) DEF evictOldestForTenantLocked, ControlTypeOK, Label, Critical, Reporting, goto, gaugeVars, localVars, envVars
<1>4. LocksOK'
  BY ZenonT(60), WorkerAssumption DEF evictOldestForTenantLocked, ControlTypeOK, LocksOK, Critical, Reporting, Label, goto, gaugeVars
<1> QED BY <1>1, <1>2, <1>3, <1>4

(* Leaving the quota loop reads the counts for the cap sweep. *)
LEMMA Books_QuotaDone ==
  ASSUME Books, NEW w \in Worker, QuotaDone(w)
  PROVE  Books'
<1> USE DEF Books, TypeOK, IndexConsistent
<1>1. DataTypeOK' /\ DataConsistent'
  BY DataFrame DEF QuotaDone
<1>2. StatsTypeOK' /\ StatsConsistent'
  BY StatsFrame, ZenonT(60) DEF QuotaDone
<1>3. ControlTypeOK'
  BY ZenonT(60) DEF QuotaDone, ControlTypeOK, Label, Critical, Reporting, goto, gaugeVars, localVars, envVars
<1>4. LocksOK'
  BY WorkerAssumption DEF QuotaDone, ControlTypeOK, LocksOK, Critical, Reporting, Label, goto, gaugeVars
<1> QED BY <1>1, <1>2, <1>3, <1>4

(* One removal of the cap sweep. *)
LEMMA Books_enforceCapLocked ==
  ASSUME Books, NEW w \in Worker, enforceCapLocked(w)
  PROVE  Books'
<1> USE DEF Books, TypeOK, IndexConsistent
<1>1. DataTypeOK' /\ DataConsistent'
  <2>1. PICK x \in DOMAIN entries : removeReplicaLocked(x)
    BY ZenonT(60) DEF enforceCapLocked, Holders, capCandidates
  <2> QED BY <2>1, RemoveKeepsData
<1>2. StatsTypeOK' /\ StatsConsistent'
  BY StatsFrame, ZenonT(60) DEF enforceCapLocked
<1>3. ControlTypeOK'
  BY ZenonT(60) DEF enforceCapLocked, ControlTypeOK, Label, Critical, Reporting, goto, gaugeVars, localVars, envVars
<1>4. LocksOK'
  BY WorkerAssumption DEF enforceCapLocked, ControlTypeOK, LocksOK, Critical, Reporting, Label, goto, gaugeVars
<1> QED BY <1>1, <1>2, <1>3, <1>4

(* Leaving the cap sweep releases mu. *)
LEMMA Books_IngestUnlock ==
  ASSUME Books, NEW w \in Worker, IngestUnlock(w)
  PROVE  Books'
<1> USE DEF Books, TypeOK, IndexConsistent
<1>1. DataTypeOK' /\ DataConsistent'
  BY DataFrame DEF IngestUnlock
<1>2. StatsTypeOK' /\ StatsConsistent'
  BY StatsFrame, ZenonT(60) DEF IngestUnlock
<1>3. ControlTypeOK'
  BY ZenonT(60) DEF IngestUnlock, ControlTypeOK, Label, Critical, Reporting, goto, gaugeVars, localVars, envVars, unlock, Time, ZeroTime, NoQuota
<1>4. LocksOK'
  BY WorkerAssumption DEF IngestUnlock, ControlTypeOK, LocksOK, Critical, Reporting, Label, goto, gaugeVars, unlock
<1> QED BY <1>1, <1>2, <1>3, <1>4

(* Taking mu for an event selects the removals and updates the stats. *)
LEMMA Books_EventLock ==
  ASSUME Books, NEW w \in Worker, EventLock(w)
  PROVE  Books'
<1> USE DEF Books, TypeOK, IndexConsistent
<1>1. DataTypeOK' /\ DataConsistent'
  BY ZenonT(60), DataFrame DEF EventLock
<1>2. StatsTypeOK' /\ StatsConsistent'
  <2> DEFINE ev == request[w]
             s == <<ev.tenant, ev.model, ev.replica>>
  <2>1. ev \in Event /\ now[w] \in Time
    BY RequestAssumption, ZenonT(60) DEF EventLock, lock, ControlTypeOK
  <2>2. s \in StatsKey
    BY <2>1 DEF Event, StatsKey
  <2>3. CASE ev.type = "cleared"
    <3>1. removeStats({s})
      BY <2>3, ZenonT(60) DEF EventLock
    <3> QED BY <2>2, <3>1, RemoveStatsKeeps
  <2>4. CASE ev.type = "updated" /\ s \in DOMAIN stats
    <3>1. stats' = [stats EXCEPT ![s] = now[w]] /\ replicasByModel' = replicasByModel
      BY <2>4 DEF EventLock
    <3> QED BY <2>1, <2>4, <3>1 DEF StatsTypeOK, StatsConsistent
  <2>5. CASE ~(ev.type = "cleared") /\ ~(ev.type = "updated" /\ s \in DOMAIN stats)
    <3>1. UNCHANGED statsVars
      BY <2>5 DEF EventLock
    <3> QED BY <3>1, StatsFrame
  <2> QED BY <2>3, <2>4, <2>5
<1>3. ControlTypeOK'
  BY DEF EventLock, ControlTypeOK, Label, Critical, Reporting, goto, gaugeVars, localVars, envVars, lock, DataTypeOK
<1>4. LocksOK'
  BY ZenonT(60), WorkerAssumption DEF EventLock, ControlTypeOK, LocksOK, Critical, Reporting, Label, goto, gaugeVars, lock
<1> QED BY <1>1, <1>2, <1>3, <1>4

(* Taking mu for a sweep selects the expired entries and drops stale stats. *)
LEMMA Books_SweepLock ==
  ASSUME Books, NEW w \in Worker, SweepLock(w)
  PROVE  Books'
<1> USE DEF Books, TypeOK, IndexConsistent
<1>1. DataTypeOK' /\ DataConsistent'
  BY DataFrame, ZenonT(60) DEF SweepLock
<1>2. StatsTypeOK' /\ StatsConsistent'
  <2>1. PICK gone \in SUBSET DOMAIN stats : removeStats(gone)
    BY ZenonT(60) DEF SweepLock
  <2> QED BY <2>1, RemoveStatsKeeps DEF StatsTypeOK
<1>3. ControlTypeOK'
  BY ZenonT(60) DEF SweepLock, ControlTypeOK, Label, Critical, Reporting, goto, gaugeVars, localVars, envVars, lock, DataTypeOK
<1>4. LocksOK'
  BY WorkerAssumption DEF SweepLock, ControlTypeOK, LocksOK, Critical, Reporting, Label, goto, gaugeVars, lock
<1> QED BY <1>1, <1>2, <1>3, <1>4

(* One removal of an event or a sweep. *)
LEMMA Books_RemoveDoomed ==
  ASSUME Books, NEW w \in Worker, RemoveDoomed(w)
  PROVE  Books'
<1> USE DEF Books, TypeOK, IndexConsistent
<1>1. DataTypeOK' /\ DataConsistent'
  <2>1. PICK x \in doomed : removeReplicaLocked(x)
    BY DEF RemoveDoomed
  <2>2. CASE x \in DOMAIN entries
    BY ZenonT(60), <2>1, <2>2, RemoveKeepsData
  <2>3. CASE x \notin DOMAIN entries
    BY <2>1, <2>3, DataFrame DEF removeReplicaLocked
  <2> QED BY <2>2, <2>3
<1>2. StatsTypeOK' /\ StatsConsistent'
  BY StatsFrame, ZenonT(60) DEF RemoveDoomed
<1>3. ControlTypeOK'
  BY ZenonT(60) DEF RemoveDoomed, ControlTypeOK, Label, Critical, Reporting, goto, gaugeVars, localVars, envVars
<1>4. LocksOK'
  BY WorkerAssumption, ZenonT(60) DEF RemoveDoomed, ControlTypeOK, LocksOK, Critical, Reporting, Label, goto, gaugeVars
<1> QED BY <1>1, <1>2, <1>3, <1>4

(* The removal loop ends and releases mu. *)
LEMMA Books_RemoveUnlock ==
  ASSUME Books, NEW w \in Worker, RemoveUnlock(w)
  PROVE  Books'
<1> USE DEF Books, TypeOK, IndexConsistent
<1>1. DataTypeOK' /\ DataConsistent'
  BY DataFrame DEF RemoveUnlock
<1>2. StatsTypeOK' /\ StatsConsistent'
  BY StatsFrame, ZenonT(60) DEF RemoveUnlock
<1>3. ControlTypeOK'
  BY ZenonT(60) DEF RemoveUnlock, ControlTypeOK, Label, Critical, Reporting, goto, gaugeVars, localVars, envVars, unlock, Time, ZeroTime, NoQuota
<1>4. LocksOK'
  BY WorkerAssumption, ZenonT(60) DEF RemoveUnlock, ControlTypeOK, LocksOK, Critical, Reporting, Label, goto, gaugeVars, unlock
<1> QED BY <1>1, <1>2, <1>3, <1>4

(* A reporter takes reportMu. *)
LEMMA Books_ReportLock ==
  ASSUME Books, NEW w \in Worker, ReportLock(w)
  PROVE  Books'
<1> USE DEF Books, TypeOK, IndexConsistent
<1>1. DataTypeOK' /\ DataConsistent'
  BY DataFrame DEF ReportLock
<1>2. StatsTypeOK' /\ StatsConsistent'
  BY StatsFrame, ZenonT(60) DEF ReportLock
<1>3. ControlTypeOK'
  BY ZenonT(60) DEF ReportLock, ControlTypeOK, Label, Critical, Reporting, goto, gaugeVars, localVars, envVars
<1>4. LocksOK'
  BY WorkerAssumption, ZenonT(60) DEF ReportLock, ControlTypeOK, LocksOK, Critical, Reporting, Label, goto, gaugeVars
<1> QED BY <1>1, <1>2, <1>3, <1>4

(* A reporter counts under the read lock. *)
LEMMA Books_ReportCount ==
  ASSUME Books, NEW w \in Worker, ReportCount(w)
  PROVE  Books'
<1> USE DEF Books, TypeOK, IndexConsistent
<1>1. DataTypeOK' /\ DataConsistent'
  BY DataFrame DEF ReportCount
<1>2. StatsTypeOK' /\ StatsConsistent'
  BY ZenonT(60), StatsFrame DEF ReportCount
<1>3. ControlTypeOK'
  BY ZenonT(60), FS_Subset, FS_CardinalityType DEF ReportCount, ControlTypeOK, Label, Critical, Reporting, goto, gaugeVars, localVars, envVars, EntryCountsByModel, DataTypeOK
<1>4. LocksOK'
  BY WorkerAssumption, ZenonT(60) DEF ReportCount, ControlTypeOK, LocksOK, Critical, Reporting, Label, goto, gaugeVars
<1> QED BY <1>1, <1>2, <1>3, <1>4

(* A reporter publishes and releases reportMu. *)
LEMMA Books_ReportPublish ==
  ASSUME Books, NEW w \in Worker, ReportPublish(w)
  PROVE  Books'
<1> USE DEF Books, TypeOK, IndexConsistent
<1>1. DataTypeOK' /\ DataConsistent'
  BY DataFrame DEF ReportPublish
<1>2. StatsTypeOK' /\ StatsConsistent'
  BY ZenonT(60), StatsFrame DEF ReportPublish
<1>3. ControlTypeOK'
  BY ZenonT(60) DEF ReportPublish, ControlTypeOK, Label, Critical, Reporting, goto, gaugeVars, localVars, envVars
<1>4. LocksOK'
  BY WorkerAssumption DEF ReportPublish, ControlTypeOK, LocksOK, Critical, Reporting, Label, goto, gaugeVars
<1> QED BY <1>1, <1>2, <1>3, <1>4

(* A lock-free credit changes one access count and nothing else.           *)
LEMMA Books_CreditHits ==
  ASSUME Books, CreditHits
  PROVE  Books'
<1> USE DEF Books, TypeOK, IndexConsistent
<1>1. PICK x \in DOMAIN entries : entries' = [entries EXCEPT ![x].accessCount = @ + 1]
  BY ZenonT(60) DEF CreditHits
<1>2. DOMAIN entries' = DOMAIN entries
      /\ entries' \in [DOMAIN entries' -> [lastSeen : Time, accessCount : Nat]]
  BY <1>1 DEF DataTypeOK
<1>3. DataTypeOK' /\ DataConsistent'
  BY ZenonT(60), <1>2 DEF CreditHits, DataTypeOK, DataConsistent, ReservedRefs, PrefixesOf, PrefixesOfModel, ServedBy
<1>4. StatsTypeOK' /\ StatsConsistent'
  BY StatsFrame DEF CreditHits
<1>5. ControlTypeOK' /\ LocksOK'
  BY DEF CreditHits, ControlTypeOK, LocksOK, gaugeVars, localVars, envVars
<1> QED BY <1>3, <1>4, <1>5

(* Policy pushes, the passage of time and stuttering change no index state. *)
LEMMA Books_Environment ==
  ASSUME Books, ReplaceSnapshot \/ Tick \/ UNCHANGED vars
  PROVE  Books'
<1> USE DEF Books, TypeOK, IndexConsistent
<1>1. DataTypeOK' /\ DataConsistent' /\ StatsTypeOK' /\ StatsConsistent'
  BY ZenonT(60), DataFrame, StatsFrame DEF ReplaceSnapshot, Tick, vars
<1>2. ControlTypeOK' /\ LocksOK'
  BY DEF ReplaceSnapshot, Tick, vars, ControlTypeOK, LocksOK, gaugeVars, localVars, envVars, Time
<1> QED BY <1>1, <1>2

(* Every step of the system preserves both invariants.                     *)
LEMMA BooksStep == Books /\ [Next]_vars => Books'
<1> SUFFICES ASSUME Books, [Next]_vars PROVE Books'
  BY ZenonT(60)
<1>1. ASSUME NEW w \in Worker, IngestBegin(w) \/ EventBegin(w) \/ SweepBegin(w) \/ Step(w)
      PROVE  Books'
  BY ZenonT(60), <1>1, Books_IngestBegin, Books_EventBegin, Books_SweepBegin, Books_IngestLock,
     Books_IngestUpsert, Books_IngestStats, Books_evictOldestForTenantLocked, Books_QuotaDone,
     Books_enforceCapLocked, Books_IngestUnlock, Books_EventLock, Books_SweepLock,
     Books_RemoveDoomed, Books_RemoveUnlock, Books_ReportLock, Books_ReportCount,
     Books_ReportPublish DEF Step
<1> QED BY <1>1, Books_CreditHits, Books_Environment DEF Next

(* The index stays well typed and each lock has at most one holder, for    *)
(* any number of concurrent handlers.                                      *)
THEOREM TypeCorrect == Spec => []TypeOK
<1>1. Books => TypeOK
  BY DEF Books
<1> QED BY BooksInit, BooksStep, <1>1, PTL DEF Spec

(* The counters and secondary indexes maintained by accounting.go are      *)
(* exact after every upsert and removal.                                   *)
THEOREM BookkeepingExact == Spec => []IndexConsistent
<1>1. Books => IndexConsistent
  BY DEF Books
<1> QED BY BooksInit, BooksStep, <1>1, PTL DEF Spec

(* Both together, for the theorems below.                                  *)
THEOREM BooksInvariant == Spec => []Books
BY BooksInit, BooksStep, PTL DEF Spec

-----------------------------------------------------------------------------
(* The cap.  While no Ingest of a real tenant is inside the lock, the real *)
(* entries fit the cap: an Ingest of a reserved tenant adds none.          *)

IngestSection == {"upsert", "quota", "cap"}

CapInv ==
  /\ \A w \in Worker : pc[w] = "upsert" => \A k \in todo : k.tenant = request[w].tenant
  /\ MaxEntries > 0
     /\ (\A w \in Worker : pc[w] \in IngestSection => isReservedTenant(request[w].tenant))
     => Cardinality(RealEntries) <= MaxEntries

(* What enforceCapLocked measures is the number of real entries.           *)
LEMMA EffectiveTotal ==
  ASSUME Books
  PROVE  /\ IsFiniteSet(RealEntries)
         /\ Cardinality(RealEntries) = totalEntries - reservedEntries
         /\ Cardinality(RealEntries) \in Nat
<1> DEFINE D == DOMAIN entries
<1>1. IsFiniteSet(D) /\ totalEntries = Cardinality(D) /\ reservedEntries = Cardinality(ReservedRefs)
      /\ totalEntries \in Nat /\ reservedEntries \in Nat
  BY DEF Books, TypeOK, DataTypeOK, IndexConsistent, DataConsistent
<1>2. RealEntries = D \ ReservedRefs /\ D \cap ReservedRefs = ReservedRefs
  BY ZenonT(60) DEF RealEntries, ReservedRefs, isReservedTenant
<1>3. IsFiniteSet(D \ ReservedRefs)
      /\ Cardinality(D \ ReservedRefs) = Cardinality(D) - Cardinality(D \cap ReservedRefs)
  BY <1>1, FS_Difference
<1>4. Cardinality(D \ ReservedRefs) \in Nat
  BY <1>3, FS_CardinalityType, ZenonT(60)
<1> QED BY ZenonT(60), <1>1, <1>2, <1>3, <1>4

(* Steps that keep the prefix map's domain keep the cap candidates.        *)
LEMMA CandidateFrame ==
  ASSUME DOMAIN entries' = DOMAIN entries
  PROVE  RealEntries' = RealEntries
BY DEF RealEntries, isReservedTenant

(* A removal never adds a candidate.                                       *)
LEMMA RemovalShrinks ==
  ASSUME Books, NEW x, removeReplicaLocked(x)
  PROVE  /\ RealEntries' \subseteq RealEntries
         /\ Cardinality(RealEntries') \in Nat
         /\ Cardinality(RealEntries') <= Cardinality(RealEntries)
<1>1. RealEntries' \subseteq RealEntries
  BY DEF removeReplicaLocked, RealEntries, dataVars, isReservedTenant
<1>2. IsFiniteSet(RealEntries)
  BY EffectiveTotal, ZenonT(60)
<1> QED BY ZenonT(60), <1>1, <1>2, FS_Subset, FS_CardinalityType

(* The cap invariant is inductive relative to the bookkeeping.             *)
LEMMA CapStep == Books /\ CapInv /\ [Next]_vars => CapInv'
<1> SUFFICES ASSUME Books, CapInv, [Next]_vars PROVE CapInv'
  OBVIOUS
<1> DEFINE Fits == Cardinality(RealEntries) <= MaxEntries
           NoReal == \A w \in Worker : pc[w] \in IngestSection => isReservedTenant(request[w].tenant)
           Own == \A w \in Worker : pc[w] = "upsert" => \A k \in todo : k.tenant = request[w].tenant
<1> USE DEF IngestSection
<1>0. /\ pc \in [Worker -> Label] /\ request \in [Worker -> Updates \cup Events \cup {NoRequest}]
      /\ \A w \in Worker : mu = w <=> pc[w] \in Critical
  BY ZenonT(60) DEF Books, TypeOK, ControlTypeOK, LocksOK
<1>1. ASSUME NEW w \in Worker, IngestBegin(w) \/ EventBegin(w) \/ SweepBegin(w)
      PROVE  CapInv'
  <2>1. DOMAIN entries' = DOMAIN entries /\ todo' = todo
    BY ZenonT(60), <1>1 DEF IngestBegin, EventBegin, SweepBegin, dataVars
  <2>2. /\ pc'[w] \notin IngestSection
        /\ \A v \in Worker \ {w} : pc'[v] = pc[v] /\ request'[v] = request[v]
        /\ pc[w] = "idle"
    BY ZenonT(60), <1>0, <1>1 DEF IngestBegin, EventBegin, SweepBegin, goto
  <2> QED BY ZenonT(60), <2>1, <2>2, CandidateFrame DEF CapInv, isReservedTenant
<1>2. ASSUME NEW w \in Worker, IngestLock(w) PROVE CapInv'
  <2>1. NoReal /\ \A v \in Worker : pc[v] \notin Critical
    BY <1>0, <1>2, WorkerAssumption, ZenonT(60) DEF IngestLock, lock, Critical
  <2>2. DOMAIN entries' = DOMAIN entries /\ request' = request /\ pc' = [pc EXCEPT ![w] = "upsert"]
    BY <1>2 DEF IngestLock, lock, goto, dataVars, localVars
  <2>3. \A k \in todo' : k.tenant = request[w].tenant
    BY ZenonT(60), <1>2, KeysOfUpdate DEF IngestLock, lock, Books, TypeOK, ControlTypeOK
  <2>4. Own'
    BY <1>0, <2>1, <2>2, <2>3 DEF Critical
  <2>5. MaxEntries > 0 => Fits
    BY ZenonT(60), <2>1 DEF CapInv
  <2> QED BY <2>2, <2>4, <2>5, CandidateFrame DEF CapInv
<1>3. ASSUME NEW w \in Worker, IngestUpsert(w) PROVE CapInv'
  <2>1. PICK k \in todo : upsertReplicaLocked(k, request[w].replica, now[w]) /\ todo' = todo \ {k}
    BY ZenonT(60), <1>3 DEF IngestUpsert
  <2>2. UNCHANGED <<pc, request>> /\ pc[w] = "upsert"
    BY ZenonT(60), <1>3 DEF IngestUpsert, localVars
  <2>3. Own'
    BY <2>1, <2>2 DEF CapInv
  <2>4. ASSUME NoReal PROVE RealEntries' = RealEntries
    <3>1. isReservedTenant(k.tenant)
      BY <2>1, <2>2, <2>4 DEF CapInv
    <3>2. DOMAIN entries' = DOMAIN entries \cup {<<k, request[w].replica>>}
      BY ZenonT(60), <2>1 DEF upsertReplicaLocked
    <3> QED BY ZenonT(60), <3>1, <3>2, PairParts DEF RealEntries, isReservedTenant
  <2> QED BY <2>2, <2>3, <2>4 DEF CapInv, isReservedTenant
<1>4. ASSUME NEW w \in Worker, IngestStats(w) \/ QuotaDone(w) PROVE CapInv'
  <2>1. DOMAIN entries' = DOMAIN entries /\ todo' = todo /\ request' = request
    BY <1>4 DEF IngestStats, QuotaDone, dataVars, localVars
  <2>2. /\ pc[w] \in IngestSection /\ pc'[w] \in IngestSection /\ pc'[w] # "upsert"
        /\ \A v \in Worker \ {w} : pc'[v] = pc[v]
    BY ZenonT(60), <1>0, <1>4 DEF IngestStats, QuotaDone, goto
  <2> QED BY ZenonT(60), <2>1, <2>2, CandidateFrame DEF CapInv, isReservedTenant
<1>5. ASSUME NEW w \in Worker,
             evictOldestForTenantLocked(w) \/ enforceCapLocked(w) \/ RemoveDoomed(w)
      PROVE  CapInv'
  <2>1. PICK x : removeReplicaLocked(x)
    BY ZenonT(60), <1>5 DEF evictOldestForTenantLocked, enforceCapLocked, RemoveDoomed
  <2>2. UNCHANGED <<pc, request, todo>>
    BY ZenonT(60), <1>5 DEF evictOldestForTenantLocked, enforceCapLocked, RemoveDoomed, localVars
  <2>3. Cardinality(RealEntries') <= Cardinality(RealEntries)
        /\ Cardinality(RealEntries') \in Nat /\ Cardinality(RealEntries) \in Nat
    BY <2>1, RemovalShrinks, EffectiveTotal
  <2> QED BY SMTT(60), <2>2, <2>3, BoundAssumption DEF CapInv, isReservedTenant
<1>6. ASSUME NEW w \in Worker, IngestUnlock(w) PROVE CapInv'
  <2>1. MaxEntries > 0 => Fits
    BY <1>6, EffectiveTotal, BoundAssumption DEF IngestUnlock, overCap, Books, TypeOK, DataTypeOK
  <2>2. DOMAIN entries' = DOMAIN entries /\ todo' = todo
    BY <1>6 DEF IngestUnlock, dataVars
  <2>3. /\ pc'[w] # "upsert"
        /\ \A v \in Worker \ {w} : pc'[v] = pc[v] /\ request'[v] = request[v]
    BY ZenonT(60), <1>0, <1>6 DEF IngestUnlock, unlock, goto
  <2> QED BY ZenonT(60), <2>1, <2>2, <2>3, CandidateFrame DEF CapInv
<1>7. ASSUME NEW w \in Worker,
             EventLock(w) \/ SweepLock(w) \/ RemoveUnlock(w) \/ ReportLock(w)
               \/ ReportCount(w) \/ ReportPublish(w)
      PROVE  CapInv'
  <2>1. DOMAIN entries' = DOMAIN entries /\ todo' = todo
    BY <1>7 DEF EventLock, SweepLock, RemoveUnlock, ReportLock, ReportCount, ReportPublish, dataVars
  <2>2. /\ pc'[w] \notin IngestSection /\ pc[w] \notin IngestSection
        /\ \A v \in Worker \ {w} : pc'[v] = pc[v] /\ request'[v] = request[v]
    BY ZenonT(60), <1>0, <1>7 DEF EventLock, SweepLock, RemoveUnlock, ReportLock, ReportCount, ReportPublish,
                      goto, lock, unlock, localVars
  <2> QED BY <2>1, <2>2, CandidateFrame, ZenonT(60) DEF CapInv, isReservedTenant
<1>8. ASSUME CreditHits \/ ReplaceSnapshot \/ Tick \/ UNCHANGED vars PROVE CapInv'
  <2>1. DOMAIN entries' = DOMAIN entries /\ UNCHANGED <<todo, pc, request>>
    BY ZenonT(60), <1>8 DEF CreditHits, ReplaceSnapshot, Tick, vars, dataVars, localVars, Books, TypeOK, DataTypeOK
  <2> QED BY <2>1, CandidateFrame DEF CapInv, isReservedTenant
<1> QED BY <1>1, <1>2, <1>3, <1>4, <1>5, <1>6, <1>7, <1>8, ZenonT(60) DEF Next, Step

(* The empty index fits every cap.                                         *)
LEMMA CapInit == Init => CapInv
<1> SUFFICES ASSUME Init PROVE CapInv
  OBVIOUS
<1>1. RealEntries = {}
  BY DEF Init, Nothing, RealEntries
<1>2. Cardinality(RealEntries) = 0
  BY <1>1, FS_EmptySet
<1> QED BY <1>2, BoundAssumption DEF Init, CapInv

(* Whenever mu is free the real entries fit the cap.                       *)
THEOREM CapTheorem == Spec => []CapHolds
<1>1. Books /\ CapInv => CapHolds
  <2> SUFFICES ASSUME Books, CapInv, MaxEntries > 0, mu = NoWorker
               PROVE  Cardinality(RealEntries) <= MaxEntries
    BY DEF CapHolds
  <2>1. \A w \in Worker : pc[w] \notin IngestSection
    BY WorkerAssumption DEF Books, TypeOK, LocksOK, IngestSection, Critical
  <2> QED BY <2>1 DEF CapInv
<1> QED BY CapInit, CapStep, BooksInvariant, <1>1, PTL DEF Spec

(* An Ingest of a reserved tenant neither evicts nor touches an entry of a *)
(* real tenant: it adds no real entry, so it never finds the cap exceeded, *)
(* and its quota loop only sees its own prefixes.                          *)
THEOREM ReservedTheorem == Spec => ReservedIngestHarmless
<1> DEFINE Harmless == \A w \in Worker :
       /\ pc[w] \in {"upsert", "quota", "cap"}
       /\ isReservedTenant(request[w].tenant)
       => \A x \in RealEntries :
            x \in DOMAIN entries' /\ entries'[x].lastSeen = entries[x].lastSeen
<1>1. Books /\ CapInv /\ [Next]_vars => [Harmless]_vars
  <2> SUFFICES ASSUME Books, CapInv, Next, NEW w \in Worker,
                      pc[w] \in IngestSection, isReservedTenant(request[w].tenant),
                      NEW x \in RealEntries
               PROVE  x \in DOMAIN entries' /\ entries'[x].lastSeen = entries[x].lastSeen
    BY ZenonT(60) DEF IngestSection
  <2>0. x \in DOMAIN entries /\ ~isReservedTenant(x[1].tenant)
    BY ZenonT(60) DEF RealEntries, isReservedTenant
  <2>1. \A v \in Worker : pc[v] \in Critical => v = w
    BY ZenonT(60) DEF Books, TypeOK, LocksOK, IngestSection, Critical
  <2>2. CASE UNCHANGED entries
    BY <2>0, <2>2
  <2>3. ASSUME NEW v \in Worker, IngestUpsert(v)
        PROVE  x \in DOMAIN entries' /\ entries'[x].lastSeen = entries[x].lastSeen
    <3>1. PICK k \in todo : upsertReplicaLocked(k, request[v].replica, now[v])
      BY ZenonT(60), <2>3 DEF IngestUpsert
    <3>2. v = w /\ isReservedTenant(k.tenant)
      BY ZenonT(60), <2>1, <2>3, <3>1 DEF IngestUpsert, Critical, CapInv
    <3>3. x # <<k, request[v].replica>>
      <4> SUFFICES ASSUME x = <<k, request[v].replica>> PROVE FALSE
        BY ZenonT(60)
      <4>1. x[1] = k
        BY ZenonT(60), PairParts
      <4> QED BY ZenonT(60), <2>0, <3>2, <4>1
    <3> QED BY ZenonT(60), <2>0, <3>1, <3>3 DEF upsertReplicaLocked
  <2>4. ASSUME NEW v \in Worker, evictOldestForTenantLocked(v)
        PROVE  x \in DOMAIN entries' /\ entries'[x].lastSeen = entries[x].lastSeen
    <3>1. PICK y \in DOMAIN entries : removeReplicaLocked(y) /\ y[1].tenant = request[v].tenant
      BY ZenonT(60), <2>4 DEF evictOldestForTenantLocked, Holders
    <3>2. v = w
      BY ZenonT(60), <2>1, <2>4 DEF evictOldestForTenantLocked, Critical
    <3>3. x # y
      BY ZenonT(60), <2>0, <3>1, <3>2
    <3> QED BY ZenonT(60), <2>0, <3>1, <3>3 DEF removeReplicaLocked
  <2>5. ASSUME NEW v \in Worker, enforceCapLocked(v) PROVE FALSE
    <3>1. v = w /\ MaxEntries > 0 /\ totalEntries - reservedEntries > MaxEntries
      BY ZenonT(60), <2>1, <2>5 DEF enforceCapLocked, Critical, overCap
    <3>2. Cardinality(RealEntries) <= MaxEntries
      BY ZenonT(60), <2>1, <3>1 DEF CapInv, IngestSection, Critical
    <3> QED BY SMTT(60), <3>1, <3>2, EffectiveTotal, BoundAssumption
  <2>6. ASSUME NEW v \in Worker, RemoveDoomed(v) PROVE FALSE
    BY <2>1, <2>6 DEF RemoveDoomed, Critical, IngestSection
  <2>7. CASE CreditHits
    BY <2>0, <2>7 DEF CreditHits, Books, TypeOK, DataTypeOK
  <2>8. ASSUME NEW v \in Worker,
               IngestBegin(v) \/ EventBegin(v) \/ SweepBegin(v) \/ IngestLock(v) \/ IngestStats(v)
                 \/ QuotaDone(v) \/ IngestUnlock(v) \/ EventLock(v) \/ SweepLock(v)
                 \/ RemoveUnlock(v) \/ ReportLock(v) \/ ReportCount(v) \/ ReportPublish(v)
        PROVE  UNCHANGED entries
    BY ZenonT(60), <2>8 DEF IngestBegin, EventBegin, SweepBegin, IngestLock, IngestStats, QuotaDone, IngestUnlock,
                EventLock, SweepLock, RemoveUnlock, ReportLock, ReportCount, ReportPublish, dataVars
  <2>9. CASE ReplaceSnapshot \/ Tick
    BY ZenonT(60), <2>2, <2>9 DEF ReplaceSnapshot, Tick, dataVars
  <2> QED BY ZenonT(60), <2>2, <2>3, <2>4, <2>5, <2>6, <2>7, <2>8, <2>9 DEF Next, Step
<1>2. Spec => [][Harmless]_vars
  BY CapInit, CapStep, BooksInvariant, <1>1, PTL DEF Spec
<1> QED BY <1>2 DEF ReservedIngestHarmless

-----------------------------------------------------------------------------
(* The budget.                                                             *)

(* Once the quota loop has ended, its tenant's prefixes fit the budget,    *)
(* and the cap sweep that follows only takes away.                         *)
QuotaInv ==
  \A w \in Worker : pc[w] = "cap" /\ quota[w] # NoQuota
                    => prefixesByTenant[request[w].tenant] <= quota[w]

(* A removal raises no tenant's prefix count.                              *)
LEMMA RemovalLowersCounts ==
  ASSUME Books, NEW x \in DOMAIN entries, removeReplicaLocked(x), NEW t \in Tenant
  PROVE  prefixesByTenant'[t] <= prefixesByTenant[t] /\ prefixesByTenant'[t] \in Nat
<1>1. prefixesByTenant \in [Tenant -> Nat] /\ x[1].tenant \in Tenant
  BY DEF Books, TypeOK, DataTypeOK, Ref, PrefixKey
<1>2. \A n \in Nat : pred(n) \in Nat /\ pred(n) <= n
  BY DEF pred
<1>3. prefixesByTenant' = [prefixesByTenant EXCEPT ![x[1].tenant] =
                             IF Holders(x[1]) = {x} THEN pred(@) ELSE @]
  BY ZenonT(60) DEF removeReplicaLocked
<1> QED BY <1>1, <1>2, <1>3

LEMMA QuotaStep == Books /\ QuotaInv /\ [Next]_vars => QuotaInv'
<1> SUFFICES ASSUME Books, QuotaInv, [Next]_vars, NEW v \in Worker, pc'[v] = "cap", quota'[v] # NoQuota
             PROVE  prefixesByTenant'[request'[v].tenant] <= quota'[v]
  BY ZenonT(60) DEF QuotaInv
<1>0. /\ pc \in [Worker -> Label] /\ quota \in [Worker -> Nat \cup {NoQuota}]
      /\ request \in [Worker -> Updates \cup Events \cup {NoRequest}] /\ now \in [Worker -> Time]
      /\ \A w \in Worker : mu = w <=> pc[w] \in Critical
  BY ZenonT(60) DEF Books, TypeOK, ControlTypeOK, LocksOK
<1>1. ASSUME pc[v] = "cap", UNCHANGED <<request[v], quota[v], prefixesByTenant>>
      PROVE  prefixesByTenant'[request'[v].tenant] <= quota'[v]
  BY <1>1, ZenonT(60) DEF QuotaInv
<1>2. ASSUME NEW w \in Worker, QuotaDone(w)
      PROVE  prefixesByTenant'[request'[v].tenant] <= quota'[v]
  <2>1. UNCHANGED <<request, quota, prefixesByTenant>> /\ ~overQuota(w) /\ pc' = [pc EXCEPT ![w] = "cap"]
    BY ZenonT(60), <1>2 DEF QuotaDone, localVars, dataVars, goto
  <2>2. CASE v = w
    <3>1. quota[w] \in Nat /\ request[w] \in Updates
      BY <1>0, <1>2, <2>1, <2>2, ZenonT(60) DEF QuotaDone, Books, TypeOK, ControlTypeOK
    <3>2. prefixesByTenant[request[w].tenant] \in Nat
      BY <3>1, RequestAssumption, ZenonT(60) DEF Update, Books, TypeOK, DataTypeOK
    <3> QED BY ZenonT(60), <2>1, <2>2, <3>1, <3>2, NotAbove DEF overQuota
  <2>3. CASE v # w
    BY <1>0, <1>1, <2>1, <2>3, ZenonT(60)
  <2> QED BY <2>2, <2>3, ZenonT(60)
<1>3. ASSUME NEW w \in Worker, enforceCapLocked(w)
      PROVE  prefixesByTenant'[request'[v].tenant] <= quota'[v]
  <2>1. PICK x \in DOMAIN entries : removeReplicaLocked(x)
    BY ZenonT(60), <1>3 DEF enforceCapLocked, capCandidates
  <2>2. UNCHANGED <<pc, request, quota>>
    BY ZenonT(60), <1>3 DEF enforceCapLocked, localVars
  <2>3. quota[v] \in Nat /\ request[v].tenant \in Tenant
    BY ZenonT(60), <1>0, <2>2, RequestAssumption DEF Books, TypeOK, ControlTypeOK, Update
  <2>4. prefixesByTenant[request[v].tenant] \in Nat
    BY <2>3 DEF Books, TypeOK, DataTypeOK
  <2>5. prefixesByTenant[request[v].tenant] <= quota[v]
    BY <2>2, ZenonT(60) DEF QuotaInv
  <2>6. prefixesByTenant'[request[v].tenant] <= prefixesByTenant[request[v].tenant]
          /\ prefixesByTenant'[request[v].tenant] \in Nat
    BY <2>1, <2>3, RemovalLowersCounts, ZenonT(60)
  <2> QED BY <2>2, <2>3, <2>4, <2>5, <2>6, AtMostThrough, ZenonT(60)
<1>4. ASSUME NEW w \in Worker,
             IngestUpsert(w) \/ evictOldestForTenantLocked(w) \/ RemoveDoomed(w)
      PROVE  FALSE
  BY ZenonT(60), <1>0, <1>4 DEF IngestUpsert, evictOldestForTenantLocked, RemoveDoomed, Critical
<1>5. ASSUME NEW w \in Worker,
             IngestBegin(w) \/ EventBegin(w) \/ SweepBegin(w) \/ IngestLock(w) \/ IngestStats(w)
               \/ IngestUnlock(w) \/ EventLock(w) \/ SweepLock(w) \/ RemoveUnlock(w)
               \/ ReportLock(w) \/ ReportCount(w) \/ ReportPublish(w)
      PROVE  pc[v] = "cap" /\ UNCHANGED <<request[v], quota[v], prefixesByTenant>>
  <2>1. UNCHANGED prefixesByTenant
    BY ZenonT(60), <1>5 DEF IngestBegin, EventBegin, SweepBegin, IngestLock, IngestStats, IngestUnlock,
         EventLock, SweepLock, RemoveUnlock, ReportLock, ReportCount, ReportPublish, dataVars
  <2>2. v # w
    BY ZenonT(60), <1>0, <1>5 DEF IngestBegin, EventBegin, SweepBegin, IngestLock, IngestStats, IngestUnlock,
         EventLock, SweepLock, RemoveUnlock, ReportLock, ReportCount, ReportPublish, lock, unlock, goto
  <2>3. pc[v] = "cap" /\ UNCHANGED <<request[v], quota[v]>>
    BY ZenonT(60), <1>0, <1>5, <2>2 DEF IngestBegin, EventBegin, SweepBegin, IngestLock, IngestStats, IngestUnlock,
         EventLock, SweepLock, RemoveUnlock, ReportLock, ReportCount, ReportPublish, lock, unlock, goto, localVars
  <2> QED BY <2>1, <2>3
<1>6. CASE CreditHits \/ ReplaceSnapshot \/ Tick \/ UNCHANGED vars
  BY ZenonT(60), <1>1, <1>6 DEF CreditHits, ReplaceSnapshot, Tick, vars, dataVars, localVars
<1> QED BY ZenonT(60), <1>1, <1>2, <1>3, <1>4, <1>5, <1>6 DEF Next, Step

(* When an Ingest releases the lock, its tenant holds at most the budget   *)
(* the handler resolved, whatever the cap sweep did in between.            *)
THEOREM QuotaTheorem == Spec => QuotaAtUnlock
<1> DEFINE Fits == \A w \in Worker :
       pc[w] = "cap" /\ pc'[w] = "report" /\ quota[w] # NoQuota
       => Cardinality(PrefixesOf(request[w].tenant)) <= quota[w]
<1>1. Init => QuotaInv
  BY ZenonT(60) DEF Init, QuotaInv
<1>2. Books /\ QuotaInv => Fits
  <2> SUFFICES ASSUME Books, QuotaInv, NEW w \in Worker, pc[w] = "cap", quota[w] # NoQuota
               PROVE  Cardinality(PrefixesOf(request[w].tenant)) <= quota[w]
    BY ZenonT(60)
  <2>1. request[w].tenant \in Tenant
    BY ZenonT(60), RequestAssumption DEF Books, TypeOK, ControlTypeOK, Update
  <2>2. prefixesByTenant[request[w].tenant] = Cardinality(PrefixesOf(request[w].tenant))
    BY <2>1, ZenonT(60) DEF Books, IndexConsistent, DataConsistent
  <2> QED BY <2>2 DEF QuotaInv
<1>3. Spec => [][Fits]_vars
  BY BooksInvariant, QuotaStep, <1>1, <1>2, PTL DEF Spec
<1> QED BY <1>3 DEF QuotaAtUnlock

-----------------------------------------------------------------------------
(* Why an entry leaves.                                                    *)

(* What entitles worker w, in its removal loop, to remove x.               *)
Cause(w, x) ==
  IF w = Sweeper
  THEN x \in DOMAIN entries =>
         \E p \in Policies : now[w] - entries[x].lastSeen >= ttlUnder(p, x[1].tenant)
  ELSE /\ x[2] = request[w].replica
       /\ x[1].tenant = request[w].tenant /\ x[1].model = request[w].model

(* Sweeps and events keep to their own workers, and what was selected for  *)
(* removal under the lock is still there for the reason it was selected.   *)
DoomInv ==
  \A w \in Worker :
    /\ pc[w] = "sweep" => w = Sweeper
    /\ pc[w] = "event" => w # Sweeper
    /\ pc[w] = "remove" => \A x \in doomed : Cause(w, x)

(* An entry keeps its age under every step but an upsert.                  *)
LEMMA RemovalKeepsAges ==
  ASSUME NEW x, removeReplicaLocked(x), NEW y \in DOMAIN entries'
  PROVE  y \in DOMAIN entries /\ entries'[y] = entries[y]
BY ZenonT(60) DEF removeReplicaLocked, dataVars

LEMMA DoomStep == Books /\ DoomInv /\ [Next]_vars => DoomInv'
<1> SUFFICES ASSUME Books, DoomInv, [Next]_vars, NEW v \in Worker
             PROVE  /\ pc'[v] = "sweep" => v = Sweeper
                    /\ pc'[v] = "event" => v # Sweeper
                    /\ pc'[v] = "remove" => \A x \in doomed' : Cause(v, x)'
  BY ZenonT(60) DEF DoomInv
<1> DEFINE Goal == /\ pc'[v] = "sweep" => v = Sweeper
                   /\ pc'[v] = "event" => v # Sweeper
                   /\ pc'[v] = "remove" => \A x \in doomed' : Cause(v, x)'
<1>0. /\ pc \in [Worker -> Label]
      /\ request \in [Worker -> Updates \cup Events \cup {NoRequest}] /\ now \in [Worker -> Time]
      /\ \A w \in Worker : mu = w <=> pc[w] \in Critical
  BY ZenonT(60) DEF Books, TypeOK, ControlTypeOK, LocksOK
<1>1. ASSUME UNCHANGED <<pc[v], request[v], now[v], entries, doomed>> PROVE Goal
  BY ZenonT(60), <1>1 DEF DoomInv, Cause
<1>2. ASSUME pc'[v] \notin {"sweep", "event", "remove"} PROVE Goal
  BY <1>2
<1>3. ASSUME NEW w \in Worker, IngestBegin(w) \/ EventBegin(w) \/ SweepBegin(w) PROVE Goal
  <2>1. UNCHANGED <<entries, doomed>>
    BY ZenonT(60), <1>3 DEF IngestBegin, EventBegin, SweepBegin, dataVars
  <2>2. CASE v = w
    BY ZenonT(60), <1>0, <1>3, <2>2 DEF IngestBegin, EventBegin, SweepBegin, goto
  <2>3. CASE v # w
    <3>1. UNCHANGED <<pc[v], request[v], now[v]>>
      BY ZenonT(60), <1>0, <1>3, <2>3 DEF IngestBegin, EventBegin, SweepBegin, goto
    <3> QED BY <1>1, <2>1, <3>1, ZenonT(60)
  <2> QED BY <2>2, <2>3
<1>4. ASSUME NEW w \in Worker, IngestUpsert(w) \/ evictOldestForTenantLocked(w) \/ enforceCapLocked(w)
      PROVE  Goal
  <2>1. UNCHANGED pc /\ pc[v] # "remove"
    BY ZenonT(60), <1>0, <1>4 DEF IngestUpsert, evictOldestForTenantLocked, enforceCapLocked, Critical
  <2> QED BY <2>1 DEF DoomInv
<1>5. ASSUME NEW w \in Worker, IngestStats(w) \/ QuotaDone(w) \/ IngestUnlock(w) \/ RemoveUnlock(w)
               \/ IngestLock(w) \/ ReportLock(w) \/ ReportCount(w) \/ ReportPublish(w)
      PROVE  Goal
  <2>1. UNCHANGED <<entries, doomed>>
    BY ZenonT(60), <1>5 DEF IngestStats, QuotaDone, IngestUnlock, RemoveUnlock, IngestLock, ReportLock,
         ReportCount, ReportPublish, dataVars
  <2>2. PICK to \in {"upsert", "quota", "cap", "report", "count", "publish", "idle"} : pc' = [pc EXCEPT ![w] = to]
    BY ZenonT(60), <1>5 DEF IngestStats, QuotaDone, IngestUnlock, RemoveUnlock, IngestLock,
         ReportLock, ReportCount, ReportPublish, lock, unlock, goto
  <2>3. \/ UNCHANGED <<request, now>>
        \/ request' = [request EXCEPT ![w] = NoRequest] /\ now' = [now EXCEPT ![w] = ZeroTime]
    BY ZenonT(60), <1>5 DEF IngestStats, QuotaDone, IngestUnlock, RemoveUnlock, IngestLock,
         ReportLock, ReportCount, ReportPublish, unlock, localVars
  <2>4. CASE v = w
    BY <1>0, <2>2, <2>4, ZenonT(60)
  <2>5. CASE v # w
    <3>1. UNCHANGED <<pc[v], request[v], now[v]>>
      BY <1>0, <2>2, <2>3, <2>5, ZenonT(60)
    <3> QED BY <1>1, <2>1, <3>1, ZenonT(60)
  <2> QED BY <2>4, <2>5
<1>6. ASSUME NEW w \in Worker, EventLock(w) PROVE Goal
  <2>1. /\ UNCHANGED <<entries, request, now>> /\ pc[w] = "event" /\ mu = NoWorker
        /\ pc' = [pc EXCEPT ![w] = "remove"]
    BY ZenonT(60), <1>6 DEF EventLock, lock, goto, dataVars, localVars
  <2>2. \A x \in doomed' : x[2] = request[w].replica /\ matchesEvent(x[1], request[w])
    BY ZenonT(60), <1>6 DEF EventLock
  <2>3. CASE v = w
    BY ZenonT(60), <1>0, <2>1, <2>2, <2>3 DEF DoomInv, Cause, matchesEvent
  <2>4. CASE v # w
    <3>1. pc'[v] = pc[v] /\ pc[v] # "remove"
      BY <1>0, <2>1, <2>4, WorkerAssumption, ZenonT(60) DEF Critical
    <3> QED BY <3>1, ZenonT(60) DEF DoomInv
  <2> QED BY <2>3, <2>4
<1>7. ASSUME NEW w \in Worker, SweepLock(w) PROVE Goal
  <2>1. /\ UNCHANGED <<entries, request, now>> /\ pc[w] = "sweep" /\ mu = NoWorker
        /\ pc' = [pc EXCEPT ![w] = "remove"]
    BY ZenonT(60), <1>7 DEF SweepLock, lock, goto, dataVars, localVars
  <2>2. \A x \in doomed' : now[w] - entries[x].lastSeen >= ttlUnder(policy, x[1].tenant)
    BY ZenonT(60), <1>7 DEF SweepLock, ttlFor, ttlUnder
  <2>3. policy \in Policies
    BY ZenonT(60) DEF Books, TypeOK, ControlTypeOK
  <2>4. CASE v = w
    BY ZenonT(60), <1>0, <2>1, <2>2, <2>3, <2>4 DEF DoomInv, Cause
  <2>5. CASE v # w
    <3>1. pc'[v] = pc[v] /\ pc[v] # "remove"
      BY <1>0, <2>1, <2>5, WorkerAssumption, ZenonT(60) DEF Critical
    <3> QED BY <3>1, ZenonT(60) DEF DoomInv
  <2> QED BY <2>4, <2>5
<1>8. ASSUME NEW w \in Worker, RemoveDoomed(w) PROVE Goal
  <2>1. PICK x : removeReplicaLocked(x) /\ doomed' = doomed \ {x}
    BY ZenonT(60), <1>8 DEF RemoveDoomed
  <2>2. UNCHANGED <<pc, request, now>>
    BY ZenonT(60), <1>8 DEF RemoveDoomed, localVars
  <2>3. ASSUME pc[v] = "remove", NEW y \in doomed' PROVE Cause(v, y)'
    <3>1. Cause(v, y)
      BY ZenonT(60), <2>1, <2>3 DEF DoomInv
    <3> QED BY ZenonT(60), <2>1, <2>2, <3>1, RemovalKeepsAges DEF Cause
  <2> QED BY ZenonT(60), <2>2, <2>3 DEF DoomInv
<1>9. CASE CreditHits
  <2>1. UNCHANGED <<pc, request, now, doomed>>
    BY ZenonT(60), <1>9 DEF CreditHits, localVars
  <2>2. DOMAIN entries' = DOMAIN entries /\ \A x \in DOMAIN entries : entries'[x].lastSeen = entries[x].lastSeen
    BY <1>9 DEF CreditHits, Books, TypeOK, DataTypeOK
  <2>3. ASSUME NEW x, Cause(v, x) PROVE Cause(v, x)'
    BY ZenonT(60), <2>1, <2>2, <2>3 DEF Cause
  <2> QED BY ZenonT(60), <2>1, <2>3 DEF DoomInv
<1>10. CASE ReplaceSnapshot \/ Tick \/ UNCHANGED vars
  BY ZenonT(60), <1>1, <1>10 DEF ReplaceSnapshot, Tick, vars, dataVars, localVars
<1> QED BY ZenonT(60), <1>3, <1>4, <1>5, <1>6, <1>7, <1>8, <1>9, <1>10 DEF Next, Step

(* No entry leaves the index without cause, whatever handlers, sweeps,     *)
(* credits and policy pushes interleave: the lock is held from the         *)
(* selection of the victims to the last removal.                           *)
THEOREM RemovalTheorem == Spec => RemovalJustified
<1> DEFINE Why(w, x) ==
         \/ /\ pc[w] = "remove" /\ w = Sweeper
            /\ \E p \in Policies : now[w] - entries[x].lastSeen >= ttlUnder(p, x[1].tenant)
         \/ /\ pc[w] = "remove" /\ w # Sweeper
            /\ x[2] = request[w].replica
            /\ x[1].tenant = request[w].tenant /\ x[1].model = request[w].model
         \/ /\ pc[w] = "quota"
            /\ x[1].tenant = request[w].tenant
            /\ Cardinality(PrefixesOf(x[1].tenant)) > quota[w]
         \/ /\ pc[w] = "cap"
            /\ x \in RealEntries
            /\ Cardinality(RealEntries) > MaxEntries
           Justified == \A w \in Worker, x \in DOMAIN entries \ DOMAIN entries' : mu = w => Why(w, x)
<1>1. Init => DoomInv
  BY DEF Init, DoomInv
<1>2. Books /\ DoomInv /\ [Next]_vars => [Justified]_vars
  <2> SUFFICES ASSUME Books, DoomInv, Next, NEW w \in Worker,
                      NEW x \in DOMAIN entries \ DOMAIN entries', mu = w
               PROVE  Why(w, x)
    BY ZenonT(60)
  <2> HIDE DEF Why
  <2>0. \A v \in Worker : pc[v] \in Critical => v = w
    BY DEF Books, TypeOK, LocksOK
  <2>1. ASSUME NEW y \in DOMAIN entries, removeReplicaLocked(y) PROVE x = y
    BY ZenonT(60), <2>1 DEF removeReplicaLocked
  <2>2. ASSUME NEW v \in Worker, IngestUpsert(v) PROVE FALSE
    BY ZenonT(60), <2>2 DEF IngestUpsert, upsertReplicaLocked
  <2>3. ASSUME NEW v \in Worker, evictOldestForTenantLocked(v) PROVE Why(w, x)
    <3>1. PICK y \in DOMAIN entries : removeReplicaLocked(y) /\ y[1].tenant = request[v].tenant
      BY ZenonT(60), <2>3 DEF evictOldestForTenantLocked, Holders
    <3>2. v = w /\ x = y /\ pc[w] = "quota" /\ overQuota(w)
      BY ZenonT(60), <2>0, <2>1, <2>3, <3>1 DEF evictOldestForTenantLocked, Critical
    <3>3. prefixesByTenant[x[1].tenant] = Cardinality(PrefixesOf(x[1].tenant))
      BY DEF Books, TypeOK, DataTypeOK, IndexConsistent, DataConsistent, Ref, PrefixKey
    <3> QED BY ZenonT(60), <3>1, <3>2, <3>3 DEF Why, overQuota
  <2>4. ASSUME NEW v \in Worker, enforceCapLocked(v) PROVE Why(w, x)
    <3>1. PICK y \in capCandidates : removeReplicaLocked(y)
      BY ZenonT(60), <2>4 DEF enforceCapLocked
    <3>2. v = w /\ x = y /\ x \in RealEntries /\ pc[w] = "cap" /\ overCap
      BY ZenonT(60), <2>0, <2>1, <2>4, <3>1
         DEF enforceCapLocked, Critical, capCandidates, RealEntries, isReservedTenant
    <3>3. Cardinality(RealEntries) > MaxEntries
      BY <3>2, EffectiveTotal DEF overCap
    <3> QED BY ZenonT(60), <3>2, <3>3 DEF Why
  <2>5. ASSUME NEW v \in Worker, RemoveDoomed(v) PROVE Why(w, x)
    <3>1. PICK y \in doomed : removeReplicaLocked(y)
      BY ZenonT(60), <2>5 DEF RemoveDoomed
    <3>2. y \in DOMAIN entries
      BY ZenonT(60), <3>1 DEF removeReplicaLocked, dataVars
    <3>3. v = w /\ x = y /\ pc[w] = "remove"
      BY ZenonT(60), <2>0, <2>1, <2>5, <3>1, <3>2 DEF RemoveDoomed, Critical
    <3>4. Cause(w, x)
      BY ZenonT(60), <3>1, <3>3 DEF DoomInv
    <3> QED BY ZenonT(60), <3>3, <3>4 DEF Why, Cause
  <2>6. ASSUME NEW v \in Worker,
               IngestBegin(v) \/ EventBegin(v) \/ SweepBegin(v) \/ IngestLock(v) \/ IngestStats(v)
                 \/ QuotaDone(v) \/ IngestUnlock(v) \/ EventLock(v) \/ SweepLock(v)
                 \/ RemoveUnlock(v) \/ ReportLock(v) \/ ReportCount(v) \/ ReportPublish(v)
        PROVE  FALSE
    BY ZenonT(60), <2>6 DEF IngestBegin, EventBegin, SweepBegin, IngestLock, IngestStats, QuotaDone, IngestUnlock,
         EventLock, SweepLock, RemoveUnlock, ReportLock, ReportCount, ReportPublish, dataVars
  <2>7. CASE CreditHits
    BY <2>7 DEF CreditHits, Books, TypeOK, DataTypeOK
  <2>8. CASE ReplaceSnapshot \/ Tick
    BY ZenonT(60), <2>8 DEF ReplaceSnapshot, Tick, dataVars
  <2> QED BY ZenonT(60), <2>2, <2>3, <2>4, <2>5, <2>6, <2>7, <2>8 DEF Next, Step
<1>3. Spec => [][Justified]_vars
  BY BooksInvariant, DoomStep, <1>1, <1>2, PTL DEF Spec
<1> QED BY <1>3, ZenonT(60) DEF RemovalJustified

-----------------------------------------------------------------------------
(* The gauge.                                                              *)

(* Whoever changed the prefix map, or is about to count it, will publish   *)
(* later counts than those now shown or in hand.                           *)
Pending == \E w \in Worker : pc[w] \in Critical \cup {"report", "count"}

(* A model that was not reported shows zero.  With no later count to come, *)
(* the counts a reporter holds are the live ones, and so is the gauge when *)
(* no reporter holds any.                                                  *)
GaugeInv ==
  /\ \A m \in Model : m \notin reportedModels => gauge[m] = 0
  /\ ~Pending => \/ \E w \in Worker : pc[w] = "publish" /\ counts = EntryCountsByModel
                 \/ (\A w \in Worker : pc[w] # "publish") /\ gauge = EntryCountsByModel

LEMMA GaugeStep == Books /\ GaugeInv /\ [Next]_vars => GaugeInv'
<1> SUFFICES ASSUME Books, GaugeInv, [Next]_vars PROVE GaugeInv'
  OBVIOUS
<1>0. /\ pc \in [Worker -> Label] /\ gauge \in [Model -> Nat] /\ counts \in [Model -> Nat]
      /\ \A w \in Worker : reportMu = w <=> pc[w] \in Reporting
  BY ZenonT(60) DEF Books, TypeOK, ControlTypeOK, LocksOK
<1>1. ASSUME UNCHANGED <<gauge, reportedModels>>, Pending' PROVE GaugeInv'
  BY ZenonT(60), <1>1 DEF GaugeInv
<1>2. ASSUME NEW w \in Worker,
             IngestLock(w) \/ IngestUpsert(w) \/ IngestStats(w) \/ evictOldestForTenantLocked(w)
               \/ QuotaDone(w) \/ enforceCapLocked(w) \/ IngestUnlock(w) \/ EventLock(w)
               \/ SweepLock(w) \/ RemoveDoomed(w) \/ RemoveUnlock(w) \/ ReportLock(w)
      PROVE  GaugeInv'
  <2>1. UNCHANGED <<gauge, reportedModels>>
    BY ZenonT(60), <1>2 DEF IngestLock, IngestUpsert, IngestStats, evictOldestForTenantLocked, QuotaDone,
         enforceCapLocked, IngestUnlock, EventLock, SweepLock, RemoveDoomed, RemoveUnlock, ReportLock, gaugeVars
  <2>2. pc'[w] \in Critical \cup {"report", "count"}
    BY ZenonT(60), <1>0, <1>2 DEF IngestLock, IngestUpsert, IngestStats, evictOldestForTenantLocked, QuotaDone,
         enforceCapLocked, IngestUnlock, EventLock, SweepLock, RemoveDoomed, RemoveUnlock, ReportLock,
         lock, unlock, goto, Critical
  <2> QED BY ZenonT(60), <1>1, <2>1, <2>2 DEF Pending
<1>3. ASSUME NEW w \in Worker, IngestBegin(w) \/ EventBegin(w) \/ SweepBegin(w)
      PROVE  GaugeInv'
  <2>1. UNCHANGED <<prefixes, gauge, reportedModels, counts>>
    BY ZenonT(60), <1>3 DEF IngestBegin, EventBegin, SweepBegin, gaugeVars, dataVars
  <2>2. /\ pc[w] = "idle" /\ pc'[w] \in {"ingest", "event", "sweep"}
        /\ \A v \in Worker \ {w} : pc'[v] = pc[v]
    BY ZenonT(60), <1>0, <1>3 DEF IngestBegin, EventBegin, SweepBegin, goto
  <2>3. Pending' <=> Pending
    BY ZenonT(60), <2>2 DEF Pending, Critical
  <2>4. \A v \in Worker : pc'[v] = "publish" <=> pc[v] = "publish"
    BY <2>2
  <2>5. EntryCountsByModel' = EntryCountsByModel
    BY <2>1 DEF EntryCountsByModel, isReservedTenant
  <2> QED BY ZenonT(60), <2>1, <2>3, <2>4, <2>5 DEF GaugeInv
<1>4. ASSUME NEW w \in Worker, ReportCount(w) PROVE GaugeInv'
  <2>1. UNCHANGED <<prefixes, gauge, reportedModels>> /\ counts' = EntryCountsByModel
    BY ZenonT(60), <1>4 DEF ReportCount, dataVars
  <2>2. pc'[w] = "publish"
    BY <1>0, <1>4, ZenonT(60) DEF ReportCount, goto
  <2>3. EntryCountsByModel' = EntryCountsByModel
    BY <2>1 DEF EntryCountsByModel, isReservedTenant
  <2> QED BY ZenonT(60), <2>1, <2>2, <2>3 DEF GaugeInv
<1>5. ASSUME NEW w \in Worker, ReportPublish(w) PROVE GaugeInv'
  <2>1. /\ gauge' = [m \in Model |-> IF counts[m] > 0 \/ m \in reportedModels THEN counts[m] ELSE gauge[m]]
        /\ reportedModels' = {m \in Model : counts[m] > 0} /\ UNCHANGED prefixes
    BY ZenonT(60), <1>5 DEF ReportPublish, dataVars
  <2>2. /\ pc[w] = "publish" /\ pc'[w] = "idle" /\ \A v \in Worker \ {w} : pc'[v] = pc[v]
    BY ZenonT(60), <1>0, <1>5 DEF ReportPublish, goto
  <2>3. \A m \in Model : gauge'[m] = counts[m]
    BY SMTT(60), <1>0, <2>1 DEF GaugeInv
  <2>4. gauge' = counts
    BY ZenonT(60), <1>0, <2>1, <2>3
  <2>5. \A v \in Worker : pc[v] = "publish" => v = w
    BY <1>0, <2>2, ZenonT(60) DEF Reporting
  <2>6. \A v \in Worker : pc'[v] # "publish"
    BY <2>2, <2>5
  <2>7. Pending' <=> Pending
    BY ZenonT(60), <2>2 DEF Pending, Critical
  <2>8. EntryCountsByModel' = EntryCountsByModel
    BY <2>1 DEF EntryCountsByModel, isReservedTenant
  <2>9. ~Pending => gauge' = EntryCountsByModel
    BY ZenonT(60), <2>2, <2>4 DEF GaugeInv
  <2>10. \A m \in Model : m \notin reportedModels' => gauge'[m] = 0
    BY SMTT(60), <1>0, <2>1, <2>3
  <2> QED BY ZenonT(60), <2>6, <2>7, <2>8, <2>9, <2>10 DEF GaugeInv
<1>6. CASE CreditHits \/ ReplaceSnapshot \/ Tick \/ UNCHANGED vars
  <2>1. UNCHANGED <<prefixes, gauge, reportedModels, counts, pc>>
    BY ZenonT(60), <1>6 DEF CreditHits, ReplaceSnapshot, Tick, vars, gaugeVars, dataVars
  <2>2. EntryCountsByModel' = EntryCountsByModel /\ (Pending' <=> Pending)
    BY <2>1 DEF EntryCountsByModel, isReservedTenant, Pending
  <2> QED BY ZenonT(60), <2>1, <2>2 DEF GaugeInv
<1> QED BY ZenonT(60), <1>2, <1>3, <1>4, <1>5, <1>6 DEF Next, Step

LEMMA GaugeInit == Init => GaugeInv
<1> SUFFICES ASSUME Init PROVE GaugeInv
  OBVIOUS
<1>1. EntryCountsByModel = [m \in Model |-> 0]
  <2>1. \A m \in Model : {k \in prefixes : k.model = m /\ ~isReservedTenant(k.tenant)} = {}
    BY DEF Init
  <2> QED BY ZenonT(60), <2>1, FS_EmptySet DEF EntryCountsByModel
<1> QED BY ZenonT(60), <1>1 DEF Init, GaugeInv

(* Once every handler has returned, the gauge shows the live per-model     *)
(* counts, whatever order the reporters of reportEntries ran in: reportMu  *)
(* keeps a count and its publication together.                             *)
THEOREM GaugeTheorem == Spec => []GaugeAtRest
<1>1. Books /\ GaugeInv => GaugeAtRest
  <2> SUFFICES ASSUME Books, GaugeInv, \A w \in Worker : pc[w] = "idle", NEW m \in Model
               PROVE  gauge[m] = Cardinality({x[1] : x \in {y \in RealEntries : y[1].model = m}})
    BY ZenonT(60) DEF GaugeAtRest
  <2>1. ~Pending /\ \A w \in Worker : pc[w] # "publish"
    BY DEF Pending, Critical
  <2>2. gauge = EntryCountsByModel
    BY ZenonT(60), <2>1 DEF GaugeInv
  <2>3. {k \in prefixes : k.model = m /\ ~isReservedTenant(k.tenant)}
          = {x[1] : x \in {y \in RealEntries : y[1].model = m}}
    <3>1. prefixes = {x[1] : x \in DOMAIN entries}
      BY DEF Books, IndexConsistent, DataConsistent
    <3> QED BY <3>1, ZenonT(60) DEF RealEntries, isReservedTenant
  <2> QED BY ZenonT(60), <2>2, <2>3 DEF EntryCountsByModel
<1> QED BY BooksInvariant, GaugeInit, GaugeStep, <1>1, PTL DEF Spec
=============================================================================
