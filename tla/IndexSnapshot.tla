--------------------------- MODULE IndexSnapshot ----------------------------
(***************************************************************************)
(* The read side of the index that feeds observability: the prefix counts, *)
(* the cluster-wide snapshot behind /snapshot, and the per-namespace state *)
(* behind GetCacheState.                                                   *)
(*                                                                         *)
(* held is the set of (prefix key, replica) entries and stats the set of   *)
(* statistics entries; seen is the time an entry was last refreshed, 0     *)
(* standing for the zero time.  A hit rate is a whole number of            *)
(* RateUnit-ths.                                                           *)
(***************************************************************************)
EXTENDS Integers, FiniteSets, FiniteSetsExt

CONSTANTS
  ReservedTenants,  \* tenants kept out of every operator-visible surface
  RateUnit          \* the denominator of a rate

PrefixKey(e) == <<e.tenant, e.model, e.hash>>
TenantReplica(r) == <<r.tenant, r.replica>>

Visible(rows) == {r \in rows : r.tenant \notin ReservedTenants}

MaxOrZero(S) == Max(S \cup {0})

(* One walk of the prefix map gives the tenants' counts and their total.   *)
aggregateLocked(held) ==
  LET keys == {PrefixKey(e) : e \in Visible(held)}
  IN [perTenant |-> [t \in {k[1] : k \in keys} |-> Cardinality({k \in keys : k[1] = t})],
      total |-> Cardinality(keys)]

EntryCountsByModel(held) ==
  LET keys == {PrefixKey(e) : e \in Visible(held)}
  IN [m \in {k[2] : k \in keys} |-> Cardinality({k \in keys : k[2] = m})]

CacheState(held, stats, tenant, model) ==
  [replicas |-> {s \in stats : s.tenant = tenant /\ s.model = model},
   totalPrefixes |-> Cardinality({PrefixKey(e) : e \in {e \in held : e.tenant = tenant /\ e.model = model}})]

(* The statistics of a replica's most recently refreshed model.            *)
latestByReplica(stats) ==
  {s \in Visible(stats) :
     \A o \in Visible(stats) : TenantReplica(o) = TenantReplica(s) => o.seen <= s.seen}

NoStats == [hit |-> 0, t2hit |-> 0, t2query |-> 0, seen |-> 0]

(* A row for every replica with statistics or with prefixes.               *)
ReplicaRow(held, latest, tr) ==
  LET own == {s \in latest : TenantReplica(s) = tr}
      s == IF own = {} THEN NoStats ELSE CHOOSE x \in own : TRUE
      entries == {e \in held : TenantReplica(e) = tr}
  IN [tenant |-> tr[1], replica |-> tr[2], statsReported |-> own # {},
      hit |-> s.hit, t2hit |-> s.t2hit, t2query |-> s.t2query, lastUpdate |-> s.seen,
      prefixCount |-> Cardinality(entries), lastEventAt |-> MaxOrZero({e.seen : e \in entries})]

(* The tenants with prefixes or with statistics; the hit rate is a mean.   *)
TenantRow(agg, latest, t) ==
  LET own == {s \in latest : s.tenant = t}
  IN [entries |-> IF t \in DOMAIN agg.perTenant THEN agg.perTenant[t] ELSE 0,
      hitReported |-> own # {},
      hit |-> IF own = {} THEN 0 ELSE MapThenSumSet(LAMBDA s : s.hit, own) \div Cardinality(own)]

Snapshot(held, stats) ==
  LET latest == latestByReplica(stats)
      agg == aggregateLocked(held)
      rows == Visible(held)
  IN [total |-> agg.total,
      replicas |-> {ReplicaRow(rows, latest, tr) : tr \in {TenantReplica(r) : r \in rows}
                                                   \cup {TenantReplica(r) : r \in latest}},
      tenants |-> [t \in DOMAIN agg.perTenant \cup {s.tenant : s \in latest} |->
                     TenantRow(agg, latest, t)]]
=============================================================================
