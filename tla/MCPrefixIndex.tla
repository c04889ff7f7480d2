--------------------------- MODULE MCPrefixIndex ---------------------------
(* Small instances of PrefixIndex.  Names are strings; Order lists them    *)
(* lexicographically and gives the code's tie-break order.                 *)
EXTENDS PrefixIndex, Sequences

Order == <<"", "a1", "h1", "h2", "h3", "m1", "m2", "p1", "probe", "r1", "r2", "s1", "s2", "t1", "t2">>
Rank(s) == CHOOSE i \in 1..Len(Order) : Order[i] = s

MCKeyRank(k) ==
  (((Rank(k.tenant) * 20 + Rank(k.model)) * 20 + Rank(k.hashScheme)) * 20
    + Rank(k.adapter)) * 20 + Rank(k.prefixHash)

Legacy(a, h) == [adapter |-> a, prefixHash |-> h, blockHashes |-> {}, blockTokenCounts |-> 0]
Chain(a, hs, n, h) == [adapter |-> a, prefixHash |-> h, blockHashes |-> hs, blockTokenCounts |-> n]

NewUpdate(t, m, s, a, r, ps, st) ==
  [tenant |-> t, model |-> m, replica |-> r, hashScheme |-> s, adapter |-> a,
   timestamp |-> ZeroTime, prefixes |-> ps, stats |-> st]

(* Two real tenants and the probe tenant compete for a cap of 2; the       *)
(* policy raises the TTL, gives t1 a quota of 1 and t2 LFU, or takes that  *)
(* back, at any time; t2's reports carry their own timestamp.              *)
BudgetPolicies ==
  {[ttl |-> [t \in Tenant |-> 0], quota |-> [t \in Tenant |-> NoQuota], lfu |-> {}],
   [ttl |-> [t \in Tenant |-> 2],
    quota |-> [t \in Tenant |-> IF t = "t1" THEN 1 ELSE NoQuota], lfu |-> {"t2"}]}

BudgetUpdates ==
  {NewUpdate("t1", "m1", "s1", "", "r1", {Chain("", {"h1", "h2"}, 2, "")}, TRUE),
   [NewUpdate("t2", "m1", "s1", "", "r1", {Legacy("", "h1")}, FALSE) EXCEPT !.timestamp = 1],
   NewUpdate("probe", "m1", "s1", "", "r1", {Legacy("", "h1")}, FALSE)}

(* The engine of t1 evicts the first block of the chain.                   *)
BudgetEvents ==
  {[type |-> "evicted", tenant |-> "t1", model |-> "m1", replica |-> "r1",
    prefixHash |-> "h1", adapter |-> "", timestamp |-> ZeroTime]}
=============================================================================
