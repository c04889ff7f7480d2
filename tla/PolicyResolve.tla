--------------------------- MODULE PolicyResolve ----------------------------
(***************************************************************************)
(* How the ControlPlaneReconciler flattens CachePolicy and CacheTenant     *)
(* resources: which of several resources with one key counts.  The pusher  *)
(* uses it, and the status writer has to agree with it.                    *)
(*                                                                         *)
(* A resource is a record with its namespace and name, the key the store   *)
(* files it under (a policy's namespace, a tenant's tenantID) and a value; *)
(* NoValue is a tenant without a budget.                                   *)
(***************************************************************************)
EXTENDS Integers, FiniteSets, Sequences

CONSTANTS
  NoKey,         \* the empty namespace or tenant id
  NoValue,
  NameBefore(_, _)  \* the order of two strings

Resource == [namespace : STRING, name : STRING, key : STRING, value : Nat \cup {NoValue}]

Identity(cr) == <<cr.namespace, cr.name>>

Before(a, b) == \/ NameBefore(a.namespace, b.namespace)
                \/ a.namespace = b.namespace /\ NameBefore(a.name, b.name)

Sorted(items) ==
  LET first(S) == CHOOSE cr \in S : \A o \in S \ {cr} : Before(cr, o)
      sorted[S \in SUBSET items] == IF S = {} THEN <<>> ELSE <<first(S)>> \o sorted[S \ {first(S)}]
  IN sorted[items]

(* Mutant: whichever resource the list returns last wins. *)
firstPerKey_Last(s) == [k \in {s[i].key : i \in DOMAIN s} |->
                          s[CHOOSE i \in DOMAIN s : s[i].key = k
                                /\ \A j \in DOMAIN s : s[j].key = k => j <= i]]

(* The first of a sorted run files the key; the rest of it is skipped.     *)
firstPerKey(s) == [k \in {s[i].key : i \in DOMAIN s} |->
                     s[CHOOSE i \in DOMAIN s : s[i].key = k
                           /\ \A j \in DOMAIN s : s[j].key = k => i <= j]]

resolvePolicies(items) == firstPerKey(Sorted(items))

(* A tenant without an id or a budget is no candidate.                     *)
resolveOneTenant(cr) == cr.key # NoKey /\ cr.value # NoValue

resolveTenants(items) == firstPerKey(SelectSeq(Sorted(items), resolveOneTenant))
=============================================================================
