---------------------------- MODULE MCPolicyPush ----------------------------
(* Small instances of PolicyAdmission with PolicyPush.  Story "push": two  *)
(* policies that share a namespace, two tenants of different namespaces    *)
(* that claim one tenant id, one without a budget and one with none to     *)
(* spend, change freely beside both pushers.                               *)
(* Stories "policy" and "tenant": two clients write resources of one kind  *)
(* through the webhooks, with or without what an earlier release left      *)
(* behind (a tenant without id among it), and then the result is pushed.   *)
EXTENDS PolicyAdmission

VARIABLE story

Order == <<"", "n1", "n2", "probe", "t", "x", "y", "z">>
Rank(s) == CHOOSE i \in DOMAIN Order : Order[i] = s
MCNameBefore(a, b) == Rank(a) < Rank(b)

CR(ns, n, k, v) == [namespace |-> ns, name |-> n, key |-> k, value |-> v]

FreePolicies == {CR("n1", "x", "n1", 1), CR("n1", "y", "n1", 2)}
FreeTenants == {CR("n1", "x", "t", NoValue), CR("n2", "x", "t", 0)}

(* Values of policies: 1 and 2 are well-formed, 3 and 4 have a bad TTL, 5  *)
(* requires chains and does not match them.                                *)
MCPolicySpec(v) ==
  [ttl |-> CASE v = 2 -> {1} [] v = 3 -> {0} [] v = 4 -> {-1} [] OTHER -> {},
   enableChainMatching |-> IF v = 5 THEN {FALSE} ELSE {},
   requireChain |-> IF v = 5 THEN {TRUE} ELSE {}]

LegacyPolicies == {CR("n1", "y", "n1", 3), CR("n1", "z", "n1", 2)}
LegacyTenants == {CR("n2", "y", "", 1), CR("n1", "y", "probe", 1), CR("n1", "z", "probe", NoValue)}
MCPolicies == FreePolicies \cup LegacyPolicies \cup {CR("n1", "y", "n1", 4), CR("n1", "y", "n1", 5)}
MCTenants == FreeTenants \cup LegacyTenants \cup {CR("n1", "y", "t", 1), CR("n1", "x", "probe", 1)}

MCInit ==
  /\ story \in {"push", "policy", "tenant"}
  /\ writes = [c \in Client |-> {}] /\ told = {}
  /\ \/ Init
     \/ story = "policy" /\ InitWith(LegacyPolicies, {})
     \/ story = "tenant" /\ InitWith({}, LegacyTenants)

(* The pushers of the stories "policy" and "tenant" run once the clients   *)
(* are done.                                                               *)
Writing == store = EmptyStore /\ \A w \in Pusher : pc[w] = "idle"
Done == \A c \in Client : writes[c] = {}

MCNext ==
  /\ UNCHANGED story
  /\ \/ /\ story = "push" /\ Next /\ UNCHANGED admissionVars
        /\ policies'.items \subseteq FreePolicies /\ tenants'.items \subseteq FreeTenants
     \/ story # "push" /\ Writing /\ Admission(story)
     \/ /\ story # "push" /\ Done /\ UNCHANGED admissionVars
        /\ \/ WatchPolicies \/ WatchTenants \/ Reconcile \/ Start
           \/ \E w \in Pusher : Push(w)

MCSpec == MCInit /\ [][MCNext]_<<vars, admissionVars, story>> /\ Fairness
=============================================================================
