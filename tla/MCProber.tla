------------------------------ MODULE MCProber ------------------------------
(* Small instances of Prober, told as four stories: "book", the index's    *)
(* writer and its sweep without probes; "write", an admitted call beside a *)
(* writer; "sweep", two overlapping calls beside the sweep; "auth", calls  *)
(* that get no further than the middleware because their bodies are        *)
(* refused.                                                                *)
EXTENDS Prober, MCPrefixIndex, TLC

VARIABLE story

MCProbeReplicaID(b) == "p1"
MCProbeHash(b, m, s) == IF m = "m2" THEN "h3" ELSE IF s = "s1" THEN "h1" ELSE "h2"

(* Overlapping runs for one backend: the same body twice, another scheme   *)
(* of the model, another model; one body lacks its scheme.                 *)
Body(m, s, type) == [backend |-> "b1", model |-> m, hashScheme |-> s, backendType |-> type]
MCRequests == {Body("m1", "s1", ""), Body("m1", "s2", "Mooncake"), Body("m2", "s1", "LMCache"), Body("m1", "", "")}

(* Every bookkeeping path: two schemes, two adapter partitions, two        *)
(* replicas, two models, a malformed chain, stats without a scheme, and    *)
(* all four kinds of event.                                                *)
PlainPolicies ==
  {[ttl |-> [t \in Tenant |-> 0], quota |-> [t \in Tenant |-> NoQuota], lfu |-> {}]}

BookUpdates ==
  {NewUpdate("t1", "m1", "s1", "", "r1", {Legacy("", "h1")}, TRUE),
   NewUpdate("t1", "m1", "s1", "a1", "r2", {Legacy("", "h1"), Chain("", {"h2"}, 2, "")}, FALSE),
   NewUpdate("t1", "m1", "s2", "", "r1", {Chain("a1", {"h2"}, 1, "h1")}, FALSE),
   NewUpdate("t1", "m2", "s1", "", "r1", {Legacy("", "")}, FALSE),
   NewUpdate("t1", "m1", "", "", "r1", {Legacy("", "h1")}, TRUE)}

NewEvent(ty, h, a) ==
  [type |-> ty, tenant |-> "t1", model |-> "m1", replica |-> "r1",
   prefixHash |-> h, adapter |-> a, timestamp |-> ZeroTime]

BookEvents ==
  {NewEvent("evicted", "h1", ""), NewEvent("evicted", "h1", "a1"),
   NewEvent("cleared", "", ""), NewEvent("updated", "", ""), NewEvent("added", "h1", "")}

RealUpdates == {NewUpdate("t1", "m1", "s1", "", "r1", {Chain("", {"h1", "h2"}, 2, "")}, TRUE),
                NewUpdate("t1", "m2", "s1", "", "r1", {Legacy("", "h1")}, FALSE)}

MCUpdates ==
  BookUpdates \cup RealUpdates \cup
  {[NewUpdate("probe", q.model, q.hashScheme, "", "p1", {Chain("", {MCProbeHash("b1", q.model, q.hashScheme)}, 1, "")}, TRUE)
      EXCEPT !.timestamp = ts] : q \in MCRequests, ts \in 1..MaxClock}

MCEvents ==
  BookEvents \cup
  {[type |-> "cleared", tenant |-> "probe", model |-> q.model, replica |-> "p1", prefixHash |-> "",
    adapter |-> "", timestamp |-> ts] : q \in MCRequests, ts \in 1..MaxClock}

(* The calls carry a token that was just confirmed. *)
Admitted(ws) ==
  /\ call = [w \in Probers |-> IF w \in ws THEN [at |-> "admitted", token |-> "k1"] ELSE Waiting]
  /\ accepted = Token
  /\ confirmed = [tok \in Token |-> IF tok = "k1" THEN clock ELSE ZeroTime]
  /\ authCache = ("k1" :> clock + CacheTTL)

MCInit ==
  /\ Init /\ AtRest
  /\ \/ story = "book" /\ AuthInit /\ accepted = {}
     \/ story = "auth" /\ AuthInit
     \/ story = "write" /\ Admitted({"w1"})
     \/ story = "sweep" /\ Admitted(Probers)

(* What the writers of each story do; the sweep has no request. *)
Inputs == CASE story = "book" -> BookUpdates \cup BookEvents \cup {NoRequest}
            [] story = "write" -> RealUpdates
            [] story = "sweep" -> {NoRequest}

MCNext ==
  /\ UNCHANGED story
  /\ \/ /\ story # "auth"
        /\ \/ \E w \in Worker \ Probers : Writers(w) /\ request'[w] \in Inputs
           \/ \E w \in Worker : IndexStep(w)
           \/ clock < 2 /\ Environment /\ UNCHANGED accepted
     \/ /\ story \in {"write", "sweep"} /\ \E w \in Probers : Run(w)
        /\ story = "sweep" => probe'["w1"].req \in {NoRequest, Body("m1", "s1", "")}
     \/ /\ story = "auth"
        /\ \/ \E w \in Probers : Middleware(w) \/ (probeHandler(w) /\ UNCHANGED probe)
           \/ Environment

MCSpec == MCInit /\ [][MCNext]_<<allVars, story>> /\ ProbeFairness
=============================================================================
