------------------------- MODULE LookupCallProofs ---------------------------
(* Lemmas about LookupRoute's calls: the steps of one handler keep its     *)
(* call well formed and say to the contract nothing, or one legal answer,  *)
(* for every request, update and policy and every length of a chain.       *)
EXTENDS LookupRoute, FiniteSetTheorems, WellFoundedInduction, NaturalsInduction, TLAPS

Fields == {"pc", "req", "budget", "deadline", "done", "chain", "resolver", "in", "lk", "result",
           "answer", "pols", "ever", "always"}

Early == {"idle", "budget", "chain", "gate"}
Late == {"admit", "admit_affinity", "lookup", "hot_gate", "min_prefix", "min_matched", "floor",
         "affinity", "pick", "deliver"}

(* The LFU credit of a result is that of its scores, one replica an entry. *)
HitsOK(scores, hits) ==
  /\ \A r \in DOMAIN hits : \E s \in scores : s.replica = r /\ s.run = hits[r]
  /\ \A s \in scores : s.run # {} => s.replica \in DOMAIN hits /\ hits[s.replica] = s.run
  /\ \A q, r \in DOMAIN hits : q # r => hits[q] \cap hits[r] = {}

ResultOK(res) ==
  /\ DOMAIN res = {"strategy", "scores", "hits", "unit"}
  /\ res.strategy \in {"none", "prefix_match", "tenant_hot", "unknown_tenant", "unknown_model",
                       "unknown_hash_scheme"}
  /\ res.scores # {} <=> res.strategy \in {"prefix_match", "tenant_hot"}
  /\ res.strategy # "prefix_match" => \A s \in res.scores : s.run = {}
  /\ HitsOK(res.scores, res.hits)

Seeded(in) == canonicalAffinitySeed(in) \in Seeds \cup {<<>>}

(* A goroutine encodes only for a request that is resolved by tokenizing,  *)
(* and past the resolution a request that is only text has its tokens.     *)
CallOK(c) ==
  /\ DOMAIN c = Fields
  /\ c.pc = "answered" <=> c.answer # {}
  /\ c.resolver = "encode" => InputKind(c.req, c.chain) = "text"
  /\ c.resolver \in {"none", "start", "encode", "done"}
  /\ c.pc \in Early => c.resolver = "none"
  /\ c.resolver = "none" => c.pc \in Early \cup {"answered"}
  /\ c.in.echo \in BOOLEAN /\ (c.in.echo = TRUE => Given(c.req.text))
  /\ c.resolver = "done" /\ TextOnly(c.req) => c.in.failOpen \/ c.in.echo
  /\ c.pc \in Late => c.resolver = "done" /\ ~c.in.failOpen
  /\ c.pc \in {"min_matched", "floor"} => c.result.strategy = "prefix_match"
  /\ c.pc # "idle" => c.req \in Requests
  /\ c.in.chain # <<>> => Len(c.in.chain) \in Nat \ {0}
  /\ Seeded(c.in)
  /\ ResultOK(c.result)

CallsOK == DOMAIN call = Handler /\ \A h \in Handler : CallOK(call[h])

Encoding == {h \in Handler : At(h, "resolve") /\ call[h].resolver = "encode"}

(* The contract's view of a step of one handler: nothing, or one legal     *)
(* answer with the credit of its entries.                                  *)
Keeps(h) ==
  /\ CallsOK' /\ call[h].pc # "idle" /\ call'[h].pc # "idle" /\ call'[h].req = call[h].req
  /\ \A g \in Handler \ {h} : call'[g] = call[g]
Silent(h) == Keeps(h) /\ call'[h].answer = call[h].answer /\ UNCHANGED access
Speaks(h) ==
  /\ Keeps(h) /\ call[h].answer = {}
  /\ \E a : /\ call'[h].answer = {a} /\ Contract!Legal(Asked(call[h].req), a)
            /\ access' = [e \in Entries |-> access[e] + IF e \in a.entries THEN 1 ELSE 0]

LEMMA NoResultOK == ResultOK(NoResult)
BY DEF ResultOK, NoResult, NoScores, HitsOK

LEMMA NoInputsSeeded == Seeded(NoInputs)
BY DEF Seeded, canonicalAffinitySeed, NoInputs

LEMMA IdleOK == CallOK(Idle)
BY NoResultOK, NoInputsSeeded, ZenonT(60) DEF CallOK, Idle, Fields, Early, Late, NoInputs, TextOnly

LEMMA ChangeFacts ==
  ASSUME CallsOK, NEW h \in Handler, NEW c, Change(h, c)
  PROVE  DOMAIN call' = Handler /\ call'[h] = c /\ \A g \in Handler \ {h} : call'[g] = call[g]
BY ZenonT(60) DEF CallsOK, Change

LEMMA ChangeOK ==
  ASSUME CallsOK, NEW h \in Handler, NEW c, Change(h, c), CallOK(c)
  PROVE  CallsOK'
<1>1. DOMAIN call' = Handler /\ \A g \in Handler : CallOK(call'[g])
  BY ChangeFacts DEF CallsOK
<1> QED BY <1>1 DEF CallsOK, CallOK, InputKind, Given, CarriesChain, TextOnly, ResultOK, HitsOK

(* A handler that only moves on.                                           *)
LEMMA GoesOK ==
  ASSUME CallsOK, NEW h \in Handler, NEW place \in Late, Goes(h, place), call[h].pc # "answered",
         call[h].resolver = "done", ~call[h].in.failOpen, call[h].pc # "idle",
         place \in {"min_matched", "floor"} => call[h].result.strategy = "prefix_match"
  PROVE  Silent(h) /\ call'[h].pc = place
<1> DEFINE c == [call[h] EXCEPT !.pc = place]
<1>1. Change(h, c) /\ UNCHANGED access
  BY DEF Goes
<1>2. CallOK(c) /\ c.pc = place /\ c.req = call[h].req /\ c.answer = call[h].answer
  BY DEF CallsOK, CallOK, Fields, Early, Late
<1>3. c.pc # "idle"
  BY <1>2 DEF Late
<1> HIDE DEF c
<1> QED BY <1>1, <1>2, <1>3, ChangeFacts, ChangeOK, ZenonT(60) DEF Silent, Keeps

LEMMA DowngradeOK ==
  ASSUME CallsOK, NEW h \in Handler, Downgrade(h), call[h].pc \in Late
  PROVE  Silent(h) /\ call'[h].pc = "affinity"
<1> DEFINE c == [call[h] EXCEPT !.pc = "affinity", !.result = NoResult]
<1>1. Change(h, c) /\ UNCHANGED access
  BY DEF Downgrade
<1>2. CallOK(c) /\ c.pc = "affinity" /\ c.req = call[h].req /\ c.answer = call[h].answer
  BY NoResultOK DEF CallsOK, CallOK, Fields, Early, Late
<1>3. call[h].pc # "idle"
  BY DEF Late
<1> HIDE DEF c
<1> QED BY <1>1, <1>2, <1>3, ChangeFacts, ChangeOK DEF Silent, Keeps

(* An answer that leaves the index alone.                                  *)
LEMMA AnswersOK ==
  ASSUME CallsOK, access \in [Entries -> Nat], NEW h \in Handler, NEW reason, NEW scores, NEW echo,
         Answers(h, reason, scores, echo), call[h].pc \notin {"idle", "answered"},
         \A s \in scores : s.run = {},
         Contract!Legal(Asked(call[h].req), [reason |-> reason, scores |-> scores,
           replicas |-> {s.replica : s \in scores}, entries |-> {}, echo |-> echo])
  PROVE  Speaks(h) /\ call'[h].pc = "answered"
<1> DEFINE a == [reason |-> reason, scores |-> scores, replicas |-> {s.replica : s \in scores},
                 entries |-> {}, echo |-> echo]
           c == [call[h] EXCEPT !.pc = "answered", !.answer = {a}]
<1>0. UNION {s.run : s \in scores} = {}
  OBVIOUS
<1>1. Change(h, c) /\ UNCHANGED access
  BY <1>0, ZenonT(60) DEF Answers, Reply
<1>2. CallOK(c) /\ c.pc = "answered" /\ c.req = call[h].req /\ c.answer = {a}
  BY ZenonT(60) DEF CallsOK, CallOK, Fields, Early, Late
<1>3. call[h].answer = {}
  BY DEF CallsOK, CallOK
<1>4. a.entries = {} /\ Contract!Legal(Asked(call[h].req), a)
  OBVIOUS
<1> HIDE DEF c, a
<1>5. access' = [e \in Entries |-> access[e] + IF e \in a.entries THEN 1 ELSE 0]
  BY <1>1, <1>4
<1>6. Keeps(h) /\ call'[h].answer = {a} /\ call'[h].pc = "answered"
  BY <1>1, <1>2, ChangeFacts, ChangeOK DEF Keeps
<1> QED BY <1>3, <1>4, <1>5, <1>6, ZenonT(60) DEF Speaks

(* Timeouts, refusals and misses name no replica.                          *)
LEMMA MissOK ==
  ASSUME CallsOK, access \in [Entries -> Nat], NEW h \in Handler, call[h].pc \notin {"idle", "answered"},
         NEW reason \in {"TIMEOUT", "NO_HINT", "POLICY_REQUIRES_CHAIN"}, NEW echo \in {FALSE, call[h].in.echo},
         Answers(h, reason, {}, echo)
  PROVE  Speaks(h) /\ call'[h].pc = "answered"
<1> DEFINE a == [reason |-> reason, scores |-> {}, replicas |-> {s.replica : s \in {}}, entries |-> {}, echo |-> echo]
<1>1. a.replicas = {} /\ a.entries = {} /\ a.reason = reason /\ a.echo = echo
  OBVIOUS
<1>2. echo = TRUE => Given(call[h].req.text)
  BY ZenonT(60) DEF CallsOK, CallOK
<1>3. echo \in BOOLEAN
  BY ZenonT(60) DEF CallsOK, CallOK
<1>4. Contract!Legal(Asked(call[h].req), a)
  BY <1>1, <1>2, <1>3, ZenonT(60) DEF Contract!Legal, Contract!Hint, Contract!Miss, Asked
<1> QED BY <1>4, AnswersOK, ZenonT(60)

LEMMA SilentOK ==
  ASSUME CallsOK, NEW h \in Handler, NEW c, Change(h, c), UNCHANGED access, CallOK(c),
         c.req = call[h].req, c.answer = call[h].answer, call[h].pc # "idle", c.pc # "idle"
  PROVE  Silent(h) /\ call'[h] = c
BY ChangeFacts, ChangeOK DEF Silent, Keeps

Encodes(c) == c.pc = "resolve" /\ c.resolver = "encode"

(* A step that neither takes nor returns a slot.                           *)
Steps(h) == (Silent(h) \/ Speaks(h)) /\ ~Encodes(call[h]) /\ ~Encodes(call'[h])

LEMMA BudgetOK ==
  ASSUME CallsOK, access \in [Entries -> Nat], NEW h \in Handler, Budget(h)
  PROVE  Steps(h)
<1>1. call[h].pc = "budget" /\ ~Encodes(call[h])
  BY DEF Budget, At, Encodes
<1>2. CASE call[h].req.tenant = ProbeTenantID
  <2>1. Answers(h, "NO_HINT", {}, call[h].in.echo)
    BY <1>2 DEF Budget, noHintResponse
  <2> QED BY <1>1, <2>1, MissOK, ZenonT(60) DEF Steps, Encodes
<1>3. CASE call[h].req.tenant # ProbeTenantID
  <2> DEFINE c == [call[h] EXCEPT !.pc = "chain", !.budget = HasLookupTimeout(policy),
                                  !.deadline = HasLookupTimeout(policy) \/ call[h].req.deadline]
  <2>1. Change(h, c) /\ UNCHANGED access
    BY <1>3 DEF Budget
  <2>2. CallOK(c) /\ c.pc = "chain" /\ c.req = call[h].req /\ c.answer = call[h].answer
    BY <1>1, ZenonT(60) DEF CallsOK, CallOK, Fields, Early, Late
  <2> HIDE DEF c
  <2> QED BY <1>1, <2>1, <2>2, SilentOK DEF Steps, Encodes
<1> QED BY <1>2, <1>3

LEMMA ReadChainMatchingOK ==
  ASSUME CallsOK, NEW h \in Handler, ReadChainMatching(h)
  PROVE  Steps(h)
<1>1. call[h].pc = "chain" /\ ~Encodes(call[h]) /\ call[h].resolver = "none"
  BY DEF ReadChainMatching, At, Encodes, CallsOK, CallOK, Early
<1> DEFINE enabled == ChainMatchingEnabled(policy)
           c == [call[h] EXCEPT !.pc = "gate", !.chain = enabled,
                                !.deadline = @ \/ willTokenize(call[h].req, enabled)]
<1>2. Change(h, c) /\ UNCHANGED access
  BY DEF ReadChainMatching
<1>3. CallOK(c) /\ c.pc = "gate" /\ c.req = call[h].req /\ c.answer = call[h].answer
  BY <1>1 DEF CallsOK, CallOK, Fields, Early, Late
<1> HIDE DEF c
<1> QED BY <1>1, <1>2, <1>3, SilentOK, ZenonT(60) DEF Steps, Encodes

LEMMA ChainGateOK ==
  ASSUME CallsOK, access \in [Entries -> Nat], NEW h \in Handler, ChainGate(h)
  PROVE  Steps(h)
<1>1. call[h].pc = "gate" /\ ~Encodes(call[h])
  BY DEF ChainGate, At, Encodes
<1>2. CASE Answers(h, "TIMEOUT", {}, FALSE) \/ Answers(h, "POLICY_REQUIRES_CHAIN", {}, FALSE)
  BY <1>1, <1>2, MissOK, ZenonT(60) DEF Steps, Encodes
<1> DEFINE c == [call[h] EXCEPT !.pc = "resolve", !.resolver = "start"]
<1>3. CASE Change(h, c) /\ UNCHANGED access
  <2>1. /\ CallOK(c) /\ c.pc = "resolve" /\ c.resolver = "start" /\ c.req = call[h].req
        /\ c.answer = call[h].answer
    BY <1>1 DEF CallsOK, CallOK, Fields, Early, Late
  <2> HIDE DEF c
  <2> QED BY <1>1, <1>3, <2>1, SilentOK, ZenonT(60) DEF Steps, Encodes
<1> QED BY <1>2, <1>3, ZenonT(60) DEF ChainGate, timeoutResponse, policyGateResponse

LEMMA TakeInputsOK ==
  ASSUME CallsOK, access \in [Entries -> Nat], NEW h \in Handler, TakeInputs(h)
  PROVE  Steps(h)
<1>1. call[h].pc = "resolve" /\ call[h].resolver = "done" /\ ~Encodes(call[h])
  BY DEF TakeInputs, At, Encodes
<1>2. CASE Answers(h, "TIMEOUT", {}, call[h].in.echo) \/ Answers(h, "NO_HINT", {}, call[h].in.echo)
  BY <1>1, <1>2, MissOK, ZenonT(60) DEF Steps, Encodes
<1>3. CASE Goes(h, "admit") /\ ~call[h].in.failOpen
  BY <1>1, <1>3, GoesOK, ZenonT(60) DEF Steps, Encodes, Late
<1> QED BY <1>2, <1>3 DEF TakeInputs, timeoutResponse, noHintResponse

(* Past the resolution.                                                    *)
LEMMA LateFacts ==
  ASSUME CallsOK, NEW h \in Handler, call[h].pc \in Late
  PROVE  /\ ~Encodes(call[h]) /\ call[h].pc \notin {"idle", "answered"} /\ call[h].answer = {}
         /\ call[h].resolver = "done" /\ ~call[h].in.failOpen
BY ZenonT(60) DEF CallsOK, CallOK, Late, Encodes

LEMMA LateGoes ==
  ASSUME CallsOK, NEW h \in Handler, call[h].pc \in Late, NEW place \in Late, Goes(h, place),
         place \in {"min_matched", "floor"} => call[h].result.strategy = "prefix_match"
  PROVE  Steps(h)
BY LateFacts, GoesOK DEF Steps, Encodes, Late

LEMMA LateMiss ==
  ASSUME CallsOK, access \in [Entries -> Nat], NEW h \in Handler, call[h].pc \in Late,
         Answers(h, "TIMEOUT", {}, call[h].in.echo) \/ Answers(h, "NO_HINT", {}, call[h].in.echo)
  PROVE  Steps(h)
BY LateFacts, MissOK, ZenonT(60) DEF Steps, Encodes

LEMMA LateDowngrade ==
  ASSUME CallsOK, NEW h \in Handler, call[h].pc \in Late, Downgrade(h)
  PROVE  Steps(h)
BY LateFacts, DowngradeOK, ZenonT(60) DEF Steps, Encodes

LEMMA GatesOK ==
  ASSUME CallsOK, access \in [Entries -> Nat], NEW h \in Handler,
         \/ Admit(h) \/ AdmitAffinity(h) \/ LookupTimeout(h) \/ TakeResult(h) \/ TenantHotGate(h)
         \/ MinimumPrefixGate(h) \/ RoutingFloorGate(h) \/ TryAffinity(h)
  PROVE  Steps(h)
<1>1. call[h].pc \in Late
  BY DEF Admit, AdmitAffinity, LookupTimeout, TakeResult, LookupAt, TenantHotGate, MinimumPrefixGate,
         RoutingFloorGate, TryAffinity, At, Late
<1>2. GateOf(call[h].result.strategy) \in Late \ {"min_matched", "floor"}
  BY ZenonT(60) DEF GateOf, Late
<1>3. \/ \E place \in Late : /\ Goes(h, place)
                             /\ place \in {"min_matched", "floor"} => call[h].result.strategy = "prefix_match"
      \/ Answers(h, "TIMEOUT", {}, call[h].in.echo) \/ Answers(h, "NO_HINT", {}, call[h].in.echo)
      \/ Downgrade(h)
  BY <1>2 DEF Admit, AdmitAffinity, LookupTimeout, TakeResult, TenantHotGate, MinimumPrefixGate,
              RoutingFloorGate, TryAffinity, timeoutResponse, noHintResponse, Late
<1>4. CASE Downgrade(h)
  BY <1>1, <1>4, LateDowngrade, ZenonT(60)
<1>5. CASE Answers(h, "TIMEOUT", {}, call[h].in.echo) \/ Answers(h, "NO_HINT", {}, call[h].in.echo)
  BY <1>1, <1>5, LateMiss, ZenonT(60)
<1>6. ASSUME NEW place \in Late, Goes(h, place),
             place \in {"min_matched", "floor"} => call[h].result.strategy = "prefix_match"
      PROVE  Steps(h)
  BY <1>1, <1>6, LateGoes, ZenonT(60)
<1> QED BY <1>3, <1>4, <1>5, <1>6, ZenonT(60)

LEMMA RetainOK ==
  ASSUME NEW res, ResultOK(res), res.strategy = "prefix_match", NEW keep,
         \E s \in res.scores : s.replica \in keep
  PROVE  ResultOK(RetainReplicas(res, keep))
<1> DEFINE new == RetainReplicas(res, keep)
<1>1. /\ DOMAIN new = {"strategy", "scores", "hits", "unit"} /\ new.strategy = "prefix_match"
      /\ new.scores = {s \in res.scores : s.replica \in keep}
      /\ new.hits = [r \in DOMAIN res.hits \cap keep |-> res.hits[r]]
  BY ZenonT(60) DEF ResultOK, RetainReplicas
<1> HIDE DEF new
<1>2. HitsOK(new.scores, new.hits)
  BY <1>1 DEF ResultOK, HitsOK
<1>3. new.scores # {}
  BY <1>1, ZenonT(60)
<1>4. ResultOK(new)
  BY <1>1, <1>2, <1>3, ZenonT(60) DEF ResultOK
<1> QED BY <1>4 DEF new

LEMMA FloorOK ==
  ASSUME CallsOK, NEW h \in Handler, applyMatchedTokensFloor(h)
  PROVE  Steps(h)
<1>1. call[h].pc = "min_matched" /\ call[h].pc \in Late /\ call[h].result.strategy = "prefix_match"
  BY DEF applyMatchedTokensFloor, At, Late, CallsOK, CallOK
<1> DEFINE keep == {s.replica : s \in {s \in call[h].result.scores : s.tokens >= MinimumMatchedTokens(policy)}}
           c == [call[h] EXCEPT !.pc = "floor", !.result = RetainReplicas(@, keep)]
<1>2. CASE Goes(h, "floor") \/ Downgrade(h)
  BY <1>1, <1>2, LateGoes, LateDowngrade, ZenonT(60) DEF Late
<1>3. CASE Change(h, c) /\ UNCHANGED access /\ keep # {}
  <2>1. ResultOK(RetainReplicas(call[h].result, keep))
    <3>1. ResultOK(call[h].result)
      BY DEF CallsOK, CallOK
    <3>2. \E s \in call[h].result.scores : s.replica \in keep
      BY <1>3
    <3> HIDE DEF keep
    <3> QED BY <1>1, <3>1, <3>2, RetainOK, ZenonT(60)
  <2> HIDE DEF keep
  <2>2. RetainReplicas(call[h].result, keep).strategy = "prefix_match"
    BY <1>1, ZenonT(60) DEF RetainReplicas, CallsOK, CallOK, ResultOK
  <2>3. CallOK(c) /\ c.pc = "floor" /\ c.req = call[h].req /\ c.answer = call[h].answer
    BY <1>1, <2>1, <2>2, ZenonT(60) DEF CallsOK, CallOK, Fields, Early, Late
  <2> HIDE DEF c
  <2> QED BY <1>1, <1>3, <2>3, SilentOK, LateFacts, ZenonT(60) DEF Steps, Encodes
<1> QED BY <1>2, <1>3, ZenonT(60) DEF applyMatchedTokensFloor

LEMMA PickAffinityOK ==
  ASSUME CallsOK, access \in [Entries -> Nat], NEW h \in Handler, PickAffinity(h)
  PROVE  Steps(h)
<1>1. call[h].pc = "pick" /\ call[h].pc \in Late
  BY ZenonT(60) DEF PickAffinity, At, Late
<1> DEFINE pick == AffinityHint(call[h].req, canonicalAffinitySeed(call[h].in))
           scores == {[replica |-> r, tokens |-> 0, tier |-> 0, run |-> {}, score |-> 0] : r \in pick}
           echo == call[h].in.echo
           a == [reason |-> "AFFINITY_HINT", scores |-> scores,
                 replicas |-> {s.replica : s \in scores}, entries |-> {}, echo |-> echo]
<1>2. CASE pick = {}
  BY <1>1, <1>2, LateGoes, ZenonT(60) DEF PickAffinity, Late
<1>3. CASE pick # {}
  <2>1. PICK r : pick = {r}
    BY <1>3, ZenonT(60) DEF AffinityHint
  <2>2. Answers(h, "AFFINITY_HINT", scores, echo)
    BY <1>3 DEF PickAffinity
  <2>3. (\A s \in scores : s.run = {}) /\ {s.replica : s \in scores} = {r}
    <3> DEFINE hint == [replica |-> r, tokens |-> 0, tier |-> 0, run |-> {}, score |-> 0]
    <3>1. scores = {hint} /\ hint.run = {} /\ hint.replica = r
      BY <2>1, ZenonT(60)
    <3> QED BY <3>1, ZenonT(60)
  <2>4. echo \in BOOLEAN /\ (echo = TRUE => Given(call[h].req.text))
        /\ (TextOnly(call[h].req) => echo = TRUE)
    BY <1>1, LateFacts DEF CallsOK, CallOK
  <2> HIDE DEF pick, scores, echo
  <2>5. a.replicas = {r} /\ a.entries = {} /\ a.reason = "AFFINITY_HINT" /\ a.echo = echo
    BY <2>3, ZenonT(60)
  <2>6. Contract!Legal(Asked(call[h].req), a)
    <3> HIDE DEF a
    <3>1. (\E one \in a.replicas : a.replicas = {one}) /\ a.replicas # {} /\ a.reason \in Contract!Hint
      BY <2>5, ZenonT(60) DEF Contract!Hint
    <3>2. (a.echo => Asked(call[h].req).text) /\ (Asked(call[h].req).textOnly => a.echo)
      BY <2>4, <2>5 DEF Asked
    <3>3. a.reason \in Contract!Hint \cup Contract!Miss
      BY <3>1, ZenonT(60)
    <3> QED BY <2>5, <3>1, <3>2, <3>3, ZenonT(60) DEF Contract!Legal
  <2>7. Speaks(h) /\ call'[h].pc = "answered"
    BY <1>1, <2>2, <2>3, <2>6, AnswersOK, LateFacts, ZenonT(60)
  <2> QED BY <1>1, <2>7, LateFacts DEF Steps, Encodes
<1> QED BY <1>2, <1>3, ZenonT(60)

(* The answer of a result, with the credit for what it delivers.           *)
LEMMA DeliverOK ==
  ASSUME CallsOK, access \in [Entries -> Nat], NEW h \in Handler, Deliver(h)
  PROVE  Steps(h)
<1>1. call[h].pc = "deliver" /\ call[h].pc \in Late
  BY DEF Deliver, At, Late
<1> DEFINE res == call[h].result
           echo == call[h].in.echo
           reason == reasonForStrategy(res.strategy)
           a == [reason |-> reason, scores |-> res.scores, replicas |-> {s.replica : s \in res.scores},
                 entries |-> UNION {s.run : s \in res.scores}, echo |-> echo]
           c == [call[h] EXCEPT !.pc = "answered", !.answer = {a}]
<1>2. Change(h, c) /\ CreditHits(res)
  BY ZenonT(60) DEF Deliver, Reply
<1>3. /\ ResultOK(res) /\ echo \in BOOLEAN /\ (echo = TRUE => Given(call[h].req.text))
      /\ (TextOnly(call[h].req) => echo = TRUE)
  BY <1>1, LateFacts DEF CallsOK, CallOK
<1>4. CallOK(c) /\ c.pc = "answered" /\ c.req = call[h].req /\ c.answer = {a}
  BY <1>1, ZenonT(60) DEF CallsOK, CallOK, Fields, Early, Late
<1> HIDE DEF res, echo, c
<1>5. Contract!Legal(Asked(call[h].req), a)
  <2>1. a.reason \in Contract!Hint <=> res.strategy \in {"prefix_match", "tenant_hot"}
    BY <1>3 DEF ResultOK, reasonForStrategy, Contract!Hint
  <2>2. a.replicas # {} <=> res.scores # {}
    OBVIOUS
  <2>3. a.entries # {} => a.reason = "PREFIX_MATCH"
    BY <1>3 DEF ResultOK, reasonForStrategy
  <2>4. a.reason \in Contract!Hint \cup Contract!Miss /\ a.reason # "AFFINITY_HINT"
    BY <1>3, ZenonT(60) DEF ResultOK, reasonForStrategy, Contract!Hint, Contract!Miss
  <2>5. a.echo = echo
    BY ZenonT(60)
  <2> HIDE DEF a
  <2> QED BY <1>3, <2>1, <2>2, <2>3, <2>4, <2>5, ZenonT(60) DEF Contract!Legal, Asked, ResultOK
<1>6. ASSUME NEW e \in Entries
      PROVE  Cardinality({r \in DOMAIN res.hits : e \in res.hits[r]}) = IF e \in a.entries THEN 1 ELSE 0
  <2> DEFINE S == {r \in DOMAIN res.hits : e \in res.hits[r]}
  <2>1. CASE e \in a.entries
    <3>1. PICK s \in res.scores : e \in s.run
      BY <2>1, ZenonT(60)
    <3>2. S = {s.replica}
      BY <1>3, <3>1 DEF ResultOK, HitsOK
    <3> QED BY <2>1, <3>2, FS_Singleton, ZenonT(60)
  <2>2. CASE e \notin a.entries
    <3>1. S = {}
      BY <1>3, <2>2 DEF ResultOK, HitsOK
    <3> QED BY <2>2, <3>1, FS_EmptySet, ZenonT(60)
  <2> QED BY <2>1, <2>2
<1> HIDE DEF a
<1>7. access' = [e \in Entries |-> access[e] + IF e \in a.entries THEN 1 ELSE 0]
  BY <1>2, <1>6, ZenonT(60) DEF CreditHits
<1>8. Keeps(h) /\ call'[h].answer = {a} /\ call'[h].pc = "answered"
  BY <1>1, <1>2, <1>4, ChangeFacts, ChangeOK, LateFacts, ZenonT(60) DEF Keeps
<1> QED BY <1>1, <1>5, <1>7, <1>8, LateFacts, ZenonT(60) DEF Steps, Speaks, Encodes

(* What a resolution hands to the lookup.                                  *)
InputsOK(req, in) ==
  /\ in.echo \in BOOLEAN /\ (in.echo = TRUE => Given(req.text))
  /\ TextOnly(req) => in.failOpen \/ in.echo
  /\ in.chain # <<>> => Len(in.chain) \in Nat \ {0}
  /\ Seeded(in)

LEMMA LengthOK == ASSUME NEW s, Finite(s), s # <<>> PROVE Len(s) \in Nat \ {0}
<1>1. Len(s) \in Nat /\ DOMAIN s = 1..Len(s) /\ s \in Seq(Range(s))
  BY DEF Finite
<1>2. Len(s) # 0
  BY <1>1
<1> QED BY <1>1, <1>2

LEMMA FingerprintedOK ==
  ASSUME NEW req \in Requests, NEW blocks \in {req.toks.blocks, req.text.blocks}, NEW chain,
         NEW echo \in BOOLEAN, Given(req.text) \/ ~echo, TextOnly(req) => echo
  PROVE  InputsOK(req, Fingerprinted(blocks, chain, echo))
<1> DEFINE in == Fingerprinted(blocks, chain, echo)
<1>1. Finite(blocks)
  BY ConstantAssumption, ZenonT(60)
<1>2. CASE blocks = <<>>
  <2>1. in.echo = echo /\ in.failOpen = TRUE /\ in.chain = <<>> /\ in.exact = NoHash
    BY <1>2 DEF Fingerprinted, FailOpen, NoInputs
  <2> HIDE DEF in
  <2>2. InputsOK(req, in)
    BY <2>1 DEF InputsOK, Seeded, canonicalAffinitySeed
  <2> QED BY <2>2 DEF in
<1>3. CASE blocks # <<>>
  <2>1. in.echo = echo /\ (in.chain = blocks \/ in.chain = <<>>) /\ in.exact = LastOf(blocks)
    BY <1>3, ZenonT(60) DEF Fingerprinted
  <2>2. {blocks, <<LastOf(blocks)>>} \subseteq Seeds
    BY <1>3 DEF Seeds, SeedsOf
  <2> HIDE DEF in
  <2>3. Seeded(in)
    BY <2>1, <2>2, ZenonT(60) DEF Seeded, canonicalAffinitySeed
  <2>4. InputsOK(req, in)
    BY <1>1, <1>3, <2>1, <2>3, LengthOK, ZenonT(60) DEF InputsOK
  <2> QED BY <2>4 DEF in
<1> QED BY <1>2, <1>3, ZenonT(60)

LEMMA FailOpenOK == ASSUME NEW req PROVE InputsOK(req, FailOpen)
BY DEF InputsOK, FailOpen, NoInputs, Seeded, canonicalAffinitySeed

LEMMA resolveLookupChainOK ==
  ASSUME NEW req \in Requests, NEW chain PROVE InputsOK(req, resolveLookupChain(req, chain))
<1> DEFINE in == resolveLookupChain(req, chain)
           exact == [NoInputs EXCEPT !.exact = req.ph, !.exactCount = req.phCount]
           kind == InputKind(req, chain)
<1>1. Finite(req.bh) /\ {req.bh, <<req.ph>>} \subseteq Seeds
  BY ConstantAssumption DEF Seeds
<1>2. \/ in = exact /\ kind = "exact"
      \/ in = [exact EXCEPT !.chain = req.bh, !.counts = req.btc] /\ kind = "explicit"
      \/ in = Fingerprinted(req.toks.blocks, chain, FALSE) /\ kind = "tokens"
      \/ in = FailOpen
  BY ZenonT(60) DEF resolveLookupChain
<1>3. TextOnly(req) => kind \notin {"exact", "explicit", "tokens"}
  BY DEF TextOnly, InputKind
<1> HIDE DEF kind
<1>4. CASE in = exact /\ kind = "exact"
  <2>1. exact.echo = FALSE /\ exact.chain = <<>> /\ exact.exact = req.ph
    BY DEF NoInputs
  <2> HIDE DEF exact, in
  <2>2. InputsOK(req, in)
    BY <1>1, <1>3, <1>4, <2>1, ZenonT(60) DEF InputsOK, Seeded, canonicalAffinitySeed
  <2> QED BY <2>2 DEF in
<1>5. CASE in = [exact EXCEPT !.chain = req.bh, !.counts = req.btc] /\ kind = "explicit"
  <2>1. in.echo = FALSE /\ in.chain = req.bh /\ in.exact = req.ph
    BY <1>5 DEF NoInputs
  <2> HIDE DEF exact, in
  <2>2. InputsOK(req, in)
    BY <1>1, <1>3, <1>5, <2>1, LengthOK, ZenonT(60) DEF InputsOK, Seeded, canonicalAffinitySeed
  <2> QED BY <2>2 DEF in
<1>6. CASE in = Fingerprinted(req.toks.blocks, chain, FALSE) /\ kind = "tokens"
  BY <1>1, <1>3, <1>6, FingerprintedOK, ZenonT(60)
<1>7. CASE in = FailOpen
  BY <1>7, FailOpenOK, ZenonT(60)
<1> QED BY <1>2, <1>4, <1>5, <1>6, <1>7, ZenonT(60)

(* The resolution ends, with or without an Encode behind it.               *)
LEMMA ResolvedOK ==
  ASSUME CallsOK, NEW h \in Handler, call[h].pc = "resolve", UNCHANGED access,
         NEW in, InputsOK(call[h].req, in), Resolved(h, in)
  PROVE  Silent(h) /\ ~Encodes(call'[h])
<1> DEFINE c == [call[h] EXCEPT !.resolver = "done", !.in = in]
<1>1. Change(h, c)
  BY DEF Resolved
<1>2. /\ CallOK(c) /\ c.pc = "resolve" /\ c.resolver = "done" /\ c.req = call[h].req
      /\ c.answer = call[h].answer
  BY ZenonT(60) DEF CallsOK, CallOK, Fields, Early, Late, InputsOK
<1> HIDE DEF c
<1> QED BY <1>1, <1>2, SilentOK DEF Encodes

LEMMA ResolveOK ==
  ASSUME CallsOK, NEW h \in Handler, Resolve(h)
  PROVE  /\ Silent(h) /\ ~Encodes(call[h]) /\ UNCHANGED orphans
         /\ \/ Encodes(call'[h]) /\ slots' = slots + 1 /\ slots < MaxConcurrentTokenize
            \/ ~Encodes(call'[h]) /\ slots' = slots
<1>1. /\ call[h].pc = "resolve" /\ call[h].resolver = "start" /\ ~Encodes(call[h])
      /\ UNCHANGED <<access, orphans>> /\ call[h].req \in Requests
  BY ZenonT(60) DEF Resolve, At, Encodes, CallsOK, CallOK
<1>2. CASE Tokenizes(h) /\ slots < MaxConcurrentTokenize
  <2> DEFINE c == [call[h] EXCEPT !.resolver = "encode"]
  <2>1. Change(h, c) /\ slots' = slots + 1
    BY <1>2, ZenonT(60) DEF Resolve
  <2>2. /\ CallOK(c) /\ c.pc = "resolve" /\ c.resolver = "encode" /\ c.req = call[h].req
        /\ c.answer = call[h].answer
    BY <1>1, <1>2, ZenonT(60) DEF CallsOK, CallOK, Fields, Early, Late, Tokenizes
  <2> HIDE DEF c
  <2> QED BY <1>1, <1>2, <2>1, <2>2, SilentOK, ZenonT(60) DEF Encodes
<1>3. CASE ~(Tokenizes(h) /\ slots < MaxConcurrentTokenize)
  <2>1. slots' = slots /\ Resolved(h, resolveLookupChain(call[h].req, call[h].chain))
    BY <1>3 DEF Resolve
  <2> QED BY <1>1, <2>1, resolveLookupChainOK, ResolvedOK, ZenonT(60)
<1> QED BY <1>2, <1>3, ZenonT(60)

LEMMA EncodeReturnsOK ==
  ASSUME CallsOK, NEW h \in Handler, EncodeReturns(h)
  PROVE  /\ Silent(h) /\ Encodes(call[h]) /\ ~Encodes(call'[h])
         /\ UNCHANGED orphans /\ slots' = slots - 1
<1>1. /\ call[h].pc = "resolve" /\ Encodes(call[h]) /\ UNCHANGED <<access, orphans>> /\ slots' = slots - 1
      /\ call[h].req \in Requests
  BY ZenonT(60) DEF EncodeReturns, At, Encodes, CallsOK, CallOK
<1>2. Given(call[h].req.text)
  BY <1>1 DEF CallsOK, CallOK, Encodes, InputKind
<1>3. /\ InputsOK(call[h].req, FailOpen)
      /\ InputsOK(call[h].req, Fingerprinted(call[h].req.text.blocks, call[h].chain, TRUE))
  BY <1>1, <1>2, FailOpenOK, FingerprintedOK, ZenonT(60)
<1>4. \/ Resolved(h, FailOpen)
      \/ Resolved(h, Fingerprinted(call[h].req.text.blocks, call[h].chain, TRUE))
  BY ZenonT(60) DEF EncodeReturns
<1> QED BY <1>1, <1>3, <1>4, ResolvedOK, ZenonT(60)

(* The handler leaves; its goroutine keeps the slot it has.                *)
LEMMA ResolveTimeoutOK ==
  ASSUME CallsOK, access \in [Entries -> Nat], NEW h \in Handler, ResolveTimeout(h)
  PROVE  /\ Speaks(h) /\ ~Encodes(call'[h]) /\ slots' = slots
         /\ \/ Encodes(call[h]) /\ orphans' = [orphans EXCEPT !["encode"] = @ + 1]
            \/ ~Encodes(call[h]) /\ orphans' = [orphans EXCEPT !["start"] = @ + 1]
            \/ ~Encodes(call[h]) /\ orphans' = orphans
<1>1. call[h].pc = "resolve" /\ Answers(h, "TIMEOUT", {}, FALSE) /\ slots' = slots
  BY ZenonT(60) DEF ResolveTimeout, At, timeoutResponse
<1>2. Speaks(h) /\ ~Encodes(call'[h])
  BY <1>1, MissOK, ZenonT(60) DEF Encodes
<1>3. CASE Encodes(call[h])
  <2>1. Tokenizes(h) /\ call[h].resolver = "encode"
    BY <1>3 DEF Encodes, CallsOK, CallOK, Tokenizes
  <2> QED BY <1>1, <1>2, <1>3, <2>1, ZenonT(60) DEF ResolveTimeout
<1>4. CASE ~Encodes(call[h])
  <2>1. call[h].resolver \in {"start", "done"}
    BY <1>1, <1>4, ZenonT(60) DEF Encodes, CallsOK, CallOK, Early
  <2> QED BY <1>1, <1>2, <1>4, <2>1, ZenonT(60) DEF ResolveTimeout
<1> QED BY <1>3, <1>4

-----------------------------------------------------------------------------
(* Induction over the blocks of a chain: a set of naturals has a least     *)
(* element, so a walk with a counterexample has a first one.               *)
LEMMA LeastNat == ASSUME NEW S, S \subseteq Nat, S # {} PROVE \E x \in S : \A y \in S : x <= y
<1>1. IsWellFoundedOn(OpToRel(<, Nat), Nat)
  BY NatLessThanWellFounded, ZenonT(60)
<1>2. PICK x \in S : \A y \in S : ~(<<y, x>> \in OpToRel(<, Nat))
  BY <1>1, WFMin, ZenonT(60)
<1>3. \A y \in S : ~(y < x)
  BY <1>2, ZenonT(60) DEF OpToRel
<1> QED BY <1>3

(* The walk exists, and is what the loop computes.                         *)
IsWalk(f, req, in, lk, n) ==
  f = [i \in 1..n |-> IF i = 1 THEN FirstBlock(req, in, lk) ELSE NextBlock(req, in, lk, f[i - 1], i)]

LEMMA WalkExists == ASSUME NEW req, NEW in, NEW lk, NEW n \in Nat PROVE \E f : IsWalk(f, req, in, lk, n)
<1> DEFINE Rec(f, m) == IsWalk(f, req, in, lk, m)
           S == {m \in Nat : ~ \E f : Rec(f, m)}
<1>1. ASSUME S # {} PROVE FALSE
  <2>1. PICK m \in S : \A y \in S : m <= y
    <3>1. S \subseteq Nat
      OBVIOUS
    <3> HIDE DEF S
    <3> QED BY <1>1, <3>1, LeastNat, ZenonT(60)
  <2>2. m \in Nat
    OBVIOUS
  <2>3. CASE m = 0
    <3>1. Rec([i \in 1..0 |-> {}], 0)
      BY DEF IsWalk
    <3> QED BY <3>1, <2>1, <2>3, ZenonT(60)
  <2>4. CASE m # 0
    <3>1. m - 1 \in Nat /\ ~(m <= m - 1)
      BY <2>2, <2>4
    <3>2. m - 1 \notin S
      BY <2>1, <3>1
    <3>3. PICK f : Rec(f, m - 1)
      BY <3>1, <3>2, ZenonT(60)
    <3> DEFINE g == [i \in 1..m |-> IF i < m THEN f[i] ELSE IF i = 1 THEN FirstBlock(req, in, lk)
                                                            ELSE NextBlock(req, in, lk, f[i - 1], i)]
    <3>4. Rec(g, m)
      BY <2>2, <2>4, <3>3 DEF IsWalk
    <3> QED BY <3>4, <2>1
  <2> QED BY <2>3, <2>4
<1>2. \E f : Rec(f, n)
  BY <1>1
<1> QED BY <1>2

LEMMA WalkUnfolds ==
  ASSUME NEW req, NEW in, NEW lk, Len(in.chain) \in Nat
  PROVE  IsWalk(Walk(req, in, lk), req, in, lk, Len(in.chain))
<1>1. \E f : IsWalk(f, req, in, lk, Len(in.chain))
  BY WalkExists, ZenonT(60)
<1>2. Walk(req, in, lk) = CHOOSE f : IsWalk(f, req, in, lk, Len(in.chain))
  BY ZenonT(60) DEF Walk, IsWalk
<1> QED BY <1>1, <1>2

-----------------------------------------------------------------------------
(* The entries behind the scores of a lookup: keys are structs, an id is    *)
(* that of one key, and a replica is credited for its own entries only.     *)
HeldOK ==
  /\ events \in Nat
  /\ \A k \in DOMAIN held : /\ held[k].id \in 1..(Len(Updates) + events)
                            /\ k.replica \in Replica /\ k = Key(k.scope, k.hash, k.replica)
  /\ \A j, k \in DOMAIN held : held[j].id = held[k].id => j = k

IdsOf(r) == {held[k].id : k \in {k \in DOMAIN held : k.replica = r}}
RunsOK(req, runs) == \A r \in DOMAIN runs : r \in servingByScope(Scope(req)) /\ runs[r].entries \subseteq IdsOf(r)
FoundOK(req, found) ==
  /\ HitsOK(found.scores, found.hits)
  /\ \A s \in found.scores : s.replica \in servingByScope(Scope(req))

LEMMA IdsDisjoint == ASSUME HeldOK, NEW q, NEW r, q # r PROVE IdsOf(q) \cap IdsOf(r) = {}
BY DEF HeldOK, IdsOf

LEMMA HolderKey ==
  ASSUME HeldOK, NEW scope, NEW hash, NEW r \in holders(scope, hash)
  PROVE  /\ Key(scope, hash, r) \in DOMAIN held /\ held[Key(scope, hash, r)].id \in IdsOf(r)
         /\ r \in servingByScope(scope)
<1>1. PICK k \in DOMAIN held : k.scope = scope /\ k.hash = hash /\ k.replica = r
  BY DEF holders
<1>2. k = Key(scope, hash, r)
  BY <1>1, ZenonT(60) DEF HeldOK
<1>3. held[k].id \in IdsOf(r) /\ r \in servingByScope(scope)
  BY <1>1, ZenonT(60) DEF IdsOf, servingByScope
<1> QED BY <1>1, <1>2, <1>3, ZenonT(60)

LEMMA LiveBlock ==
  ASSUME HeldOK, NEW req, NEW in, NEW lk, NEW i, NEW r \in liveAt(req, in, lk, i)
  PROVE  BlockOf(req, in, i, r).id \in IdsOf(r) /\ r \in servingByScope(Scope(req))
BY HolderKey, ZenonT(60) DEF liveAt, BlockOf

LEMMA FirstBlockOK ==
  ASSUME HeldOK, NEW req, NEW in, NEW lk
  PROVE  RunsOK(req, FirstBlock(req, in, lk).current) /\ RunsOK(req, FirstBlock(req, in, lk).finalized)
<1>1. RunsOK(req, FirstBlock(req, in, lk).current)
  BY LiveBlock DEF RunsOK, FirstBlock
<1>2. FirstBlock(req, in, lk).finalized = <<>> /\ DOMAIN <<>> = {}
  BY DEF FirstBlock
<1> QED BY <1>1, <1>2, ZenonT(60) DEF RunsOK

LEMMA NextBlockOK ==
  ASSUME HeldOK, NEW req, NEW in, NEW lk, NEW b, NEW i, RunsOK(req, b.current), RunsOK(req, b.finalized)
  PROVE  RunsOK(req, NextBlock(req, in, lk, b, i).current) /\ RunsOK(req, NextBlock(req, in, lk, b, i).finalized)
<1> DEFINE stays == DOMAIN b.current \cap liveAt(req, in, lk, i)
           cur == NextBlock(req, in, lk, b, i).current
           fin == NextBlock(req, in, lk, b, i).finalized
<1>1. /\ DOMAIN cur = stays
      /\ \A r \in stays : cur[r].entries = b.current[r].entries \cup {BlockOf(req, in, i, r).id}
  BY ZenonT(60) DEF NextBlock
<1>2. /\ DOMAIN fin = DOMAIN b.finalized \cup (DOMAIN b.current \ stays)
      /\ \A r \in DOMAIN fin : fin[r] = IF r \in DOMAIN b.current THEN b.current[r] ELSE b.finalized[r]
  BY ZenonT(60) DEF NextBlock
<1> HIDE DEF cur, fin
<1>3. RunsOK(req, cur)
  <2>1. ASSUME NEW r \in DOMAIN cur
        PROVE  r \in servingByScope(Scope(req)) /\ cur[r].entries \subseteq IdsOf(r)
    <3>1. r \in DOMAIN b.current /\ r \in liveAt(req, in, lk, i)
      BY <1>1, ZenonT(60)
    <3>2. BlockOf(req, in, i, r).id \in IdsOf(r) /\ r \in servingByScope(Scope(req))
      BY <3>1, LiveBlock, ZenonT(60)
    <3>3. b.current[r].entries \subseteq IdsOf(r)
      BY <3>1, ZenonT(60) DEF RunsOK
    <3> QED BY <1>1, <3>2, <3>3, ZenonT(60)
  <2> QED BY <2>1, ZenonT(60) DEF RunsOK
<1>4. RunsOK(req, fin)
  BY <1>2, ZenonT(60) DEF RunsOK
<1> QED BY <1>3, <1>4 DEF cur, fin

LEMMA ChainWalkOK ==
  ASSUME HeldOK, NEW req, NEW in, NEW lk, Len(in.chain) \in Nat \ {0}
  PROVE  RunsOK(req, ChainWalk(req, in, lk))
<1> DEFINE n == Len(in.chain)
           W == Walk(req, in, lk)
           Good(i) == RunsOK(req, W[i].current) /\ RunsOK(req, W[i].finalized)
           S == {i \in 1..n : ~Good(i)}
<1>1. IsWalk(W, req, in, lk, n)
  BY WalkUnfolds
<1>2. n \in Nat \ {0}
  OBVIOUS
<1> HIDE DEF W, n
<1>3. ASSUME S # {} PROVE FALSE
  <2>1. S \subseteq Nat /\ S \subseteq 1..n
    BY <1>2
  <2>2. PICK i \in S : \A y \in S : i <= y
    BY <1>3, <2>1, LeastNat, ZenonT(60)
  <2>3. i \in 1..n /\ ~Good(i)
    BY <2>2, ZenonT(60)
  <2>4. CASE i = 1
    <3>1. W[i] = FirstBlock(req, in, lk)
      BY <1>1, <2>3, <2>4, ZenonT(60) DEF IsWalk
    <3> QED BY <2>3, <3>1, FirstBlockOK, ZenonT(60)
  <2>5. CASE i # 1
    <3>1. i - 1 \in 1..n /\ ~(i <= i - 1)
      BY <1>2, <2>3, <2>5
    <3>2. Good(i - 1)
      BY <2>2, <3>1
    <3>3. W[i] = NextBlock(req, in, lk, W[i - 1], i)
      BY <1>1, <2>3, <2>5, ZenonT(60) DEF IsWalk
    <3> QED BY <2>3, <3>2, <3>3, NextBlockOK, ZenonT(60)
  <2> QED BY <2>4, <2>5, ZenonT(60)
<1>4. Good(n)
  BY <1>2, <1>3
<1> DEFINE C == ChainWalk(req, in, lk)
<1>5. /\ DOMAIN C = DOMAIN W[n].current \cup DOMAIN W[n].finalized
      /\ \A r \in DOMAIN C : C[r] = IF r \in DOMAIN W[n].current THEN W[n].current[r] ELSE W[n].finalized[r]
  BY ZenonT(60) DEF ChainWalk, W, n
<1> HIDE DEF C
<1>6. RunsOK(req, C)
  BY <1>4, <1>5, ZenonT(60) DEF RunsOK
<1> QED BY <1>6 DEF C

(* The scores of a set L of replicas, each credited with what used gives   *)
(* it, and the hits beside them.                                           *)
Credited(L, used, scores, hits) ==
  /\ \A s \in scores : s.replica \in L /\ s.run = used[s.replica]
  /\ \A r \in L : \E s \in scores : s.replica = r
  /\ hits = [r \in {r \in L : used[r] # {}} |-> used[r]]
  /\ \A q, r \in L : q # r => used[q] \cap used[r] = {}

LEMMA CreditOK ==
  ASSUME NEW L, NEW used, NEW scores, NEW hits, Credited(L, used, scores, hits)
  PROVE  HitsOK(scores, hits)
<1>1. DOMAIN hits = {r \in L : used[r] # {}} /\ \A r \in DOMAIN hits : hits[r] = used[r]
  BY DEF Credited
<1> QED BY <1>1 DEF HitsOK, Credited

LEMMA lookupExactOK ==
  ASSUME HeldOK, NEW req, NEW in, NEW lk
  PROVE  FoundOK(req, lookupExact(req, in, lk))
<1> DEFINE found == lookupExact(req, in, lk)
           entry(r) == held[Key(Scope(req), in.exact, r)]
           fresh(r) == freshnessAt(lk.now, entry(r).seen, lk.ttl)
           L == {r \in holders(Scope(req), in.exact) : fresh(r) > 0}
           power == distinguishingPower(Cardinality(L), Cardinality(servingByScope(Scope(req))))
           Used(r) == IF lk.lfu /\ entry(r).tokens > 0 THEN {entry(r).id} ELSE {}
           used == [r \in L |-> Used(r)]
           score(r) == [replica |-> r, tokens |-> entry(r).tokens, tier |-> entry(r).tier, run |-> Used(r),
                        score |-> Baseline(req, lk, r, entry(r).tokens, fresh(r)) * power]
<1>1. found.scores = {score(r) : r \in L} /\ found.hits = [r \in {r \in L : Used(r) # {}} |-> Used(r)]
  BY ZenonT(60) DEF lookupExact
<1>2. \A r \in L : score(r).replica = r /\ score(r).run = Used(r)
  BY ZenonT(60)
<1>3. ASSUME NEW r \in L
      PROVE  used[r] = Used(r) /\ used[r] \subseteq IdsOf(r) /\ r \in servingByScope(Scope(req))
  <2>1. r \in holders(Scope(req), in.exact) /\ used[r] = Used(r) /\ Used(r) \subseteq {entry(r).id}
    BY ZenonT(60)
  <2>2. entry(r).id \in IdsOf(r) /\ r \in servingByScope(Scope(req))
    BY <2>1, HolderKey, ZenonT(60)
  <2> QED BY <2>1, <2>2, ZenonT(60)
<1> HIDE DEF found, score, Used, L
<1>4. ASSUME NEW s \in found.scores PROVE s.replica \in L /\ s.run = used[s.replica]
  <2>1. PICK r \in L : s = score(r)
    BY <1>1, ZenonT(60)
  <2> QED BY <1>2, <1>3, <2>1, ZenonT(60)
<1>5. \A r \in L : \E s \in found.scores : s.replica = r
  BY <1>1, <1>2
<1>6. found.hits = [r \in {r \in L : used[r] # {}} |-> used[r]]
  BY <1>1, <1>3, ZenonT(60)
<1> HIDE DEF used
<1>7. \A q, r \in L : q # r => used[q] \cap used[r] = {}
  BY <1>3, IdsDisjoint
<1>8. HitsOK(found.scores, found.hits)
  <2>1. Credited(L, used, found.scores, found.hits)
    BY <1>4, <1>5, <1>6, <1>7, ZenonT(60) DEF Credited
  <2> QED BY <2>1, CreditOK, ZenonT(60)
<1>9. FoundOK(req, found)
  BY <1>3, <1>4, <1>8 DEF FoundOK
<1> QED BY <1>9 DEF found

LEMMA lookupChainOK ==
  ASSUME HeldOK, NEW req, NEW lk, NEW runs, RunsOK(req, runs)
  PROVE  FoundOK(req, lookupChain(req, lk, runs))
<1> DEFINE found == lookupChain(req, lk, runs)
           fresh(r) == freshnessAt(lk.now, runs[r].oldest, lk.ttl)
           L == {r \in DOMAIN runs : runs[r].tokens > 0 /\ fresh(r) > 0}
           power(r) == distinguishingPower(MatchingAtDepth(runs, L, r), Cardinality(servingByScope(Scope(req))))
           Used(r) == IF lk.lfu THEN runs[r].entries ELSE {}
           used == [r \in L |-> Used(r)]
           score(r) == [replica |-> r, tokens |-> runs[r].tokens, tier |-> runs[r].tier, run |-> Used(r),
                        score |-> Baseline(req, lk, r, runs[r].tokens, fresh(r)) * power(r)]
<1>1. found.scores = {score(r) : r \in L} /\ found.hits = [r \in {r \in L : Used(r) # {}} |-> Used(r)]
  BY ZenonT(60) DEF lookupChain
<1>2. \A r \in L : score(r).replica = r /\ score(r).run = Used(r)
  BY ZenonT(60)
<1>3. \A r \in L : used[r] = Used(r) /\ used[r] \subseteq IdsOf(r) /\ r \in servingByScope(Scope(req))
  BY ZenonT(60) DEF RunsOK
<1> HIDE DEF found, score, Used, L
<1>4. ASSUME NEW s \in found.scores PROVE s.replica \in L /\ s.run = used[s.replica]
  <2>1. PICK r \in L : s = score(r)
    BY <1>1, ZenonT(60)
  <2> QED BY <1>2, <1>3, <2>1, ZenonT(60)
<1>5. \A r \in L : \E s \in found.scores : s.replica = r
  BY <1>1, <1>2
<1>6. found.hits = [r \in {r \in L : used[r] # {}} |-> used[r]]
  BY <1>1, <1>3, ZenonT(60)
<1> HIDE DEF used
<1>7. \A q, r \in L : q # r => used[q] \cap used[r] = {}
  BY <1>3, IdsDisjoint
<1>8. HitsOK(found.scores, found.hits)
  <2>1. Credited(L, used, found.scores, found.hits)
    BY <1>4, <1>5, <1>6, <1>7, ZenonT(60) DEF Credited
  <2> QED BY <2>1, CreditOK, ZenonT(60)
<1>9. FoundOK(req, found)
  BY <1>3, <1>4, <1>8, ZenonT(60) DEF FoundOK
<1> QED BY <1>9 DEF found

(* The stages of the index's lookup.                                       *)
LEMMA FoundStep ==
  ASSUME CallsOK, NEW h \in Handler, call[h].pc = "lookup", UNCHANGED access, NEW res, ResultOK(res), Found(h, res)
  PROVE  Steps(h)
<1> DEFINE c == [call[h] EXCEPT !.lk.at = "done", !.result = res]
<1>1. Change(h, c)
  BY DEF Found
<1>2. CallOK(c) /\ c.pc = "lookup" /\ c.req = call[h].req /\ c.answer = call[h].answer
  BY DEF CallsOK, CallOK, Fields, Early, Late
<1> HIDE DEF c
<1> QED BY <1>1, <1>2, SilentOK DEF Steps, Encodes

LEMMA StageStep ==
  ASSUME CallsOK, NEW h \in Handler, call[h].pc = "lookup", UNCHANGED access, NEW lk,
         Change(h, [call[h] EXCEPT !.lk = lk])
  PROVE  Steps(h)
<1> DEFINE c == [call[h] EXCEPT !.lk = lk]
<1>1. CallOK(c) /\ c.pc = "lookup" /\ c.req = call[h].req /\ c.answer = call[h].answer
  BY DEF CallsOK, CallOK, Fields, Early, Late
<1> HIDE DEF c
<1>2. Change(h, c)
  BY DEF c
<1> QED BY <1>1, <1>2, SilentOK, ZenonT(60) DEF Steps, Encodes

LEMMA MissedOK ==
  ASSUME NEW strategy \in {"none", "unknown_tenant", "unknown_model", "unknown_hash_scheme"}
  PROVE  ResultOK(Missed(strategy))
<1> DEFINE res == Missed(strategy)
<1>1. /\ DOMAIN res = {"strategy", "scores", "hits", "unit"} /\ res.strategy = strategy
      /\ res.scores = {} /\ res.hits = <<>>
  BY DEF Missed, NoResult, NoScores
<1> HIDE DEF res
<1>2. ResultOK(res)
  BY <1>1 DEF ResultOK, HitsOK
<1> QED BY <1>2 DEF res

LEMMA HotScores ==
  ASSUME NEW req, NEW lk, NEW s \in tenantHotCandidates(req, lk)
  PROVE  s.run = {} /\ s.replica \in servingByScope(Scope(req))
<1>1. PICK r \in servingByScope(Scope(req)) :
        \E n : s = [replica |-> r, tokens |-> 0, tier |-> 0, run |-> {}, score |-> n]
  BY ZenonT(60) DEF tenantHotCandidates
<1> QED BY <1>1

LEMMA HotOK ==
  ASSUME NEW req, NEW lk, tenantHotCandidates(req, lk) # {}
  PROVE  ResultOK([Missed("tenant_hot") EXCEPT !.scores = tenantHotCandidates(req, lk)])
<1> DEFINE hot == tenantHotCandidates(req, lk)
           res == [Missed("tenant_hot") EXCEPT !.scores = hot]
<1>1. \A s \in hot : s.run = {}
  BY HotScores
<1> HIDE DEF hot
<1>2. /\ DOMAIN res = {"strategy", "scores", "hits", "unit"} /\ res.strategy = "tenant_hot"
      /\ res.scores = hot /\ res.hits = <<>>
  BY ZenonT(60) DEF Missed, NoResult, NoScores
<1> HIDE DEF res
<1>3. ResultOK(res)
  BY <1>1, <1>2 DEF ResultOK, HitsOK, hot
<1> QED BY <1>3 DEF res, hot

LEMMA LookupStartOK ==
  ASSUME CallsOK, NEW h \in Handler, LookupStart(h) PROVE Steps(h)
<1>1. call[h].pc = "lookup" /\ UNCHANGED access
  BY DEF LookupStart, LookupAt, At
<1>2. \/ Found(h, NoResult)
      \/ Change(h, [call[h] EXCEPT !.lk = [at |-> "match", now |-> clock, ttl |-> TTL(policy), lfu |-> LFU(policy)]])
  BY DEF LookupStart
<1> QED BY <1>1, <1>2, NoResultOK, FoundStep, StageStep, ZenonT(60)

LEMMA LookupMatchOK ==
  ASSUME CallsOK, HeldOK, NEW h \in Handler, LookupMatch(h) PROVE Steps(h)
<1> DEFINE c == call[h]
<1>1. call[h].pc = "lookup" /\ UNCHANGED access
  BY DEF LookupMatch, LookupAt, At
<1>2. PICK found : /\ \/ found = lookupExact(c.req, c.in, c.lk)
                      \/ c.in.chain # <<>> /\ found = lookupChain(c.req, c.lk, ChainWalk(c.req, c.in, c.lk))
                   /\ IF found.scores # {}
                      THEN Found(h, [strategy |-> "prefix_match", scores |-> found.scores, hits |-> found.hits,
                                     unit |-> ScoreUnit(c.lk.ttl)])
                      ELSE Change(h, [c EXCEPT !.lk.at = IF c.in.chain # <<>> THEN "classify" ELSE "hot",
                                               !.lk.now = clock])
  BY ZenonT(60) DEF LookupMatch
<1>3. FoundOK(c.req, found)
  BY <1>2, lookupExactOK, lookupChainOK, ChainWalkOK DEF CallsOK, CallOK
<1>4. CASE found.scores # {}
  <2> DEFINE res == [strategy |-> "prefix_match", scores |-> found.scores, hits |-> found.hits,
                     unit |-> ScoreUnit(c.lk.ttl)]
  <2>1. ResultOK(res)
    BY <1>3, <1>4 DEF ResultOK, FoundOK
  <2>2. Found(h, res)
    BY <1>2, <1>4
  <2> HIDE DEF res
  <2> QED BY <1>1, <2>1, <2>2, FoundStep, ZenonT(60)
<1>5. CASE found.scores = {}
  <2> DEFINE lk == [c.lk EXCEPT !.at = IF c.in.chain # <<>> THEN "classify" ELSE "hot", !.now = clock]
  <2>1. [c EXCEPT !.lk.at = IF c.in.chain # <<>> THEN "classify" ELSE "hot", !.lk.now = clock] = [c EXCEPT !.lk = lk]
    BY ZenonT(60) DEF CallsOK, CallOK, Fields
  <2>2. Change(h, [c EXCEPT !.lk = lk])
    BY <1>2, <1>5, <2>1
  <2> HIDE DEF lk
  <2> QED BY <1>1, <2>2, StageStep
<1> QED BY <1>4, <1>5

LEMMA LookupMissOK ==
  ASSUME CallsOK, NEW h \in Handler, LookupHot(h) \/ LookupClassify(h) PROVE Steps(h)
<1>1. call[h].pc = "lookup" /\ UNCHANGED access
  BY DEF LookupHot, LookupClassify, LookupAt, At
<1>2. CASE LookupHot(h)
  <2> DEFINE hot == tenantHotCandidates(call[h].req, call[h].lk)
             lk == [call[h].lk EXCEPT !.at = "classify"]
  <2>1. [call[h] EXCEPT !.lk.at = "classify"] = [call[h] EXCEPT !.lk = lk]
    BY DEF CallsOK, CallOK, Fields
  <2>2. \/ hot # {} /\ Found(h, [Missed("tenant_hot") EXCEPT !.scores = hot])
        \/ Change(h, [call[h] EXCEPT !.lk = lk])
    BY <1>2, <2>1, ZenonT(60) DEF LookupHot
  <2>3. CASE hot # {} /\ Found(h, [Missed("tenant_hot") EXCEPT !.scores = hot])
    BY <1>1, <2>3, HotOK, FoundStep, ZenonT(60)
  <2>4. CASE Change(h, [call[h] EXCEPT !.lk = lk])
    <3> HIDE DEF lk
    <3> QED BY <1>1, <2>4, StageStep, ZenonT(60)
  <2> QED BY <2>2, <2>3, <2>4, ZenonT(60)
<1>3. CASE LookupClassify(h)
  <2>1. classifyMiss(call[h].req) \in {"none", "unknown_tenant", "unknown_model", "unknown_hash_scheme"}
    BY DEF classifyMiss
  <2>2. Found(h, Missed(classifyMiss(call[h].req)))
    BY <1>3 DEF LookupClassify
  <2> QED BY <1>1, <2>1, <2>2, MissedOK, FoundStep, ZenonT(60)
<1> QED BY <1>2, <1>3, ZenonT(60)
=============================================================================
