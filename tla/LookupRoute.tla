---------------------------- MODULE LookupRoute -----------------------------
(***************************************************************************)
(* The LookupRoute handler of the gRPC service over a changing index and a *)
(* changing policy store: its deadline, the resolution of the request into *)
(* a block-hash chain (in a goroutine that may outlive the call while it   *)
(* holds a tokenizer slot), the index lookup with one read-locked section  *)
(* per stage, the policy gates, each reading the store on its own, the     *)
(* affinity fallback, and the LFU credit of a delivered answer.            *)
(*                                                                         *)
(* The index is a function from the keys held to their entries; its        *)
(* secondary maps are derived from it.  A hash stands for a prefix hash    *)
(* with its adapter; a token sequence is the sequence of hashes of its     *)
(* full blocks.  Scores are integers over a common denominator.            *)
(***************************************************************************)
EXTENDS PolicyStore, FiniteSets, Sequences, FiniteSetsExt, Functions

CONSTANTS
  Handler,               \* concurrent LookupRoute calls
  Replica,               \* numbered in the order of their ids
  Requests,              \* the requests a gateway may send
  Updates,               \* the holds replicas may report, a sequence
  Payloads,              \* the stats payloads replicas may report
  Bodies,                \* the /policy bodies a controller may push
  NoHash,                \* an empty prefix hash
  NoKey,                 \* an empty tenant, model or hash scheme
  ProbeTenantID,
  Digest(_),             \* the number SHA-256 makes of a seed
  BlockSize,
  PressureUnit,          \* pressure 1.0
  PowerUnit,             \* distinguishing power 1.0, divisible by every replica count
  FloorUnit,             \* routing floor 1.0
  SLOTightBias, TenantHotMinHitRate, TenantHotMaxAge,
  MaxConcurrentTokenize,
  MaxEvents, MaxCalls    \* bounds: changes around the calls, calls

Finite(s) == s \in Seq(Range(s))
LastOf(s) == s[Len(s)]

\* what an affinity hint may be seeded with
SeedsOf(blocks) == IF blocks = <<>> THEN {} ELSE {blocks, <<LastOf(blocks)>>}
Seeds == UNION {{r.bh, <<r.ph>>} \cup SeedsOf(r.toks.blocks) \cup SeedsOf(r.text.blocks) : r \in Requests}

ASSUME ConstantAssumption ==
  /\ Replica \subseteq Nat /\ IsFiniteSet(Replica) /\ IsFiniteSet(Handler)
  /\ \A r \in Requests : Finite(r.bh) /\ Finite(r.toks.blocks) /\ Finite(r.text.blocks)
  /\ \A seed \in Seeds : Digest(seed) \in Nat
  /\ Finite(Updates)
  /\ \A i \in DOMAIN Updates : LET k == Updates[i].key IN
       k.replica \in Replica /\ k = [scope |-> k.scope, hash |-> k.hash, replica |-> k.replica]
  /\ \A i, j \in DOMAIN Updates : Updates[i].key = Updates[j].key => i = j
  /\ DefaultMinimumMatchedTokens \in Nat /\ DefaultRoutingFloorScore \in Nat
  /\ {DefaultTTL, BlockSize, PressureUnit, FloorUnit, MaxConcurrentTokenize} \subseteq Nat \ {0}
  /\ {SLOTightBias, TenantHotMinHitRate, TenantHotMaxAge} \subseteq Nat
  /\ \A n \in 1..Cardinality(Replica) : PowerUnit % n = 0
ASSUME BodyAssumption == \A b \in Bodies : b.policy \in ResolvedPolicy
ASSUME BoundAssumption == {MaxEvents, MaxCalls} \subseteq Nat

VARIABLES
  held,        \* the index: key -> entry
  stats,       \* <<tenant, model, replica>> -> its latest stats payload
  access,      \* entry id -> LFU access count
  policy,      \* the store's policy for the requests' tenant
  body,        \* the body it was pushed with, if any
  clock,
  call,        \* per handler: the call it serves
  slots,       \* tokenizeSem: the slots taken
  orphans,     \* resolution goroutines whose handler has gone, by place
  calls, events

indexVars == <<held, stats>>
storeVars == <<policy, body>>
tokenizeVars == <<slots, orphans>>
vars == <<held, stats, access, policy, body, clock, call, slots, orphans, calls, events>>

Entries == 1..(Len(Updates) + MaxEvents)
NoScores == {}
NoResult == [strategy |-> "none", scores |-> NoScores, hits |-> <<>>, unit |-> 1]

-----------------------------------------------------------------------------
(* The index as the read path sees it.                                     *)

Scope(r) == [tenant |-> r.tenant, model |-> r.model, scheme |-> r.scheme]
Key(scope, hash, replica) == [scope |-> scope, hash |-> hash, replica |-> replica]
servingByScope(scope) == {k.replica : k \in {k \in DOMAIN held : k.scope = scope}}
holders(scope, hash) == {k.replica : k \in {k \in DOMAIN held : k.scope = scope /\ k.hash = hash}}

\* freshness over ttl, pressure over PressureUnit, power over PowerUnit
freshnessAt(now, seen, ttl) ==
  IF now - seen >= ttl THEN 0 ELSE IF now <= seen THEN ttl ELSE ttl - (now - seen)

pressureFactorAt(pressure) ==
  IF pressure > PressureUnit THEN 0 ELSE IF pressure < 0 THEN PressureUnit ELSE PressureUnit - pressure

sloBias(fresh, ttl, tight) == ttl + IF tight THEN fresh * SLOTightBias ELSE 0

distinguishingPower(matching, total) ==
  IF total <= 1 THEN PowerUnit
  ELSE IF matching >= total THEN 0 ELSE (total - matching) * (PowerUnit \div total)

worstTierBest(a, b) == IF a < b THEN a ELSE b
worstTier(a, b) == IF a = 0 \/ b = 0 THEN 0 ELSE IF a > b THEN a ELSE b

\* the pressure a fresh stats payload reports
Pressure(req, lk, replica) ==
  LET k == <<req.tenant, req.model, replica>> IN
  IF k \in DOMAIN stats /\ freshnessAt(lk.now, stats[k].at, lk.ttl) > 0 THEN stats[k].pressure ELSE 0

Baseline(req, lk, replica, tokens, fresh) ==
  tokens * fresh * pressureFactorAt(Pressure(req, lk, replica)) * sloBias(fresh, lk.ttl, req.tight)

\* the score that stands for 1.0
ScoreUnit(ttl) == ttl * ttl * PressureUnit * PowerUnit

lookupExact(req, in, lk) ==
  LET scope == Scope(req)
      entry(r) == held[Key(scope, in.exact, r)]
      fresh(r) == freshnessAt(lk.now, entry(r).seen, lk.ttl)
      live == {r \in holders(scope, in.exact) : fresh(r) > 0}
      power == distinguishingPower(Cardinality(live), Cardinality(servingByScope(scope)))
      used(r) == IF lk.lfu /\ entry(r).tokens > 0 THEN {entry(r).id} ELSE {}
  IN  [scores |-> {[replica |-> r, tokens |-> entry(r).tokens, tier |-> entry(r).tier, run |-> used(r),
                    score |-> Baseline(req, lk, r, entry(r).tokens, fresh(r)) * power] : r \in live},
       hits |-> [r \in {r \in live : used(r) # {}} |-> used(r)]]

\* the walk over the blocks: the runs still growing, and the ones that ended
BlockOf(req, in, i, r) == held[Key(Scope(req), in.chain[i], r)]
liveAt(req, in, lk, i) ==
  {r \in holders(Scope(req), in.chain[i]) : freshnessAt(lk.now, BlockOf(req, in, i, r).seen, lk.ttl) > 0}

FirstBlock(req, in, lk) ==
  [current |-> [r \in liveAt(req, in, lk, 1) |->
     [tokens |-> in.counts[1], oldest |-> BlockOf(req, in, 1, r).seen, tier |-> BlockOf(req, in, 1, r).tier,
      entries |-> {BlockOf(req, in, 1, r).id}]],
   finalized |-> <<>>]

NextBlock(req, in, lk, before, i) ==
  LET stays == DOMAIN before.current \cap liveAt(req, in, lk, i)
      grown(r) ==
        [tokens |-> before.current[r].tokens + in.counts[i],
         oldest |-> Min({before.current[r].oldest, BlockOf(req, in, i, r).seen}),
         tier |-> worstTier(before.current[r].tier, BlockOf(req, in, i, r).tier),
         entries |-> before.current[r].entries \cup {BlockOf(req, in, i, r).id}]
  IN  [current |-> [r \in stays |-> grown(r)],
       finalized |-> [r \in DOMAIN before.finalized \cup (DOMAIN before.current \ stays) |->
          IF r \in DOMAIN before.current THEN before.current[r] ELSE before.finalized[r]]]

Walk(req, in, lk) ==
  LET walk[i \in 1..Len(in.chain)] ==
        IF i = 1 THEN FirstBlock(req, in, lk) ELSE NextBlock(req, in, lk, walk[i - 1], i)
  IN  walk

ChainWalk(req, in, lk) ==
  LET end == Walk(req, in, lk)[Len(in.chain)]
  IN  [r \in DOMAIN end.current \cup DOMAIN end.finalized |->
         IF r \in DOMAIN end.current THEN end.current[r] ELSE end.finalized[r]]

\* the depth-aware count of applyChainDistinguishingPower
MatchingAtDepth(runs, scored, r) == Cardinality({o \in scored : runs[o].tokens >= runs[r].tokens})

\* the scores of the runs a walk found
lookupChain(req, lk, runs) ==
  LET fresh(r) == freshnessAt(lk.now, runs[r].oldest, lk.ttl)
      scored == {r \in DOMAIN runs : runs[r].tokens > 0 /\ fresh(r) > 0}
      power(r) == distinguishingPower(MatchingAtDepth(runs, scored, r), Cardinality(servingByScope(Scope(req))))
      used(r) == IF lk.lfu THEN runs[r].entries ELSE {}
  IN  [scores |-> {[replica |-> r, tokens |-> runs[r].tokens, tier |-> runs[r].tier, run |-> used(r),
                    score |-> Baseline(req, lk, r, runs[r].tokens, fresh(r)) * power(r)] : r \in scored},
       hits |-> [r \in {r \in scored : used(r) # {}} |-> used(r)]]

tenantHotCandidates(req, lk) ==
  LET payload(r) == stats[<<req.tenant, req.model, r>>]
      warm == {r \in Replica : /\ <<req.tenant, req.model, r>> \in DOMAIN stats
                               /\ lk.now - payload(r).at < TenantHotMaxAge
                               /\ payload(r).rate >= TenantHotMinHitRate}
      recency(r) == freshnessAt(lk.now, payload(r).at, TenantHotMaxAge)
  IN  {[replica |-> r, tokens |-> 0, tier |-> 0, run |-> {},
        score |-> payload(r).rate * recency(r) * pressureFactorAt(payload(r).pressure)
                    * sloBias(recency(r), TenantHotMaxAge, req.tight)] :
         r \in warm \cap servingByScope(Scope(req))}

classifyMiss(req) ==
  LET S == {k.scope : k \in DOMAIN held} IN
  IF S = {} THEN "none"
  ELSE IF \A s \in S : s.tenant # req.tenant THEN "unknown_tenant"
  ELSE IF \A s \in S : s.tenant # req.tenant \/ s.model # req.model THEN "unknown_model"
  ELSE IF Scope(req) \notin S THEN "unknown_hash_scheme" ELSE "none"

\* a set of replicas in the order of their ids
Sorted(S) ==
  CHOOSE seq \in [1..Cardinality(S) -> S] : \A i, j \in 1..Cardinality(S) : i < j => seq[i] < seq[j]

replicasForRoutingBlind(req) ==
  Sorted({k.replica : k \in {k \in DOMAIN held : k.scope.tenant = req.tenant /\ k.scope.model = req.model}})
replicasForRouting(req) == Sorted(servingByScope(Scope(req)))
AffinityHint(req, seed) ==
  LET R == replicasForRouting(req) IN IF R = <<>> THEN {} ELSE {R[1 + (Digest(seed) % Len(R))]}

-----------------------------------------------------------------------------
(* Resolving a request into what is looked up.                             *)

NoInputs == [chain |-> <<>>, counts |-> <<>>, exact |-> NoHash, exactCount |-> 0, echo |-> FALSE, failOpen |-> FALSE]
FailOpen == [NoInputs EXCEPT !.failOpen = TRUE]

requestCarriesValidBlockHashChain(r) == r.bh # <<>> /\ Len(r.bh) = Len(r.btc)
CarriesChain(r) == r.bh # <<>> \/ r.btc # <<>>
Given(input) == input.kind # "none"

\* the condition under which the handler bounds the call by tokenizeTimeout
willTokenize(r, chainMatching) ==
  Given(r.text) /\ (~chainMatching \/ ~CarriesChain(r)) /\ r.ph = NoHash /\ ~Given(r.toks)

sumBlockTokenCounts(counts) == FoldFunction(+, 0, counts)
effectivePrefixTokens(in) == IF in.counts # <<>> THEN sumBlockTokenCounts(in.counts) ELSE in.exactCount

\* fingerprint.Chain over the full blocks of a token sequence
Fingerprinted(blocks, chainMatching, echo) ==
  LET counts == [i \in DOMAIN blocks |-> BlockSize] IN
  IF blocks = <<>> THEN [FailOpen EXCEPT !.echo = echo]
  ELSE [chain |-> IF chainMatching THEN blocks ELSE <<>>,
        counts |-> IF chainMatching THEN counts ELSE <<>>,
        exact |-> LastOf(blocks), exactCount |-> sumBlockTokenCounts(counts), echo |-> echo, failOpen |-> FALSE]

\* the branch of resolveLookupChain a request takes
InputKind(r, chainMatching) ==
  IF ~chainMatching /\ r.ph # NoHash THEN "exact"
  ELSE IF (chainMatching /\ CarriesChain(r)) \/ r.ph # NoHash THEN "explicit"
  ELSE IF Given(r.toks) THEN "tokens"
  ELSE IF Given(r.text) THEN (IF r.text.kind = "oversized" THEN "refused" ELSE "text")
  ELSE IF CarriesChain(r) THEN "refused" ELSE "exact"

resolveLookupChain(r, chainMatching) ==
  LET kind == InputKind(r, chainMatching)
      exact == [NoInputs EXCEPT !.exact = r.ph, !.exactCount = r.phCount]
  IN  CASE kind = "exact" -> exact
        [] kind = "explicit" /\ Len(r.bh) = Len(r.btc) -> [exact EXCEPT !.chain = r.bh, !.counts = r.btc]
        [] kind = "tokens" /\ r.toks.kind = "blocks" -> Fingerprinted(r.toks.blocks, chainMatching, FALSE)
        [] OTHER -> FailOpen

affinityEligible(r) ==
  NoKey \notin {r.tenant, r.model, r.scheme} /\ (CarriesChain(r) => Len(r.bh) = Len(r.btc))

canonicalAffinitySeed(in) ==
  IF in.chain # <<>> THEN in.chain ELSE IF in.exact # NoHash THEN <<in.exact>> ELSE <<>>

-----------------------------------------------------------------------------
(* Calls.  pols, ever and always record what the call met: the policies in *)
(* force, and the keys held at some and at every moment of it.             *)

NoRequest == [tenant |-> NoKey]
NoLookup == [at |-> "start", now |-> 0, ttl |-> DefaultTTL, lfu |-> FALSE]
Idle == [pc |-> "idle", req |-> NoRequest, budget |-> FALSE, deadline |-> FALSE, done |-> FALSE,
         chain |-> TRUE, resolver |-> "none", in |-> NoInputs, lk |-> NoLookup, result |-> NoResult,
         answer |-> {}, pols |-> {}, ever |-> {}, always |-> {}]

Active(h) == call[h].pc \notin {"idle", "answered"}
At(h, place) == call[h].pc = place

Reply(reason, scores, echo) ==
  {[reason |-> reason, scores |-> scores, replicas |-> {s.replica : s \in scores},
    entries |-> UNION {s.run : s \in scores}, echo |-> echo]}

Change(h, c) == call' = [call EXCEPT ![h] = c]

\* an answer that leaves the index alone
Answers(h, reason, scores, echo) ==
  /\ Change(h, [call[h] EXCEPT !.pc = "answered", !.answer = Reply(reason, scores, echo)])
  /\ UNCHANGED access

timeoutResponse(h, echo) == Answers(h, "TIMEOUT", {}, echo)
noHintResponse(h) == Answers(h, "NO_HINT", {}, call[h].in.echo)
policyGateResponse(h) == Answers(h, "POLICY_REQUIRES_CHAIN", {}, FALSE)

Goes(h, place) == Change(h, [call[h] EXCEPT !.pc = place]) /\ UNCHANGED access

\* what the store keeps of a pushed body, or of none
Installed(pushed) == {normalizePolicyForVersion(b.policy, b.version) : b \in pushed}

Stored(u, id) == [id |-> id, seen |-> clock, tokens |-> u.tokens, tier |-> u.tier]

\* an index some replicas have reported to, and a policy or none
Init ==
  /\ clock = 0
  /\ \E S \in SUBSET DOMAIN Updates :
       held = [k \in {Updates[i].key : i \in S} |->
                 LET i == CHOOSE i \in S : Updates[i].key = k IN Stored(Updates[i], i)]
  /\ \E S \in SUBSET Payloads :
       /\ \A a, b \in S : a.key = b.key => a = b
       /\ stats = [k \in {p.key : p \in S} |->
                    LET p == CHOOSE p \in S : p.key = k IN [rate |-> p.rate, pressure |-> p.pressure, at |-> 0]]
  /\ body \in {{}} \cup {{b} : b \in {b \in Bodies : Accepted(b.version)}}
  /\ policy = Installed(body)
  /\ access = [e \in Entries |-> 0]
  /\ call = [h \in Handler |-> Idle]
  /\ slots = 0 /\ orphans = [start |-> 0, encode |-> 0]
  /\ calls \in 0..MaxCalls /\ events \in 0..MaxEvents   \* what is left of the bounds

-----------------------------------------------------------------------------
(* The handler, up to the lookup.                                          *)

Begin(h) ==
  /\ At(h, "idle") /\ calls < MaxCalls
  /\ calls' = calls + 1
  /\ \E r \in Requests :
       Change(h, [Idle EXCEPT !.pc = "budget", !.req = r, !.pols = {policy},
                              !.ever = DOMAIN held, !.always = DOMAIN held])
  /\ UNCHANGED <<indexVars, access, storeVars, clock, tokenizeVars, events>>

Budget(h) ==
  /\ At(h, "budget")
  /\ IF call[h].req.tenant = ProbeTenantID THEN noHintResponse(h)
     ELSE /\ Change(h, [call[h] EXCEPT !.pc = "chain", !.budget = HasLookupTimeout(policy),
                                      !.deadline = HasLookupTimeout(policy) \/ call[h].req.deadline])
          /\ UNCHANGED access
  /\ UNCHANGED tokenizeVars

ReadChainMatching(h) ==
  /\ At(h, "chain")
  /\ LET enabled == ChainMatchingEnabled(policy) IN
     Change(h, [call[h] EXCEPT !.pc = "gate", !.chain = enabled,
                               !.deadline = @ \/ willTokenize(call[h].req, enabled)])
  /\ UNCHANGED <<access, tokenizeVars>>

ChainGate(h) ==
  /\ At(h, "gate")
  /\ IF call[h].done THEN timeoutResponse(h, FALSE)
     ELSE IF ChainRequired(policy) /\ ~requestCarriesValidBlockHashChain(call[h].req)
     THEN policyGateResponse(h)
     ELSE Change(h, [call[h] EXCEPT !.pc = "resolve", !.resolver = "start"]) /\ UNCHANGED access
  /\ UNCHANGED tokenizeVars

Tokenizes(h) == InputKind(call[h].req, call[h].chain) = "text"
Resolved(h, in) == Change(h, [call[h] EXCEPT !.resolver = "done", !.in = in])

Resolve(h) ==
  /\ At(h, "resolve") /\ call[h].resolver = "start"
  /\ IF Tokenizes(h) /\ slots < MaxConcurrentTokenize
     THEN slots' = slots + 1 /\ Change(h, [call[h] EXCEPT !.resolver = "encode"])
     ELSE UNCHANGED slots /\ Resolved(h, resolveLookupChain(call[h].req, call[h].chain))
  /\ UNCHANGED <<access, orphans>>

\* the tokenizer answers, with an error, no or too many tokens, or the prompt's tokens
EncodeReturns(h) ==
  /\ At(h, "resolve") /\ call[h].resolver = "encode"
  /\ slots' = slots - 1
  /\ \/ Resolved(h, FailOpen)
     \/ Resolved(h, Fingerprinted(call[h].req.text.blocks, call[h].chain, TRUE))
  /\ UNCHANGED <<indexVars, access, storeVars, clock, orphans, calls, events>>

ResolveTimeoutFrees(h) ==
  /\ At(h, "resolve") /\ call[h].deadline /\ call[h].done
  /\ timeoutResponse(h, FALSE)
  /\ orphans' = IF Tokenizes(h) /\ call[h].resolver # "done"
                THEN [orphans EXCEPT ![call[h].resolver] = @ + 1] ELSE orphans
  /\ slots' = IF call[h].resolver = "encode" THEN slots - 1 ELSE slots

\* the handler leaves: a goroutine still tokenizing goes on without it
ResolveTimeout(h) ==
  /\ At(h, "resolve") /\ call[h].deadline /\ call[h].done
  /\ timeoutResponse(h, FALSE)
  /\ orphans' = IF Tokenizes(h) /\ call[h].resolver # "done"
                THEN [orphans EXCEPT ![call[h].resolver] = @ + 1] ELSE orphans
  /\ UNCHANGED slots

TakeInputs(h) ==
  /\ At(h, "resolve") /\ call[h].resolver = "done"
  /\ IF call[h].done THEN timeoutResponse(h, call[h].in.echo)
     ELSE IF call[h].in.failOpen THEN noHintResponse(h) ELSE Goes(h, "admit")
  /\ UNCHANGED tokenizeVars

SubMinimum(h) ==
  MinimumPrefixTokens(policy) > 0 /\ effectivePrefixTokens(call[h].in) < MinimumPrefixTokens(policy)

Admit(h) ==
  /\ At(h, "admit")
  /\ Goes(h, IF SubMinimum(h) THEN "admit_affinity" ELSE "lookup")
  /\ UNCHANGED tokenizeVars

AdmitAffinity(h) ==
  /\ At(h, "admit_affinity")
  /\ IF AffinityRoutingEnabled(policy) THEN Goes(h, "lookup") ELSE noHintResponse(h)
  /\ UNCHANGED tokenizeVars

-----------------------------------------------------------------------------
(* The index's LookupRoute, one read-locked section a step.                *)

LookupAt(h, place) == At(h, "lookup") /\ call[h].lk.at = place
Found(h, result) == Change(h, [call[h] EXCEPT !.lk.at = "done", !.result = result])
Missed(strategy) == [NoResult EXCEPT !.strategy = strategy]

LookupStart(h) ==
  /\ LookupAt(h, "start")
  /\ IF NoKey \in {call[h].req.tenant, call[h].req.model, call[h].req.scheme} THEN Found(h, NoResult)
     ELSE Change(h, [call[h] EXCEPT !.lk = [at |-> "match", now |-> clock, ttl |-> TTL(policy), lfu |-> LFU(policy)]])
  /\ UNCHANGED <<access, tokenizeVars>>

LookupMatch(h) ==
  /\ LookupAt(h, "match")
  /\ \E c \in {call[h]} :
     \E found \in IF c.in.chain = <<>> THEN {lookupExact(c.req, c.in, c.lk)}
                 ELSE {lookupChain(c.req, c.lk, runs) : runs \in {ChainWalk(c.req, c.in, c.lk)}} :
       IF found.scores # {}
       THEN Found(h, [strategy |-> "prefix_match", scores |-> found.scores, hits |-> found.hits,
                      unit |-> ScoreUnit(c.lk.ttl)])
       ELSE Change(h, [c EXCEPT !.lk.at = IF c.in.chain # <<>> THEN "classify" ELSE "hot", !.lk.now = clock])
  /\ UNCHANGED <<access, tokenizeVars>>

LookupHot(h) ==
  /\ LookupAt(h, "hot")
  /\ LET hot == tenantHotCandidates(call[h].req, call[h].lk) IN
     IF hot # {} THEN Found(h, [Missed("tenant_hot") EXCEPT !.scores = hot])
     ELSE Change(h, [call[h] EXCEPT !.lk.at = "classify"])
  /\ UNCHANGED <<access, tokenizeVars>>

LookupClassify(h) ==
  /\ LookupAt(h, "classify")
  /\ Found(h, Missed(classifyMiss(call[h].req)))
  /\ UNCHANGED <<access, tokenizeVars>>

LookupTimeout(h) ==
  /\ At(h, "lookup") /\ call[h].deadline /\ call[h].done
  /\ timeoutResponse(h, call[h].in.echo)
  /\ UNCHANGED tokenizeVars

\* the gates a result still has to pass
GateOf(strategy) ==
  CASE strategy = "tenant_hot" -> "hot_gate"
    [] strategy = "prefix_match" -> "min_prefix"
    [] strategy = "none" -> "affinity"
    [] OTHER -> "deliver"

TakeResult(h) ==
  /\ LookupAt(h, "done")
  /\ \/ /\ ~(call[h].deadline /\ call[h].done)
        /\ Goes(h, GateOf(call[h].result.strategy))
     \/ /\ call[h].budget     \* the lookup itself took longer than the budget
        /\ timeoutResponse(h, call[h].in.echo)
  /\ UNCHANGED tokenizeVars

-----------------------------------------------------------------------------
(* The gates after the lookup, each reading the store for itself.          *)

Downgrade(h) == Change(h, [call[h] EXCEPT !.pc = "affinity", !.result = NoResult]) /\ UNCHANGED access
TopScore(scores) == Max({s.score : s \in scores})

TenantHotGate(h) ==
  /\ At(h, "hot_gate")
  /\ IF TenantHotEnabled(policy) THEN Goes(h, "min_prefix") ELSE Downgrade(h)
  /\ UNCHANGED tokenizeVars

MinimumPrefixGate(h) ==
  /\ At(h, "min_prefix")
  /\ IF SubMinimum(h) THEN Downgrade(h)
     ELSE Goes(h, IF call[h].result.strategy = "prefix_match" THEN "min_matched" ELSE "deliver")
  /\ UNCHANGED tokenizeVars

RetainReplicasScoresOnly(result, keep) ==
  [result EXCEPT !.scores = {s \in @ : s.replica \in keep}]
RetainReplicas(result, keep) ==
  [result EXCEPT !.scores = {s \in @ : s.replica \in keep},
                 !.hits = [r \in DOMAIN @ \cap keep |-> @[r]]]

applyMatchedTokensFloorTopOnly(h) ==
  /\ At(h, "min_matched")
  /\ IF \A s \in call[h].result.scores : s.tokens < MinimumMatchedTokens(policy) THEN Downgrade(h)
     ELSE Goes(h, "floor")
  /\ UNCHANGED tokenizeVars

applyMatchedTokensFloor(h) ==
  /\ At(h, "min_matched")
  /\ LET floor == MinimumMatchedTokens(policy)
         keep == {s.replica : s \in {s \in call[h].result.scores : s.tokens >= floor}}
     IN  IF floor <= 0 THEN Goes(h, "floor")
         ELSE IF keep = {} THEN Downgrade(h)
         ELSE Change(h, [call[h] EXCEPT !.pc = "floor", !.result = RetainReplicas(@, keep)]) /\ UNCHANGED access
  /\ UNCHANGED tokenizeVars

BelowFloor(result, floor) == floor > 0 /\ TopScore(result.scores) * FloorUnit < floor * result.unit

RoutingFloorGate(h) ==
  /\ At(h, "floor")
  /\ IF BelowFloor(call[h].result, RoutingFloorScore(policy)) THEN Downgrade(h) ELSE Goes(h, "deliver")
  /\ UNCHANGED tokenizeVars

TryAffinity(h) ==
  /\ At(h, "affinity")
  /\ Goes(h, IF /\ AffinityRoutingEnabled(policy) /\ affinityEligible(call[h].req)
                /\ canonicalAffinitySeed(call[h].in) # <<>>
             THEN "pick" ELSE "deliver")
  /\ UNCHANGED tokenizeVars

PickAffinity(h) ==
  /\ At(h, "pick")
  /\ LET pick == AffinityHint(call[h].req, canonicalAffinitySeed(call[h].in)) IN
     IF pick = {} THEN Goes(h, "deliver")
     ELSE Answers(h, "AFFINITY_HINT", {[replica |-> r, tokens |-> 0, tier |-> 0, run |-> {}, score |-> 0] : r \in pick},
                  call[h].in.echo)
  /\ UNCHANGED tokenizeVars

reasonForStrategy(strategy) ==
  CASE strategy = "prefix_match" -> "PREFIX_MATCH"
    [] strategy = "tenant_hot" -> "TENANT_HOT"
    [] strategy = "unknown_tenant" -> "UNKNOWN_TENANT"
    [] strategy = "unknown_model" -> "UNKNOWN_MODEL"
    [] strategy = "unknown_hash_scheme" -> "UNKNOWN_HASH_SCHEME"
    [] OTHER -> "NO_HINT"

CreditHits(result) ==
  access' = [e \in Entries |-> access[e] + Cardinality({r \in DOMAIN result.hits : e \in result.hits[r]})]

Deliver(h) ==
  /\ At(h, "deliver")
  /\ LET result == call[h].result IN
     /\ CreditHits(result)
     /\ Change(h, [call[h] EXCEPT !.pc = "answered",
          !.answer = Reply(reasonForStrategy(result.strategy), result.scores, call[h].in.echo)])
  /\ UNCHANGED tokenizeVars

HandlerStep(h) ==
  /\ \/ Budget(h) \/ ReadChainMatching(h) \/ ChainGate(h) \/ Resolve(h) \/ ResolveTimeout(h)
     \/ TakeInputs(h) \/ Admit(h) \/ AdmitAffinity(h)
     \/ LookupStart(h) \/ LookupMatch(h) \/ LookupHot(h) \/ LookupClassify(h)
     \/ LookupTimeout(h) \/ TakeResult(h)
     \/ TenantHotGate(h) \/ MinimumPrefixGate(h) \/ applyMatchedTokensFloor(h)
     \/ RoutingFloorGate(h) \/ TryAffinity(h) \/ PickAffinity(h) \/ Deliver(h)
  /\ UNCHANGED <<indexVars, storeVars, clock, calls, events>>

\* the handler returns its answer
Close(h) ==
  /\ At(h, "answered")
  /\ Change(h, Idle)
  /\ UNCHANGED <<indexVars, access, storeVars, clock, tokenizeVars, calls, events>>

-----------------------------------------------------------------------------
(* Around the calls.                                                       *)

Ends(h) ==
  /\ Active(h) /\ ~call[h].done
  /\ Change(h, [call[h] EXCEPT !.done = TRUE])
  /\ UNCHANGED <<indexVars, access, storeVars, clock, tokenizeVars, calls, events>>

DeadlinePasses(h) == call[h].deadline /\ Ends(h)
ClientCancels(h) == Ends(h)

OrphanAcquires ==
  /\ orphans.start > 0
  /\ LET taken == IF slots < MaxConcurrentTokenize THEN 1 ELSE 0 IN
     /\ slots' = slots + taken
     /\ orphans' = [start |-> orphans.start - 1, encode |-> orphans.encode + taken]
  /\ UNCHANGED <<indexVars, access, storeVars, clock, call, calls, events>>

OrphanReturns ==
  /\ orphans.encode > 0
  /\ orphans' = [orphans EXCEPT !.encode = @ - 1] /\ slots' = slots - 1
  /\ UNCHANGED <<indexVars, access, storeVars, clock, call, calls, events>>

\* an entry is stored, or refreshed in place
Ingest ==
  /\ events < MaxEvents /\ events' = events + 1
  /\ \E i \in DOMAIN Updates :
       LET k == Updates[i].key
           id == IF k \in DOMAIN held THEN held[k].id ELSE Len(Updates) + events + 1
       IN  /\ held' = [j \in DOMAIN held \cup {k} |-> IF j = k THEN Stored(Updates[i], id) ELSE held[j]]
           /\ call' = [h \in Handler |-> [call[h] EXCEPT !.ever = IF Active(h) THEN @ \cup {k} ELSE @]]
  /\ UNCHANGED <<stats, access, storeVars, clock, tokenizeVars, calls>>

ReportStats ==
  /\ events < MaxEvents /\ events' = events + 1
  /\ \E p \in Payloads :
       stats' = [k \in DOMAIN stats \cup {p.key} |->
                   IF k = p.key THEN [rate |-> p.rate, pressure |-> p.pressure, at |-> clock] ELSE stats[k]]
  /\ UNCHANGED <<held, access, storeVars, clock, call, tokenizeVars, calls>>

\* an eviction event, the sweep or the cap takes an entry
Forget ==
  /\ events < MaxEvents /\ events' = events + 1
  /\ \E k \in DOMAIN held :
       /\ held' = [j \in DOMAIN held \ {k} |-> held[j]]
       /\ call' = [h \in Handler |-> [call[h] EXCEPT !.always = @ \ {k}]]
  /\ UNCHANGED <<stats, access, storeVars, clock, tokenizeVars, calls>>

\* a push of the controller: replace-on-write, after normalisation
policyHandler ==
  /\ events < MaxEvents /\ events' = events + 1
  /\ \E b \in {{}} \cup {{b} : b \in {b \in Bodies : Accepted(b.version)}} :
       /\ body' = b /\ policy' = Installed(b)
       /\ call' = [h \in Handler |-> [call[h] EXCEPT !.pols = IF Active(h) THEN @ \cup {Installed(b)} ELSE @]]
  /\ UNCHANGED <<indexVars, access, clock, tokenizeVars, calls>>

Tick ==
  /\ events < MaxEvents /\ events' = events + 1
  /\ clock' = clock + 1
  /\ UNCHANGED <<indexVars, access, storeVars, call, tokenizeVars, calls>>

Next ==
  \/ \E h \in Handler :
       Begin(h) \/ HandlerStep(h) \/ EncodeReturns(h) \/ Close(h) \/ DeadlinePasses(h) \/ ClientCancels(h)
  \/ OrphanAcquires \/ OrphanReturns \/ Ingest \/ ReportStats \/ Forget \/ policyHandler \/ Tick

\* a handler's goroutine runs on and its deadline fires; a tokenizer may hang
Fairness == \A h \in Handler : WF_vars(HandlerStep(h)) /\ WF_vars(DeadlinePasses(h))

Spec == Init /\ [][Next]_vars /\ Fairness

-----------------------------------------------------------------------------
(* Properties.                                                             *)

Answered(h, reasons) == \E a \in call[h].answer : a.reason \in reasons
SeenServing(h, keys) == {k.replica : k \in {k \in keys : k.scope = Scope(call[h].req)}}

\* An answer never contradicts what the index held all through the call,
\* though each stage reads it under a lock of its own: a hinted replica served
\* the scope at some moment of the call, UNKNOWN_* names a level that was not
\* held throughout, and a request that affinity can seed is not left without
\* a hint while some replica served its scope throughout.
AnswerGrounded ==
  \A h \in Handler : At(h, "answered") =>
    LET req == call[h].req
        always == call[h].always
    IN
    /\ \A a \in call[h].answer : a.replicas \subseteq SeenServing(h, call[h].ever)
    /\ Answered(h, {"UNKNOWN_TENANT"}) => \A k \in always : k.scope.tenant # req.tenant
    /\ Answered(h, {"UNKNOWN_MODEL"}) => \A k \in always : k.scope.tenant # req.tenant \/ k.scope.model # req.model
    /\ Answered(h, {"UNKNOWN_HASH_SCHEME"}) => \A k \in always : k.scope # Scope(req)
    /\ /\ Answered(h, {"NO_HINT"}) /\ ~call[h].in.failOpen
       /\ affinityEligible(req) /\ canonicalAffinitySeed(call[h].in) # <<>>
       /\ \A p \in call[h].pols : AffinityRoutingEnabled(p)
       => SeenServing(h, always) = {}

\* Each gate of the tenant's policy is honoured under some policy that was in
\* force during the call, so under the policy itself when none was pushed
\* meanwhile: no match below the requested or matched minimum or the routing
\* floor, no TENANT_HOT or AFFINITY_HINT that is switched off, no TENANT_HOT
\* for a request that is looked up as a chain, and nothing but a refusal (or a
\* timeout) for a request without a chain where one is required.
GatesHonoured ==
  \A h \in Handler : \A a \in call[h].answer :
    LET req == call[h].req
        under(test(_)) == \E p \in call[h].pols : test(p)
        short(p) == effectivePrefixTokens(call[h].in) < MinimumPrefixTokens(p)
    IN
    /\ a.reason \in {"PREFIX_MATCH", "TENANT_HOT"} => under(LAMBDA p : ~short(p))
    /\ a.reason = "PREFIX_MATCH" =>
         /\ under(LAMBDA p : \A s \in a.scores : s.tokens >= MinimumMatchedTokens(p))
         /\ under(LAMBDA p : TopScore(a.scores) * FloorUnit >= RoutingFloorScore(p) * ScoreUnit(call[h].lk.ttl))
    /\ a.reason = "TENANT_HOT" =>
         /\ under(TenantHotEnabled)
         /\ CarriesChain(req) \/ Given(req.toks) \/ Given(req.text) => under(LAMBDA p : ~ChainMatchingEnabled(p))
               \/ (req.ph # NoHash /\ ~CarriesChain(req))
    /\ a.reason = "AFFINITY_HINT" => under(AffinityRoutingEnabled)
    /\ req.tenant # ProbeTenantID /\ ~requestCarriesValidBlockHashChain(req) =>
         a.reason \in {"TIMEOUT", "POLICY_REQUIRES_CHAIN"} \/ under(LAMBDA p : ~ChainRequired(p))
    /\ a.reason = "POLICY_REQUIRES_CHAIN" => under(ChainRequired)

\* A tokenizer slot is taken exactly as long as an Encode runs, also when its
\* handler has timed out and gone, and no more run than the limit.
SlotsMatchEncodes ==
  /\ slots = orphans.encode + Cardinality({h \in Handler : At(h, "resolve") /\ call[h].resolver = "encode"})
  /\ slots <= MaxConcurrentTokenize

\* A body of an older schema leaves the gates it does not know at the server's
\* defaults, and what a body of a schema that knows a gate says of it is what
\* the accessor returns, explicit opt-outs included.
OldBodiesKeepDefaults ==
  \A b \in body :
    LET p == b.policy
        since(v, explicit, default) == IF b.version < v THEN default ELSE explicit
    IN
    /\ MinimumMatchedTokens(policy) = since(4, AtLeastZero(p.minimumMatchedTokens), DefaultMinimumMatchedTokens)
    /\ p.routingFloorScore # {} =>
         RoutingFloorScore(policy) = since(5, AtLeastZero(OrElse(p.routingFloorScore, 0)), DefaultRoutingFloorScore)
    /\ p.routingFloorScore = {} => RoutingFloorScore(policy) = DefaultRoutingFloorScore
    /\ \A g \in p.strategy : TenantHotEnabled(policy) = since(6, OrElse(g.enableTenantHot, TRUE), TRUE)
    /\ p.strategy = {} => ChainMatchingEnabled(policy) /\ ~ChainRequired(policy) /\ TenantHotEnabled(policy)
    /\ AffinityRoutingEnabled(policy) = since(7, OrElse(p.affinityRouting, TRUE), TRUE)

\* The blocks of a chain that a replica holds fresh, from the first on
LeadingRun(req, in, lk, replica) ==
  LET fresh(i) == LET k == Key(Scope(req), in.chain[i], replica) IN
                  k \in DOMAIN held /\ freshnessAt(lk.now, held[k].seen, lk.ttl) > 0
  IN  Max({0} \cup {n \in DOMAIN in.chain : \A i \in 1..n : fresh(i)})

\* The chain walk scores exactly the replicas with a leading run of fresh
\* blocks, by the tokens of their longest one and the coldest tier in it; it
\* goes on to classify the miss exactly when there is none.
MatchIsLongestRun ==
  [][\A h \in Handler :
       LookupAt(h, "match") /\ call[h].in.chain # <<>> /\ call'[h].lk.at \in {"done", "classify"} =>
         LET c == call[h]
             run(r) == LeadingRun(c.req, c.in, c.lk, r)
             tokens(r) == sumBlockTokenCounts(SubSeq(c.in.counts, 1, run(r)))
             tiers(r) == {held[Key(Scope(c.req), c.in.chain[i], r)].tier : i \in 1..run(r)}
             scores == IF call'[h].lk.at = "done" THEN call'[h].result.scores ELSE {}
         IN  {<<s.replica, s.tokens, s.tier>> : s \in scores}
               = {<<r, tokens(r), IF 0 \in tiers(r) THEN 0 ELSE Max(tiers(r))>> :
                    r \in {r \in Replica : tokens(r) > 0}}]_vars

\* Ranking a chain match: of two replicas equally pressed, the one with the
\* longer run, no staler than the other's, does not score less; and the only
\* replica with the longest run is not levelled to zero by its shallower peers.
DeeperNeverLower ==
  [][\A h \in Handler :
       LookupAt(h, "match") /\ call[h].in.chain # <<>> /\ call'[h].lk.at = "done" =>
         LET c == call[h]
             scores == call'[h].result.scores
             oldest(s) == ChainWalk(c.req, c.in, c.lk)[s.replica].oldest
             pressure(s) == Pressure(c.req, c.lk, s.replica)
         IN  \A a, b \in scores : a.tokens > b.tokens =>
               /\ oldest(a) >= oldest(b) /\ pressure(a) = pressure(b) => a.score >= b.score
               /\ (\A d \in scores \ {a} : d.tokens < a.tokens) /\ pressure(a) < PressureUnit => a.score > 0]_vars

TextOnly(req) == Given(req.text) /\ ~Given(req.toks) /\ ~CarriesChain(req) /\ req.ph = NoHash
Asked(req) == [text |-> Given(req.text), textOnly |-> TextOnly(req)]
CallsAsked == [h \in Handler |-> IF At(h, "idle") THEN {} ELSE {Asked(call[h].req)}]
CallsAnswered == [h \in Handler |-> call[h].answer]

Contract == INSTANCE LookupContract WITH
  Entry <- Entries, asked <- CallsAsked, answer <- CallsAnswered, access <- access

\* The handler implements the contract: one answer to every call, hints with
\* replicas and misses without, credit only for what is delivered.
ImplementsContract == Contract!Spec

\* The policy gates, from the body that was pushed to the answer that is given
\* (normalizePolicyForVersion and the accessors, LookupRoute).
PolicyGates == GatesHonoured /\ OldBodiesKeepDefaults

\* The chain match and its ranking, against their definitions in terms of what
\* is held (lookupChain, applyChainDistinguishingPower).
ChainMatchRight == MatchIsLongestRun /\ DeeperNeverLower
=============================================================================
