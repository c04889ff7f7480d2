------------------------- MODULE LookupGroundProofs -------------------------
(***************************************************************************)
(* What a routing answer says against what the index held while the call   *)
(* ran.  Every call carries two history sets: the keys held at some moment *)
(* of it (ever) and at every moment of it (always).  GroundInv relates the *)
(* result a handler carries from stage to stage to the two sets; ingests,  *)
(* evictions and policy pushes between the stages only widen the first and *)
(* narrow the second, so what a stage has established stays true until the *)
(* answer is given.                                                        *)
(***************************************************************************)
EXTENDS LookupRouteProofs

-----------------------------------------------------------------------------
(* The order of an affinity pick.                                          *)
Ascending(seq, S) ==
  /\ seq \in [1..Cardinality(S) -> S]
  /\ \A i, j \in 1..Cardinality(S) : i < j => seq[i] < seq[j]

LEMMA SortedExists == ASSUME NEW S, S \subseteq Nat, IsFiniteSet(S) PROVE \E seq : Ascending(seq, S)
<1> DEFINE Bad(n) == \E T : T \subseteq Nat /\ IsFiniteSet(T) /\ Cardinality(T) = n /\ ~ \E seq : Ascending(seq, T)
           B == {n \in Nat : Bad(n)}
<1>1. ASSUME B # {} PROVE FALSE
  <2>1. PICK n \in B : \A m \in B : n <= m
    <3>1. B \subseteq Nat
      OBVIOUS
    <3> HIDE DEF B
    <3> QED BY <1>1, <3>1, LeastNat, ZenonT(60)
  <2>2. PICK T : T \subseteq Nat /\ IsFiniteSet(T) /\ Cardinality(T) = n /\ ~ \E seq : Ascending(seq, T)
    BY <2>1
  <2>3. n \in Nat
    BY <2>1
  <2>4. CASE T = {}
    <3>1. Cardinality(T) = 0
      BY <2>4, FS_EmptySet
    <3>2. Ascending([i \in 1..0 |-> 0], T)
      BY <3>1 DEF Ascending
    <3> QED BY <2>2, <3>2
  <2>5. CASE T # {}
    <3>1. PICK x \in T : \A y \in T : x <= y
      BY <2>2, <2>5, LeastNat, ZenonT(60)
    <3> DEFINE U == T \ {x}
    <3>2. U \subseteq Nat /\ IsFiniteSet(U) /\ Cardinality(U) = n - 1 /\ n - 1 \in Nat
      <4>1. IsFiniteSet(U) /\ Cardinality(U) = Cardinality(T) - 1
        BY <2>2, FS_RemoveElement
      <4>2. Cardinality(U) \in Nat
        BY <4>1, FS_CardinalityType
      <4> QED BY <2>2, <2>3, <4>1, <4>2
    <3>3. n - 1 \notin B
      BY <2>1, <2>3
    <3>4. PICK s : Ascending(s, U)
      BY <3>2, <3>3
    <3> DEFINE seq == [i \in 1..n |-> IF i = 1 THEN x ELSE s[i - 1]]
    <3>5. s \in [1..(n - 1) -> U] /\ \A i, j \in 1..(n - 1) : i < j => s[i] < s[j]
      BY <3>2, <3>4, ZenonT(60) DEF Ascending
    <3>6. \A i \in 1..n : i # 1 => i - 1 \in 1..(n - 1)
      BY <2>3
    <3>7. \A i \in 1..n : seq[i] \in T /\ (i # 1 => seq[i] = s[i - 1] /\ seq[i] \in U) /\ (i = 1 => seq[i] = x)
      BY <3>5, <3>6
    <3>8. seq \in [1..n -> T]
      BY <3>7
    <3>9. \A u \in U : x < u
      BY <2>2, <3>1
    <3>10. \A i, j \in 1..n : i < j => seq[i] < seq[j]
      <4> HIDE DEF seq, U
      <4> SUFFICES ASSUME NEW i \in 1..n, NEW j \in 1..n, i < j PROVE seq[i] < seq[j]
        OBVIOUS
      <4>1. j # 1 /\ j - 1 \in 1..(n - 1) /\ seq[j] = s[j - 1] /\ seq[j] \in U
        BY <3>6, <3>7
      <4>2. CASE i = 1
        BY <3>7, <3>9, <4>1, <4>2
      <4>3. CASE i # 1
        <5>1. i - 1 \in 1..(n - 1) /\ seq[i] = s[i - 1] /\ i - 1 < j - 1
          BY <3>6, <3>7, <4>3
        <5> QED BY <3>5, <4>1, <5>1
      <4> QED BY <4>2, <4>3
    <3> HIDE DEF seq
    <3>11. Ascending(seq, T)
      BY <2>2, <3>8, <3>10 DEF Ascending
    <3> QED BY <2>2, <3>11
  <2> QED BY <2>4, <2>5
<1>2. Cardinality(S) \in Nat
  BY FS_CardinalityType
<1> QED BY <1>1, <1>2, ZenonT(60)

LEMMA SortedOK == ASSUME NEW S, S \subseteq Nat, IsFiniteSet(S) PROVE Ascending(Sorted(S), S)
<1>1. \E seq \in [1..Cardinality(S) -> S] : \A i, j \in 1..Cardinality(S) : i < j => seq[i] < seq[j]
  BY SortedExists, ZenonT(60) DEF Ascending
<1> QED BY <1>1, ZenonT(60) DEF Sorted, Ascending

(* AffinityHint picks a replica that serves the scope, if there is one.    *)
LEMMA AffinityHintOK ==
  ASSUME HeldOK, NEW req, NEW seed \in Seeds
  PROVE  /\ AffinityHint(req, seed) \subseteq servingByScope(Scope(req))
         /\ AffinityHint(req, seed) = {} => servingByScope(Scope(req)) = {}
<1> DEFINE S == servingByScope(Scope(req))
           R == replicasForRouting(req)
           n == Cardinality(S)
<1>1. S \subseteq Replica
  BY DEF servingByScope, HeldOK
<1>2. S \subseteq Nat /\ IsFiniteSet(S) /\ n \in Nat
  BY <1>1, ConstantAssumption, FS_Subset, FS_CardinalityType, ZenonT(60)
<1>3. R \in [1..n -> S]
  BY <1>2, SortedOK DEF replicasForRouting, Ascending
<1>4. Digest(seed) \in Nat
  BY ConstantAssumption
<1> HIDE DEF S, R, n
<1>5. CASE n = 0
  <2>1. S = {}
    BY <1>2, <1>5, FS_EmptySet DEF n
  <2>2. R = <<>>
    BY <1>3, <1>5
  <2> QED BY <2>1, <2>2 DEF AffinityHint, R, S
<1>6. CASE n # 0
  <2>1. Len(R) = n /\ R # <<>> /\ R \in Seq(S)
    BY <1>2, <1>3, <1>6
  <2>2. 1 + (Digest(seed) % n) \in 1..n
    BY <1>2, <1>4, <1>6
  <2>3. AffinityHint(req, seed) = {R[1 + (Digest(seed) % n)]}
    BY <2>1 DEF AffinityHint, R
  <2>4. R[1 + (Digest(seed) % n)] \in S
    BY <1>3, <2>2
  <2> QED BY <2>3, <2>4 DEF S
<1> QED BY <1>5, <1>6

-----------------------------------------------------------------------------
(* What an answer says against what the call met.                          *)
Serving(req, keys) == {k.replica : k \in {k \in keys : k.scope = Scope(req)}}

Seedable(c) ==
  /\ affinityEligible(c.req) /\ canonicalAffinitySeed(c.in) # <<>>
  /\ \A p \in c.pols : AffinityRoutingEnabled(p)

Lacks(level, req, keys) ==
  /\ level = "unknown_tenant" => \A k \in keys : k.scope.tenant # req.tenant
  /\ level = "unknown_model" => \A k \in keys : k.scope.tenant # req.tenant \/ k.scope.model # req.model
  /\ level = "unknown_hash_scheme" => \A k \in keys : k.scope # Scope(req)

ResultGrounded(c) ==
  /\ \A s \in c.result.scores : s.replica \in Serving(c.req, c.ever)
  /\ Lacks(c.result.strategy, c.req, c.always)

AnswerOf(c) ==
  \A a \in c.answer :
    /\ a.replicas \subseteq Serving(c.req, c.ever)
    /\ a.reason = "UNKNOWN_TENANT" => Lacks("unknown_tenant", c.req, c.always)
    /\ a.reason = "UNKNOWN_MODEL" => Lacks("unknown_model", c.req, c.always)
    /\ a.reason = "UNKNOWN_HASH_SCHEME" => Lacks("unknown_hash_scheme", c.req, c.always)
    /\ a.reason = "NO_HINT" /\ ~c.in.failOpen /\ Seedable(c) => Serving(c.req, c.always) = {}

(* A miss comes to its delivery only past the affinity fallback.           *)
PlaceGrounded(c) ==
  /\ c.pc \in Early => c.in = NoInputs
  /\ c.pc = "hot_gate" => c.result.strategy = "tenant_hot"
  /\ c.pc = "min_prefix" => c.result.strategy \in {"prefix_match", "tenant_hot"}
  /\ c.pc = "pick" => canonicalAffinitySeed(c.in) # <<>>
  /\ c.pc = "deliver" /\ c.result.strategy = "none" /\ Seedable(c) => Serving(c.req, c.always) = {}

(* K are the keys held, P the policy in force.                             *)
Ground(c, K, P) ==
  /\ c.pc \notin {"idle", "answered"} => c.always \subseteq K /\ K \subseteq c.ever /\ P \in c.pols
  /\ ResultGrounded(c) /\ PlaceGrounded(c)
  /\ c.pc = "answered" => AnswerOf(c)

GroundInv == \A h \in Handler : Ground(call[h], DOMAIN held, policy)

LEMMA GroundPrime ==
  ASSUME \A h \in Handler : Ground(call'[h], DOMAIN held', policy')
  PROVE  GroundInv'
BY ZenonT(30) DEF GroundInv, Ground, ResultGrounded, PlaceGrounded, AnswerOf, Lacks, Serving, Seedable, Scope, Early, NoInputs,
       affinityEligible, canonicalAffinitySeed, CarriesChain, AffinityRoutingEnabled

LEMMA GroundedIs == ASSUME GroundInv PROVE AnswerGrounded
<1> SUFFICES ASSUME NEW h \in Handler, At(h, "answered")
             PROVE  LET req == call[h].req
                        always == call[h].always
                    IN
                    /\ \A a \in call[h].answer : a.replicas \subseteq SeenServing(h, call[h].ever)
                    /\ Answered(h, {"UNKNOWN_TENANT"}) => \A k \in always : k.scope.tenant # req.tenant
                    /\ Answered(h, {"UNKNOWN_MODEL"}) =>
                         \A k \in always : k.scope.tenant # req.tenant \/ k.scope.model # req.model
                    /\ Answered(h, {"UNKNOWN_HASH_SCHEME"}) => \A k \in always : k.scope # Scope(req)
                    /\ /\ Answered(h, {"NO_HINT"}) /\ ~call[h].in.failOpen
                       /\ affinityEligible(req) /\ canonicalAffinitySeed(call[h].in) # <<>>
                       /\ \A p \in call[h].pols : AffinityRoutingEnabled(p)
                       => SeenServing(h, always) = {}
  BY ZenonT(60) DEF AnswerGrounded
<1>1. AnswerOf(call[h])
  BY DEF GroundInv, Ground, At
<1>2. \A keys : SeenServing(h, keys) = Serving(call[h].req, keys)
  BY DEF SeenServing, Serving
<1> QED BY <1>1, <1>2, ZenonT(60) DEF AnswerOf, Answered, Lacks, Seedable

(* The steps of one handler, whose call becomes d.                         *)
LEMMA GroundOne ==
  ASSUME CallsOK, GroundInv, NEW h \in Handler, NEW d, Change(h, d), UNCHANGED <<held, policy>>,
         Ground(d, DOMAIN held, policy)
  PROVE  GroundInv'
<1>1. \A g \in Handler : Ground(call'[g], DOMAIN held', policy')
  BY ChangeFacts DEF GroundInv
<1> QED BY <1>1, GroundPrime

LEMMA GroundMoves ==
  ASSUME NEW c, NEW d, NEW K, NEW P, Ground(c, K, P), c.pc \notin {"idle", "answered"}, d.pc \notin {"idle", "answered"},
         d.req = c.req, d.pols = c.pols, d.ever = c.ever, d.always = c.always, ResultGrounded(d), PlaceGrounded(d)
  PROVE  Ground(d, K, P)
BY DEF Ground

LEMMA GroundAnswers ==
  ASSUME NEW c, NEW d, NEW K, NEW P, Ground(c, K, P), d.pc = "answered", d.result = c.result,
         d.req = c.req, d.pols = c.pols, d.ever = c.ever, d.always = c.always, AnswerOf(d)
  PROVE  Ground(d, K, P)
<1>1. ResultGrounded(d)
  BY DEF Ground, ResultGrounded
<1>2. PlaceGrounded(d)
  BY DEF PlaceGrounded, Early
<1> QED BY <1>1, <1>2 DEF Ground

LEMMA GoesGround ==
  ASSUME CallsOK, GroundInv, NEW h \in Handler, NEW place \in Late, Goes(h, place), UNCHANGED <<held, policy>>,
         call[h].pc \notin {"idle", "answered"},
         place = "hot_gate" => call[h].result.strategy = "tenant_hot",
         place = "min_prefix" => call[h].result.strategy \in {"prefix_match", "tenant_hot"},
         place = "pick" => canonicalAffinitySeed(call[h].in) # <<>>,
         place = "deliver" /\ call[h].result.strategy = "none" /\ Seedable(call[h])
           => Serving(call[h].req, call[h].always) = {}
  PROVE  GroundInv'
<1> DEFINE c == call[h]
           d == [c EXCEPT !.pc = place]
<1>1. /\ d.pc = place /\ d.req = c.req /\ d.pols = c.pols /\ d.ever = c.ever /\ d.always = c.always
      /\ d.in = c.in /\ d.result = c.result
  BY DEF CallsOK, CallOK, Fields
<1>2. Change(h, d)
  BY DEF Goes
<1>3. Ground(c, DOMAIN held, policy)
  BY DEF GroundInv
<1>4. place \notin Early /\ place \notin {"idle", "answered"}
  BY DEF Early, Late
<1> HIDE DEF d
<1>5. ResultGrounded(d)
  BY <1>1, <1>3 DEF Ground, ResultGrounded
<1>6. PlaceGrounded(d)
  BY <1>1, <1>4 DEF PlaceGrounded, Seedable
<1>7. Ground(d, DOMAIN held, policy)
  BY <1>1, <1>3, <1>4, <1>5, <1>6, GroundMoves
<1> QED BY <1>2, <1>7, GroundOne

LEMMA NoResultGrounded == ASSUME NEW c, c.result = NoResult PROVE ResultGrounded(c)
BY DEF ResultGrounded, NoResult, NoScores, Lacks

LEMMA DowngradeGround ==
  ASSUME CallsOK, GroundInv, NEW h \in Handler, Downgrade(h), UNCHANGED <<held, policy>>,
         call[h].pc \notin {"idle", "answered"}
  PROVE  GroundInv'
<1> DEFINE c == call[h]
           d == [c EXCEPT !.pc = "affinity", !.result = NoResult]
<1>1. /\ d.pc = "affinity" /\ d.req = c.req /\ d.pols = c.pols /\ d.ever = c.ever /\ d.always = c.always
      /\ d.result = NoResult
  BY DEF CallsOK, CallOK, Fields
<1>2. Change(h, d)
  BY DEF Downgrade
<1>3. Ground(c, DOMAIN held, policy)
  BY DEF GroundInv
<1> HIDE DEF d
<1>4. ResultGrounded(d) /\ PlaceGrounded(d)
  BY <1>1, NoResultGrounded DEF PlaceGrounded, Early
<1>5. Ground(d, DOMAIN held, policy)
  BY <1>1, <1>3, <1>4, GroundMoves
<1> QED BY <1>2, <1>5, GroundOne

LEMMA MissGround ==
  ASSUME CallsOK, GroundInv, NEW h \in Handler, NEW reason \in {"TIMEOUT", "POLICY_REQUIRES_CHAIN", "NO_HINT"},
         NEW echo, Answers(h, reason, {}, echo), UNCHANGED <<held, policy>>,
         reason = "NO_HINT" => call[h].in.failOpen \/ ~Seedable(call[h])
  PROVE  GroundInv'
<1> DEFINE c == call[h]
           a == [reason |-> reason, scores |-> {}, replicas |-> {s.replica : s \in {}},
                 entries |-> UNION {s.run : s \in {}}, echo |-> echo]
           d == [c EXCEPT !.pc = "answered", !.answer = {a}]
<1>1. /\ d.pc = "answered" /\ d.req = c.req /\ d.pols = c.pols /\ d.ever = c.ever /\ d.always = c.always
      /\ d.in = c.in /\ d.result = c.result /\ d.answer = {a}
  BY DEF CallsOK, CallOK, Fields
<1>2. Change(h, d)
  BY DEF Answers, Reply
<1>3. Ground(c, DOMAIN held, policy)
  BY DEF GroundInv
<1>4. a.reason = reason /\ a.replicas = {}
  OBVIOUS
<1> HIDE DEF d, a
<1>5. AnswerOf(d)
  BY <1>1, <1>4 DEF AnswerOf, Seedable
<1>6. Ground(d, DOMAIN held, policy)
  BY <1>1, <1>3, <1>5, GroundAnswers
<1> QED BY <1>2, <1>6, GroundOne

(* Up to the resolution: nothing is found yet, and no inputs are known.    *)
LEMMA EarlyGround ==
  ASSUME CallsOK, GroundInv, NEW h \in Handler, UNCHANGED <<held, policy>>,
         Budget(h) \/ ReadChainMatching(h) \/ ChainGate(h)
  PROVE  GroundInv'
<1> DEFINE c == call[h]
<1>1. /\ c.pc \in {"budget", "chain", "gate"} /\ c.in = NoInputs /\ Ground(c, DOMAIN held, policy)
      /\ DOMAIN c = Fields
  BY ZenonT(60) DEF Budget, ReadChainMatching, ChainGate, At, GroundInv, Ground, PlaceGrounded, Early, CallsOK, CallOK
<1>2. ~Seedable(c)
  BY <1>1 DEF Seedable, canonicalAffinitySeed, NoInputs
<1>3. \/ Answers(h, "TIMEOUT", {}, FALSE) \/ Answers(h, "NO_HINT", {}, c.in.echo)
      \/ Answers(h, "POLICY_REQUIRES_CHAIN", {}, FALSE)
      \/ \E d : /\ Change(h, d) /\ d.pc \in {"chain", "gate", "resolve"} /\ d.in = c.in /\ d.result = c.result
                /\ d.req = c.req /\ d.pols = c.pols /\ d.ever = c.ever /\ d.always = c.always
  <2>1. CASE Budget(h)
    <3>1. CASE c.req.tenant = ProbeTenantID
      BY <2>1, <3>1, ZenonT(60) DEF Budget, noHintResponse
    <3>2. CASE c.req.tenant # ProbeTenantID
      <4> DEFINE d == [c EXCEPT !.pc = "chain", !.budget = HasLookupTimeout(policy),
                                !.deadline = HasLookupTimeout(policy) \/ c.req.deadline]
      <4>1. Change(h, d)
        BY <2>1, <3>2 DEF Budget
      <4>2. /\ d.pc = "chain" /\ d.in = c.in /\ d.result = c.result
            /\ d.req = c.req /\ d.pols = c.pols /\ d.ever = c.ever /\ d.always = c.always
        BY <1>1 DEF Fields
      <4> HIDE DEF d
      <4> QED BY <4>1, <4>2, ZenonT(60)
    <3> QED BY <3>1, <3>2, ZenonT(60)
  <2>2. CASE ReadChainMatching(h)
    <3> DEFINE enabled == ChainMatchingEnabled(policy)
               d == [c EXCEPT !.pc = "gate", !.chain = enabled, !.deadline = @ \/ willTokenize(c.req, enabled)]
    <3>1. Change(h, d)
      BY <2>2 DEF ReadChainMatching
    <3>2. /\ d.pc = "gate" /\ d.in = c.in /\ d.result = c.result
          /\ d.req = c.req /\ d.pols = c.pols /\ d.ever = c.ever /\ d.always = c.always
      BY <1>1 DEF Fields
    <3> HIDE DEF d
    <3> QED BY <3>1, <3>2, ZenonT(60)
  <2>3. CASE ChainGate(h)
    <3> DEFINE d == [c EXCEPT !.pc = "resolve", !.resolver = "start"]
    <3>1. \/ Answers(h, "TIMEOUT", {}, FALSE) \/ Answers(h, "POLICY_REQUIRES_CHAIN", {}, FALSE) \/ Change(h, d)
      BY <2>3, ZenonT(60) DEF ChainGate, timeoutResponse, policyGateResponse
    <3>2. /\ d.pc = "resolve" /\ d.in = c.in /\ d.result = c.result
          /\ d.req = c.req /\ d.pols = c.pols /\ d.ever = c.ever /\ d.always = c.always
      BY <1>1 DEF Fields
    <3> HIDE DEF d
    <3> QED BY <3>1, <3>2, ZenonT(60)
  <2> QED BY <2>1, <2>2, <2>3, ZenonT(60)
<1>4. ASSUME NEW d, Change(h, d), d.pc \in {"chain", "gate", "resolve"}, d.in = c.in, d.result = c.result,
             d.req = c.req, d.pols = c.pols, d.ever = c.ever, d.always = c.always
      PROVE  GroundInv'
  <2>1. ResultGrounded(d)
    BY <1>1, <1>4 DEF Ground, ResultGrounded
  <2>2. PlaceGrounded(d)
    BY <1>1, <1>4 DEF PlaceGrounded
  <2>3. Ground(d, DOMAIN held, policy)
    BY <1>1, <1>4, <2>1, <2>2, GroundMoves
  <2> QED BY <1>4, <2>3, GroundOne
<1> QED BY <1>2, <1>3, <1>4, MissGround, ZenonT(60)

LEMMA ResolveGround ==
  ASSUME CallsOK, GroundInv, NEW h \in Handler, UNCHANGED <<held, policy>>, Resolve(h) \/ EncodeReturns(h)
  PROVE  GroundInv'
<1> DEFINE c == call[h]
<1>1. c.pc = "resolve" /\ Ground(c, DOMAIN held, policy) /\ DOMAIN c = Fields
  BY ZenonT(30) DEF Resolve, EncodeReturns, At, GroundInv, CallsOK, CallOK
<1>2. \/ Change(h, [c EXCEPT !.resolver = "encode"])
      \/ \E in : Change(h, [c EXCEPT !.resolver = "done", !.in = in])
  BY ZenonT(60) DEF Resolve, EncodeReturns, Resolved
<1>3. PICK d : /\ Change(h, d) /\ d.pc = "resolve" /\ d.result = c.result
               /\ d.req = c.req /\ d.pols = c.pols /\ d.ever = c.ever /\ d.always = c.always
  <2>1. CASE Change(h, [c EXCEPT !.resolver = "encode"])
    <3> DEFINE d == [c EXCEPT !.resolver = "encode"]
    <3>1. /\ d.pc = "resolve" /\ d.result = c.result
          /\ d.req = c.req /\ d.pols = c.pols /\ d.ever = c.ever /\ d.always = c.always
      BY <1>1 DEF Fields
    <3> QED BY <2>1, <3>1, ZenonT(60)
  <2>2. ASSUME NEW in, Change(h, [c EXCEPT !.resolver = "done", !.in = in])
        PROVE  \E d : /\ Change(h, d) /\ d.pc = "resolve" /\ d.result = c.result
                      /\ d.req = c.req /\ d.pols = c.pols /\ d.ever = c.ever /\ d.always = c.always
    <3> DEFINE d == [c EXCEPT !.resolver = "done", !.in = in]
    <3>1. /\ d.pc = "resolve" /\ d.result = c.result
          /\ d.req = c.req /\ d.pols = c.pols /\ d.ever = c.ever /\ d.always = c.always
      BY <1>1 DEF Fields
    <3> QED BY <2>2, <3>1, ZenonT(60)
  <2> QED BY <1>2, <2>1, <2>2, ZenonT(60)
<1>4. ResultGrounded(d) /\ PlaceGrounded(d)
  BY <1>1, <1>3 DEF Ground, ResultGrounded, PlaceGrounded, Early
<1>5. Ground(d, DOMAIN held, policy)
  BY <1>1, <1>3, <1>4, GroundMoves
<1> QED BY <1>3, <1>5, GroundOne

(* The gates, each under a policy the call has met.                        *)
LEMMA GatesGround ==
  ASSUME CallsOK, GroundInv, NEW h \in Handler, UNCHANGED <<held, policy>>,
         \/ ResolveTimeout(h) \/ TakeInputs(h) \/ Admit(h) \/ AdmitAffinity(h) \/ LookupTimeout(h) \/ TakeResult(h)
         \/ TenantHotGate(h) \/ MinimumPrefixGate(h) \/ RoutingFloorGate(h) \/ TryAffinity(h)
  PROVE  GroundInv'
<1> DEFINE c == call[h]
<1>1. c.pc \in Late \cup {"resolve"} /\ c.pc \notin {"idle", "answered"}
  BY ZenonT(60) DEF ResolveTimeout, TakeInputs, Admit, AdmitAffinity, LookupTimeout, TakeResult, LookupAt, TenantHotGate,
         MinimumPrefixGate, RoutingFloorGate, TryAffinity, At, Late
<1>2. /\ policy \in c.pols /\ PlaceGrounded(c) /\ ResultOK(c.result)
      /\ (c.pc = "floor" => c.result.strategy = "prefix_match")
  BY <1>1, ZenonT(60) DEF GroundInv, Ground, CallsOK, CallOK
<1>3. CASE ResolveTimeout(h) \/ LookupTimeout(h)
  <2>1. \E echo : Answers(h, "TIMEOUT", {}, echo)
    BY <1>3, ZenonT(60) DEF ResolveTimeout, LookupTimeout, timeoutResponse
  <2> QED BY <2>1, MissGround
<1>4. CASE TakeInputs(h)
  <2>1. \/ Answers(h, "TIMEOUT", {}, c.in.echo)
        \/ c.in.failOpen /\ Answers(h, "NO_HINT", {}, c.in.echo)
        \/ Goes(h, "admit")
    BY <1>4 DEF TakeInputs, timeoutResponse, noHintResponse
  <2> QED BY <1>1, <2>1, MissGround, GoesGround DEF Late
<1>5. CASE Admit(h)
  <2>1. Goes(h, "admit_affinity") \/ Goes(h, "lookup")
    BY <1>5 DEF Admit
  <2> QED BY <1>1, <2>1, GoesGround DEF Late
<1>6. CASE AdmitAffinity(h)
  <2>1. \/ Goes(h, "lookup")
        \/ ~AffinityRoutingEnabled(policy) /\ Answers(h, "NO_HINT", {}, c.in.echo)
    BY <1>6 DEF AdmitAffinity, noHintResponse
  <2>2. ~AffinityRoutingEnabled(policy) => ~Seedable(c)
    BY <1>2 DEF Seedable
  <2> QED BY <1>1, <2>1, <2>2, GoesGround, MissGround DEF Late
<1>7. CASE TakeResult(h)
  <2>1. Answers(h, "TIMEOUT", {}, c.in.echo) \/ Goes(h, GateOf(c.result.strategy))
    BY <1>7 DEF TakeResult, timeoutResponse
  <2>2. /\ GateOf(c.result.strategy) \in Late
        /\ GateOf(c.result.strategy) = "hot_gate" => c.result.strategy = "tenant_hot"
        /\ GateOf(c.result.strategy) = "min_prefix" => c.result.strategy = "prefix_match"
        /\ GateOf(c.result.strategy) = "deliver" => c.result.strategy # "none"
        /\ GateOf(c.result.strategy) # "pick"
    BY DEF GateOf, Late
  <2> QED BY <1>1, <2>1, <2>2, MissGround, GoesGround, ZenonT(60)
<1>8. CASE TenantHotGate(h)
  <2>1. (Goes(h, "min_prefix") \/ Downgrade(h)) /\ c.result.strategy = "tenant_hot"
    BY <1>2, <1>8 DEF TenantHotGate, At, PlaceGrounded
  <2> QED BY <1>1, <2>1, GoesGround, DowngradeGround, SMTT(20) DEF Late
<1>9. CASE MinimumPrefixGate(h)
  <2>1. /\ Goes(h, "min_matched") \/ Goes(h, "deliver") \/ Downgrade(h)
        /\ c.result.strategy \in {"prefix_match", "tenant_hot"}
    BY <1>2, <1>9 DEF MinimumPrefixGate, At, PlaceGrounded
  <2> QED BY <1>1, <2>1, GoesGround, DowngradeGround, SMTT(20) DEF Late
<1>10. CASE RoutingFloorGate(h)
  <2>1. (Goes(h, "deliver") \/ Downgrade(h)) /\ c.result.strategy = "prefix_match"
    BY <1>2, <1>10 DEF RoutingFloorGate, At
  <2> QED BY <1>1, <2>1, GoesGround, DowngradeGround, SMTT(20) DEF Late
<1>11. CASE TryAffinity(h)
  <2>1. \/ Goes(h, "pick") /\ canonicalAffinitySeed(c.in) # <<>>
        \/ /\ Goes(h, "deliver")
           /\ ~(AffinityRoutingEnabled(policy) /\ affinityEligible(c.req) /\ canonicalAffinitySeed(c.in) # <<>>)
    BY <1>11 DEF TryAffinity
  <2>2. CASE Goes(h, "pick") /\ canonicalAffinitySeed(c.in) # <<>>
    BY <1>1, <2>2, GoesGround DEF Late
  <2>3. CASE Goes(h, "deliver") /\ ~Seedable(c)
    BY <1>1, <2>3, GoesGround DEF Late
  <2> QED BY <1>2, <2>1, <2>2, <2>3 DEF Seedable
<1> QED BY <1>3, <1>4, <1>5, <1>6, <1>7, <1>8, <1>9, <1>10, <1>11

LEMMA FloorGround ==
  ASSUME CallsOK, GroundInv, NEW h \in Handler, UNCHANGED <<held, policy>>, applyMatchedTokensFloor(h)
  PROVE  GroundInv'
<1> DEFINE c == call[h]
           keep == {s.replica : s \in {s \in c.result.scores : s.tokens >= MinimumMatchedTokens(policy)}}
           d == [c EXCEPT !.pc = "floor", !.result = RetainReplicas(@, keep)]
<1>1. /\ c.pc = "min_matched" /\ Ground(c, DOMAIN held, policy) /\ DOMAIN c = Fields /\ ResultOK(c.result)
      /\ c.result.strategy = "prefix_match"
  BY DEF applyMatchedTokensFloor, At, GroundInv, CallsOK, CallOK
<1>2. CASE Goes(h, "floor") \/ Downgrade(h)
  BY <1>1, <1>2, GoesGround, DowngradeGround DEF Late
<1>3. CASE Change(h, d)
  <2> HIDE DEF keep
  <2>1. /\ d.pc = "floor" /\ d.req = c.req /\ d.pols = c.pols /\ d.ever = c.ever /\ d.always = c.always
        /\ d.result = RetainReplicas(c.result, keep)
    BY <1>1 DEF Fields
  <2> HIDE DEF d
  <2>2. d.result.scores \subseteq c.result.scores /\ d.result.strategy = "prefix_match"
    BY <1>1, <2>1, SMTT(20) DEF RetainReplicas, ResultOK
  <2>3. ResultGrounded(d) /\ PlaceGrounded(d)
    BY <1>1, <2>1, <2>2 DEF Ground, ResultGrounded, Lacks, PlaceGrounded, Early
  <2>4. Ground(d, DOMAIN held, policy)
    BY <1>1, <2>1, <2>3, GroundMoves, SMTT(20)
  <2> QED BY <1>3, <2>4, GroundOne
<1> QED BY <1>2, <1>3 DEF applyMatchedTokensFloor

(* The stages of the lookup: what is found serves the scope now, so at     *)
(* some moment of the call.                                                *)
LEMMA FoundGround ==
  ASSUME CallsOK, GroundInv, NEW h \in Handler, UNCHANGED <<held, policy>>, call[h].pc = "lookup",
         NEW res, Found(h, res), \A s \in res.scores : s.replica \in servingByScope(Scope(call[h].req)),
         Lacks(res.strategy, call[h].req, DOMAIN held)
  PROVE  GroundInv'
<1> DEFINE c == call[h]
           d == [c EXCEPT !.lk.at = "done", !.result = res]
<1>1. Ground(c, DOMAIN held, policy) /\ DOMAIN c = Fields
  BY ZenonT(60) DEF GroundInv, CallsOK, CallOK
<1>2. /\ d.pc = "lookup" /\ d.req = c.req /\ d.pols = c.pols /\ d.ever = c.ever /\ d.always = c.always
      /\ d.result = res
  BY <1>1 DEF Fields
<1>3. Change(h, d)
  BY DEF Found
<1> HIDE DEF d
<1>4. c.always \subseteq DOMAIN held /\ DOMAIN held \subseteq c.ever
  BY <1>1 DEF Ground
<1>5. servingByScope(Scope(c.req)) \subseteq Serving(c.req, c.ever)
  BY <1>4 DEF servingByScope, Serving
<1>6. ResultGrounded(d)
  BY <1>2, <1>4, <1>5 DEF ResultGrounded, Lacks
<1>7. PlaceGrounded(d)
  BY <1>2 DEF PlaceGrounded, Early
<1>8. Ground(d, DOMAIN held, policy)
  BY <1>1, <1>2, <1>6, <1>7, GroundMoves
<1> QED BY <1>3, <1>8, GroundOne

LEMMA StageGround ==
  ASSUME CallsOK, GroundInv, NEW h \in Handler, UNCHANGED <<held, policy>>, call[h].pc = "lookup", NEW lk,
         Change(h, [call[h] EXCEPT !.lk = lk])
  PROVE  GroundInv'
<1> DEFINE c == call[h]
           d == [c EXCEPT !.lk = lk]
<1>1. Ground(c, DOMAIN held, policy) /\ DOMAIN c = Fields
  BY DEF GroundInv, CallsOK, CallOK
<1>2. /\ d.pc = "lookup" /\ d.req = c.req /\ d.pols = c.pols /\ d.ever = c.ever /\ d.always = c.always
      /\ d.result = c.result
  BY <1>1 DEF Fields
<1>3. Change(h, d)
  OBVIOUS
<1> HIDE DEF d
<1>4. ResultGrounded(d) /\ PlaceGrounded(d)
  BY <1>1, <1>2 DEF Ground, ResultGrounded, PlaceGrounded, Early
<1>5. Ground(d, DOMAIN held, policy)
  BY <1>1, <1>2, <1>4, GroundMoves
<1> QED BY <1>3, <1>5, GroundOne

LEMMA MatchGround ==
  ASSUME CallsOK, HeldOK, GroundInv, NEW h \in Handler, UNCHANGED <<held, policy>>, LookupStart(h) \/ LookupMatch(h)
  PROVE  GroundInv'
<1> DEFINE c == call[h]
<1>1. c.pc = "lookup" /\ DOMAIN c = Fields
  BY DEF LookupStart, LookupMatch, LookupAt, At, CallsOK, CallOK
<1>2. CASE LookupStart(h)
  <2>1. \/ Found(h, NoResult)
        \/ Change(h, [c EXCEPT !.lk = [at |-> "match", now |-> clock, ttl |-> TTL(policy), lfu |-> LFU(policy)]])
    BY <1>2 DEF LookupStart
  <2>2. NoResult.scores = {} /\ Lacks(NoResult.strategy, c.req, DOMAIN held)
    BY DEF NoResult, NoScores, Lacks
  <2> QED BY <1>1, <2>1, <2>2, FoundGround, StageGround, ZenonT(60)
<1>3. CASE LookupMatch(h)
  <2>1. PICK found : /\ \/ found = lookupExact(c.req, c.in, c.lk)
                        \/ c.in.chain # <<>> /\ found = lookupChain(c.req, c.lk, ChainWalk(c.req, c.in, c.lk))
                     /\ IF found.scores # {}
                        THEN Found(h, [strategy |-> "prefix_match", scores |-> found.scores, hits |-> found.hits,
                                       unit |-> ScoreUnit(c.lk.ttl)])
                        ELSE Change(h, [c EXCEPT !.lk.at = IF c.in.chain # <<>> THEN "classify" ELSE "hot",
                                                 !.lk.now = clock])
    BY <1>3, ZenonT(60) DEF LookupMatch
  <2>2. FoundOK(c.req, found)
    BY <2>1, lookupExactOK, lookupChainOK, ChainWalkOK, SMTT(20) DEF CallsOK, CallOK
  <2>3. CASE found.scores # {}
    <3> DEFINE res == [strategy |-> "prefix_match", scores |-> found.scores, hits |-> found.hits,
                       unit |-> ScoreUnit(c.lk.ttl)]
    <3>1. Found(h, res) /\ res.strategy = "prefix_match" /\ res.scores = found.scores
      BY <2>1, <2>3
    <3> HIDE DEF res
    <3>2. Lacks(res.strategy, c.req, DOMAIN held) /\ \A s \in res.scores : s.replica \in servingByScope(Scope(c.req))
      BY <2>2, <3>1 DEF Lacks, FoundOK
    <3> QED BY <1>1, <3>1, <3>2, FoundGround
  <2>4. CASE found.scores = {}
    <3> DEFINE lk == [c.lk EXCEPT !.at = IF c.in.chain # <<>> THEN "classify" ELSE "hot", !.now = clock]
    <3>1. [c EXCEPT !.lk.at = IF c.in.chain # <<>> THEN "classify" ELSE "hot", !.lk.now = clock] = [c EXCEPT !.lk = lk]
      BY <1>1, ZenonT(60) DEF Fields
    <3>2. Change(h, [c EXCEPT !.lk = lk])
      BY <2>1, <2>4, <3>1
    <3> HIDE DEF lk
    <3> QED BY <1>1, <3>2, StageGround
  <2> QED BY <2>3, <2>4
<1> QED BY <1>2, <1>3

LEMMA MissesGround ==
  ASSUME CallsOK, GroundInv, NEW h \in Handler, UNCHANGED <<held, policy>>, LookupHot(h) \/ LookupClassify(h)
  PROVE  GroundInv'
<1> DEFINE c == call[h]
<1>1. c.pc = "lookup" /\ DOMAIN c = Fields
  BY DEF LookupHot, LookupClassify, LookupAt, At, CallsOK, CallOK
<1>2. CASE LookupHot(h)
  <2> DEFINE hot == tenantHotCandidates(c.req, c.lk)
             lk == [c.lk EXCEPT !.at = "classify"]
             res == [Missed("tenant_hot") EXCEPT !.scores = hot]
  <2>1. [c EXCEPT !.lk.at = "classify"] = [c EXCEPT !.lk = lk]
    BY <1>1 DEF Fields
  <2>2. Found(h, res) \/ Change(h, [c EXCEPT !.lk = lk])
    BY <1>2, <2>1 DEF LookupHot
  <2> HIDE DEF hot
  <2>3. res.scores = hot /\ res.strategy = "tenant_hot"
    BY DEF Missed, NoResult
  <2> HIDE DEF res, lk
  <2>4. Lacks(res.strategy, c.req, DOMAIN held) /\ \A s \in res.scores : s.replica \in servingByScope(Scope(c.req))
    BY <2>3, HotScores DEF Lacks, hot
  <2> QED BY <1>1, <2>2, <2>4, FoundGround, StageGround
<1>3. CASE LookupClassify(h)
  <2> DEFINE level == classifyMiss(c.req)
             res == Missed(level)
  <2>1. Lacks(level, c.req, DOMAIN held)
    BY DEF Lacks, classifyMiss
  <2> HIDE DEF level
  <2>2. res.scores = {} /\ res.strategy = level
    BY DEF Missed, NoResult, NoScores
  <2>3. Found(h, res)
    BY <1>3 DEF LookupClassify, level
  <2> HIDE DEF res
  <2> QED BY <1>1, <2>1, <2>2, <2>3, FoundGround
<1> QED BY <1>2, <1>3

(* The answers that name replicas or a level.                              *)
LEMMA PickGround ==
  ASSUME CallsOK, HeldOK, GroundInv, NEW h \in Handler, UNCHANGED <<held, policy>>, PickAffinity(h)
  PROVE  GroundInv'
<1> DEFINE c == call[h]
           pick == AffinityHint(c.req, canonicalAffinitySeed(c.in))
           scores == {[replica |-> r, tokens |-> 0, tier |-> 0, run |-> {}, score |-> 0] : r \in pick}
<1>1. /\ c.pc = "pick" /\ Ground(c, DOMAIN held, policy) /\ DOMAIN c = Fields
      /\ canonicalAffinitySeed(c.in) \in Seeds
  BY ZenonT(30) DEF PickAffinity, At, GroundInv, Ground, PlaceGrounded, CallsOK, CallOK, Seeded
<1>2. c.always \subseteq DOMAIN held /\ DOMAIN held \subseteq c.ever
  BY <1>1, ZenonT(60) DEF Ground
<1>3. CASE pick = {}
  <2>1. Goes(h, "deliver")
    BY <1>3, ZenonT(60) DEF PickAffinity
  <2>2. Serving(c.req, c.always) = {}
    <3>1. servingByScope(Scope(c.req)) = {}
      BY <1>1, <1>3, AffinityHintOK
    <3> QED BY <1>2, <3>1 DEF servingByScope, Serving
  <2> QED BY <1>1, <2>1, <2>2, GoesGround DEF Late
<1>4. CASE pick # {}
  <2> DEFINE a == [reason |-> "AFFINITY_HINT", scores |-> scores, replicas |-> {s.replica : s \in scores},
                   entries |-> UNION {s.run : s \in scores}, echo |-> c.in.echo]
             d == [c EXCEPT !.pc = "answered", !.answer = {a}]
  <2>1. Change(h, d)
    BY <1>4 DEF PickAffinity, Answers, Reply
  <2>2. /\ d.pc = "answered" /\ d.req = c.req /\ d.pols = c.pols /\ d.ever = c.ever /\ d.always = c.always
        /\ d.result = c.result /\ d.answer = {a}
    BY <1>1 DEF Fields
  <2>3. a.reason = "AFFINITY_HINT" /\ a.replicas \subseteq pick
    <3> HIDE DEF scores, pick
    <3>1. a.reason = "AFFINITY_HINT" /\ a.replicas = {s.replica : s \in scores}
      OBVIOUS
    <3>2. \A s \in scores : s.replica \in pick
      BY DEF scores
    <3> HIDE DEF a
    <3> QED BY <3>1, <3>2
  <2> HIDE DEF d, a, scores
  <2>4. pick \subseteq servingByScope(Scope(c.req))
    BY <1>1, AffinityHintOK
  <2>5. pick \subseteq Serving(c.req, c.ever)
    BY <1>2, <2>4 DEF servingByScope, Serving
  <2> HIDE DEF pick
  <2>6. AnswerOf(d)
    BY <2>2, <2>3, <2>5 DEF AnswerOf
  <2>7. Ground(d, DOMAIN held, policy)
    BY <1>1, <2>2, <2>6, GroundAnswers
  <2> QED BY <2>1, <2>7, GroundOne
<1> QED BY <1>3, <1>4

LEMMA DeliverGround ==
  ASSUME CallsOK, GroundInv, NEW h \in Handler, UNCHANGED <<held, policy>>, Deliver(h)
  PROVE  GroundInv'
<1> DEFINE c == call[h]
           res == c.result
           a == [reason |-> reasonForStrategy(res.strategy), scores |-> res.scores,
                 replicas |-> {s.replica : s \in res.scores}, entries |-> UNION {s.run : s \in res.scores},
                 echo |-> c.in.echo]
           d == [c EXCEPT !.pc = "answered", !.answer = {a}]
<1>1. c.pc = "deliver" /\ Ground(c, DOMAIN held, policy) /\ DOMAIN c = Fields /\ ResultOK(res)
  BY DEF Deliver, At, GroundInv, CallsOK, CallOK
<1>2. Change(h, d)
  BY DEF Deliver, Reply
<1>3. /\ d.pc = "answered" /\ d.req = c.req /\ d.pols = c.pols /\ d.ever = c.ever /\ d.always = c.always
      /\ d.result = c.result /\ d.answer = {a} /\ d.in = c.in
  BY <1>1 DEF Fields
<1>4. a.reason = reasonForStrategy(res.strategy) /\ a.replicas = {s.replica : s \in res.scores}
  OBVIOUS
<1> HIDE DEF d, a
<1>5. a.replicas \subseteq Serving(c.req, c.ever)
  BY <1>1, <1>4 DEF Ground, ResultGrounded
<1>6. /\ a.reason = "UNKNOWN_TENANT" => res.strategy = "unknown_tenant"
      /\ a.reason = "UNKNOWN_MODEL" => res.strategy = "unknown_model"
      /\ a.reason = "UNKNOWN_HASH_SCHEME" => res.strategy = "unknown_hash_scheme"
      /\ a.reason = "NO_HINT" => res.strategy = "none"
  BY <1>1, <1>4, SMTT(20) DEF ResultOK, reasonForStrategy
<1>7. Lacks(res.strategy, c.req, c.always) /\ (res.strategy = "none" /\ Seedable(c) => Serving(c.req, c.always) = {})
  BY <1>1 DEF Ground, ResultGrounded, PlaceGrounded
<1>8. Seedable(d) <=> Seedable(c)
  BY <1>3, ZenonT(30) DEF Seedable
<1>9. AnswerOf(d)
  BY <1>3, <1>5, <1>6, <1>7, <1>8, SMTT(20) DEF AnswerOf
<1>10. Ground(d, DOMAIN held, policy)
  BY <1>1, <1>3, <1>9, GroundAnswers
<1> QED BY <1>2, <1>10, GroundOne

(* A handler that takes a call or gives it back.                           *)
LEMMA FramesGround ==
  ASSUME CallsOK, GroundInv, NEW h \in Handler, Begin(h) \/ Close(h) \/ Ends(h)
  PROVE  GroundInv'
<1>1. UNCHANGED <<held, policy>>
  BY ZenonT(60) DEF Begin, Close, Ends, indexVars, storeVars
<1>2. CASE Begin(h)
  <2>1. PICK r \in Requests : Change(h, [Idle EXCEPT !.pc = "budget", !.req = r, !.pols = {policy},
                                                     !.ever = DOMAIN held, !.always = DOMAIN held])
    BY <1>2, ZenonT(60) DEF Begin
  <2> DEFINE d == [Idle EXCEPT !.pc = "budget", !.req = r, !.pols = {policy},
                               !.ever = DOMAIN held, !.always = DOMAIN held]
  <2>2. /\ d.pc = "budget" /\ d.pols = {policy} /\ d.ever = DOMAIN held /\ d.always = DOMAIN held
        /\ d.in = NoInputs /\ d.result = NoResult
    BY DEF Idle
  <2> HIDE DEF d
  <2>3. ResultGrounded(d) /\ PlaceGrounded(d)
    BY <2>2, NoResultGrounded DEF PlaceGrounded
  <2>4. Ground(d, DOMAIN held, policy)
    BY <2>2, <2>3 DEF Ground
  <2> QED BY <1>1, <2>1, <2>4, GroundOne DEF d
<1>3. CASE Close(h)
  <2>1. Change(h, Idle)
    BY <1>3 DEF Close
  <2>2. Idle.pc = "idle" /\ Idle.in = NoInputs /\ Idle.result = NoResult
    BY DEF Idle
  <2>3. ResultGrounded(Idle) /\ PlaceGrounded(Idle)
    BY <2>2, NoResultGrounded DEF PlaceGrounded
  <2>4. Ground(Idle, DOMAIN held, policy)
    BY <2>2, <2>3 DEF Ground
  <2> QED BY <1>1, <2>1, <2>4, GroundOne
<1>4. CASE Ends(h)
  <2> DEFINE c == call[h]
             d == [c EXCEPT !.done = TRUE]
  <2>1. Change(h, d) /\ c.pc \notin {"idle", "answered"}
    BY <1>4 DEF Ends, Active
  <2>2. Ground(c, DOMAIN held, policy) /\ DOMAIN c = Fields
    BY ZenonT(60) DEF GroundInv, CallsOK, CallOK
  <2>3. /\ d.pc = c.pc /\ d.req = c.req /\ d.pols = c.pols /\ d.ever = c.ever /\ d.always = c.always
        /\ d.result = c.result /\ d.in = c.in
    BY <2>2 DEF Fields
  <2> HIDE DEF d
  <2>4. ResultGrounded(d) /\ PlaceGrounded(d)
    BY <2>2, <2>3, ZenonT(30) DEF Ground, ResultGrounded, PlaceGrounded, Seedable
  <2>5. Ground(d, DOMAIN held, policy)
    BY <2>1, <2>2, <2>3, <2>4, GroundMoves, ZenonT(30)
  <2> QED BY <1>1, <2>1, <2>5, GroundOne
<1> QED BY <1>2, <1>3, <1>4

(* What happens around the calls only widens what they have met: a key may *)
(* join ever or leave always, a policy may join pols.                      *)
Widens(c, d) ==
  /\ \A f \in Fields \ {"ever", "always", "pols"} : d[f] = c[f]
  /\ c.ever \subseteq d.ever /\ d.always \subseteq c.always /\ c.pols \subseteq d.pols

LEMMA WidensGround ==
  ASSUME NEW c, NEW d, NEW K, NEW P, NEW L, NEW Q, Ground(c, K, P), Widens(c, d),
         c.pc \notin {"idle", "answered"} => d.always \subseteq L /\ L \subseteq d.ever /\ Q \in d.pols
  PROVE  Ground(d, L, Q)
<1>1. d.pc = c.pc /\ d.req = c.req /\ d.in = c.in /\ d.result = c.result /\ d.answer = c.answer
  BY DEF Widens, Fields
<1>2. Serving(d.req, c.ever) \subseteq Serving(d.req, d.ever) /\ Serving(d.req, d.always) \subseteq Serving(d.req, c.always)
  BY DEF Widens, Serving
<1>3. Seedable(d) => Seedable(c)
  BY <1>1 DEF Widens, Seedable
<1>4. \A level : Lacks(level, d.req, c.always) => Lacks(level, d.req, d.always)
  BY DEF Lacks, Widens
<1>5. ResultGrounded(d)
  BY <1>1, <1>2, <1>4 DEF Ground, ResultGrounded
<1>6. PlaceGrounded(d)
  BY <1>1, <1>2, <1>3, ZenonT(30) DEF Ground, PlaceGrounded
<1>7. c.pc = "answered" => AnswerOf(d)
  BY <1>1, <1>2, <1>3, <1>4, ZenonT(60) DEF Ground, AnswerOf
<1> QED BY <1>1, <1>5, <1>6, <1>7, ZenonT(60) DEF Ground

LEMMA AroundGround ==
  ASSUME CallsOK, GroundInv, Ingest \/ Forget \/ policyHandler
  PROVE  GroundInv'
<1>1. \A h \in Handler : Ground(call[h], DOMAIN held, policy) /\ DOMAIN call[h] = Fields
  BY ZenonT(60) DEF GroundInv, CallsOK, CallOK
<1>2. CASE Ingest
  <2>1. PICK k : /\ DOMAIN held' = DOMAIN held \cup {k}
                 /\ call' = [h \in Handler |-> [call[h] EXCEPT !.ever = IF Active(h) THEN @ \cup {k} ELSE @]]
    BY <1>2, ZenonT(60) DEF Ingest
  <2>2. policy' = policy
    BY <1>2 DEF Ingest, storeVars
  <2>3. ASSUME NEW h \in Handler PROVE Ground(call'[h], DOMAIN held', policy')
    <3> DEFINE c == call[h]
               d == [c EXCEPT !.ever = IF Active(h) THEN @ \cup {k} ELSE @]
    <3>1. call'[h] = d
      BY <2>1, ZenonT(60)
    <3>2. /\ \A f \in Fields \ {"ever"} : d[f] = c[f]
          /\ d.ever = IF Active(h) THEN c.ever \cup {k} ELSE c.ever
      BY <1>1 DEF Fields
    <3> HIDE DEF d
    <3>3. Widens(c, d)
      BY <3>2, ZenonT(60) DEF Widens, Fields
    <3>4. c.pc \notin {"idle", "answered"} => c.always \subseteq DOMAIN held /\ DOMAIN held \subseteq c.ever /\ policy \in c.pols
      BY <1>1 DEF Ground
    <3>5. c.pc \notin {"idle", "answered"} => d.always \subseteq DOMAIN held' /\ DOMAIN held' \subseteq d.ever /\ policy' \in d.pols
      BY <2>1, <2>2, <3>2, <3>4, SMTT(20) DEF Active, Fields
    <3>6. Ground(d, DOMAIN held', policy')
      BY <1>1, <3>3, <3>5, WidensGround
    <3> QED BY <3>1, <3>6
  <2> QED BY <2>3, GroundPrime
<1>3. CASE Forget
  <2>1. PICK k \in DOMAIN held : /\ DOMAIN held' = DOMAIN held \ {k}
                                 /\ call' = [h \in Handler |-> [call[h] EXCEPT !.always = @ \ {k}]]
    BY <1>3, ZenonT(60) DEF Forget
  <2>2. policy' = policy
    BY <1>3 DEF Forget, storeVars
  <2>3. ASSUME NEW h \in Handler PROVE Ground(call'[h], DOMAIN held', policy')
    <3> DEFINE c == call[h]
               d == [c EXCEPT !.always = @ \ {k}]
    <3>1. call'[h] = d
      BY <2>1, ZenonT(60)
    <3>2. (\A f \in Fields \ {"always"} : d[f] = c[f]) /\ d.always = c.always \ {k}
      BY <1>1 DEF Fields
    <3> HIDE DEF d
    <3>3. Widens(c, d)
      BY <3>2 DEF Widens, Fields
    <3>4. c.pc \notin {"idle", "answered"} => c.always \subseteq DOMAIN held /\ DOMAIN held \subseteq c.ever /\ policy \in c.pols
      BY <1>1 DEF Ground
    <3>5. c.pc \notin {"idle", "answered"} => d.always \subseteq DOMAIN held' /\ DOMAIN held' \subseteq d.ever /\ policy' \in d.pols
      BY <2>1, <2>2, <3>2, <3>4 DEF Fields
    <3>6. Ground(d, DOMAIN held', policy')
      BY <1>1, <3>3, <3>5, WidensGround
    <3> QED BY <3>1, <3>6
  <2> QED BY <2>3, GroundPrime
<1>4. CASE policyHandler
  <2>1. PICK b : /\ policy' = Installed(b)
                 /\ call' = [h \in Handler |-> [call[h] EXCEPT !.pols = IF Active(h) THEN @ \cup {Installed(b)} ELSE @]]
    BY <1>4, ZenonT(60) DEF policyHandler
  <2>2. held' = held
    BY <1>4 DEF policyHandler, indexVars
  <2>3. ASSUME NEW h \in Handler PROVE Ground(call'[h], DOMAIN held', policy')
    <3> DEFINE c == call[h]
               d == [c EXCEPT !.pols = IF Active(h) THEN @ \cup {Installed(b)} ELSE @]
    <3>1. call'[h] = d
      BY <2>1, ZenonT(60)
    <3>2. /\ \A f \in Fields \ {"pols"} : d[f] = c[f]
          /\ d.pols = IF Active(h) THEN c.pols \cup {policy'} ELSE c.pols
      BY <1>1, <2>1 DEF Fields
    <3> HIDE DEF d
    <3>3. Widens(c, d)
      BY <3>2 DEF Widens, Fields
    <3>4. c.pc \notin {"idle", "answered"} => c.always \subseteq DOMAIN held /\ DOMAIN held \subseteq c.ever /\ policy \in c.pols
      BY <1>1 DEF Ground
    <3>5. c.pc \notin {"idle", "answered"} => d.always \subseteq DOMAIN held' /\ DOMAIN held' \subseteq d.ever /\ policy' \in d.pols
      BY <2>2, <3>2, <3>4 DEF Active, Fields
    <3>6. Ground(d, DOMAIN held', policy')
      BY <1>1, <3>3, <3>5, WidensGround
    <3> QED BY <3>1, <3>6
  <2> QED BY <2>3, GroundPrime
<1> QED BY <1>2, <1>3, <1>4

LEMMA GroundInit == Init => GroundInv
<1> SUFFICES ASSUME Init PROVE GroundInv
  OBVIOUS
<1>1. Idle.pc = "idle" /\ Idle.in = NoInputs /\ Idle.result = NoResult
  BY DEF Idle
<1>2. ResultGrounded(Idle) /\ PlaceGrounded(Idle)
  BY <1>1, NoResultGrounded DEF PlaceGrounded
<1>3. Ground(Idle, DOMAIN held, policy)
  BY <1>1, <1>2 DEF Ground
<1>4. \A h \in Handler : call[h] = Idle
  BY DEF Init
<1> QED BY <1>3, <1>4 DEF GroundInv

LEMMA GroundStep ==
  ASSUME CallsOK, HeldOK, GroundInv, [Next]_vars PROVE GroundInv'
<1>1. CASE \E h \in Handler : HandlerStep(h)
  <2>1. PICK h \in Handler : HandlerStep(h)
    BY <1>1
  <2>2. UNCHANGED <<held, policy>>
    BY <2>1 DEF HandlerStep, indexVars, storeVars
  <2> QED BY <2>1, <2>2, EarlyGround, ResolveGround, GatesGround, FloorGround, MatchGround, MissesGround, PickGround,
             DeliverGround, ZenonT(60) DEF HandlerStep
<1>2. CASE \E h \in Handler : EncodeReturns(h)
  <2>1. PICK h \in Handler : EncodeReturns(h)
    BY <1>2
  <2>2. UNCHANGED <<held, policy>>
    BY <2>1 DEF EncodeReturns, indexVars, storeVars
  <2> QED BY <2>1, <2>2, ResolveGround, SMTT(20)
<1>3. CASE \E h \in Handler : Begin(h) \/ Close(h) \/ DeadlinePasses(h) \/ ClientCancels(h)
  BY <1>3, FramesGround DEF DeadlinePasses, ClientCancels
<1>4. CASE Ingest \/ Forget \/ policyHandler
  BY <1>4, AroundGround
<1>5. CASE OrphanAcquires \/ OrphanReturns \/ ReportStats \/ Tick \/ UNCHANGED vars
  <2>1. UNCHANGED <<held, policy, call>>
    BY <1>5 DEF OrphanAcquires, OrphanReturns, ReportStats, Tick, vars, indexVars, storeVars
  <2>2. \A h \in Handler : Ground(call'[h], DOMAIN held', policy')
    BY <2>1 DEF GroundInv
  <2> QED BY <2>2, GroundPrime
<1> QED BY <1>1, <1>2, <1>3, <1>4, <1>5, ZenonT(60) DEF Next

-----------------------------------------------------------------------------
(* No answer contradicts what the index held all through the call, though  *)
(* each stage reads it under a lock of its own: a hinted replica served the *)
(* scope at some moment of the call, UNKNOWN_* names a level that was not  *)
(* held throughout, and a request affinity can seed is not left without a  *)
(* hint while a replica served its scope throughout (server.go LookupRoute *)
(* over index.go Lookup and AffinityHint).                                 *)
THEOREM GroundedTheorem == Spec => []AnswerGrounded
<1>1. Init => SlotInv /\ GroundInv
  BY InitOK, GroundInit
<1>2. SlotInv /\ GroundInv /\ [Next]_vars => SlotInv' /\ GroundInv'
  BY SlotStep, GroundStep DEF SlotInv
<1>3. GroundInv => AnswerGrounded
  BY GroundedIs
<1> QED BY <1>1, <1>2, <1>3, PTL DEF Spec
=============================================================================
