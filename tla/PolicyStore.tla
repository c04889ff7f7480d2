---------------------------- MODULE PolicyStore -----------------------------
(***************************************************************************)
(* The server's PolicyStore as LookupRoute sees it: the wire form of one   *)
(* namespace's policy, the normalisation of bodies that an older           *)
(* controller pushes, and the accessors with their defaults.               *)
(*                                                                         *)
(* A pointer field is a set: empty for nil, a singleton otherwise.  A      *)
(* namespace without a policy has the empty set, one with a policy p {p}.  *)
(***************************************************************************)
EXTENDS Integers

CONSTANTS
  DefaultMinimumMatchedTokens,
  DefaultRoutingFloorScore,
  DefaultTTL

PolicyPropagationVersion == 7
PolicyMinimumAcceptedVersion == 3
DefaultEnableChainMatching == TRUE
DefaultRequireChain == FALSE
DefaultEnableTenantHot == TRUE
DefaultAffinityRoutingEnabled == TRUE

Pointer(S) == SUBSET S    \* of at most one element
OrElse(pointer, default) == IF pointer = {} THEN default ELSE CHOOSE v \in pointer : TRUE

Strategy == [enableChainMatching : Pointer(BOOLEAN), requireChain : Pointer(BOOLEAN),
             enableTenantHot : Pointer(BOOLEAN)]
ResolvedPolicy ==
  [evictionTTL : Nat, eviction : {"", "lru", "lfu"}, lookupTimeoutMs : Int,
   minimumPrefixTokens : Int, minimumMatchedTokens : Int, routingFloorScore : Pointer(Int),
   affinityRouting : Pointer(BOOLEAN), strategy : Pointer(Strategy)]

-----------------------------------------------------------------------------
(* Accepting a body.                                                       *)

NoStrategy == [enableChainMatching |-> {}, requireChain |-> {}, enableTenantHot |-> {}]

applyResolvedLookupStrategyDefaults(p) ==
  LET s == OrElse(p.strategy, NoStrategy) IN
  [p EXCEPT !.strategy =
     {[enableChainMatching |-> {OrElse(s.enableChainMatching, DefaultEnableChainMatching)},
       requireChain |-> {OrElse(s.requireChain, DefaultRequireChain)},
       enableTenantHot |-> {OrElse(s.enableTenantHot, DefaultEnableTenantHot)}]}]

normalizePolicyForVersion(p, version) ==
  LET v4 == IF version < 4 /\ p.minimumMatchedTokens = 0
            THEN [p EXCEPT !.minimumMatchedTokens = DefaultMinimumMatchedTokens] ELSE p
      v5 == IF version < 5
            THEN [v4 EXCEPT !.routingFloorScore = {OrElse(@, DefaultRoutingFloorScore)}] ELSE v4
      v6 == IF version < 6 THEN applyResolvedLookupStrategyDefaults(v5) ELSE v5
  IN  IF version < 7 THEN [v6 EXCEPT !.affinityRouting = {OrElse(@, DefaultAffinityRoutingEnabled)}]
      ELSE v6

Accepted(version) == version \in PolicyMinimumAcceptedVersion..PolicyPropagationVersion

-----------------------------------------------------------------------------
(* The accessors; s is the store's entry for the request's tenant.         *)

Lookup(s, field(_), default) == OrElse({field(p) : p \in s}, default)
AtLeastZero(n) == IF n < 0 THEN 0 ELSE n
Gate(s, field(_), default) ==
  OrElse(UNION {field(OrElse(p.strategy, NoStrategy)) : p \in s}, default)

TTL(s) == LET d == Lookup(s, LAMBDA p : p.evictionTTL, 0) IN IF d > 0 THEN d ELSE DefaultTTL
LFU(s) == Lookup(s, LAMBDA p : p.eviction, "") = "lfu"
HasLookupTimeout(s) == Lookup(s, LAMBDA p : p.lookupTimeoutMs, 0) > 0
MinimumPrefixTokens(s) == Lookup(s, LAMBDA p : p.minimumPrefixTokens, 0)
MinimumMatchedTokens(s) ==
  AtLeastZero(Lookup(s, LAMBDA p : p.minimumMatchedTokens, DefaultMinimumMatchedTokens))
RoutingFloorScore(s) ==
  AtLeastZero(OrElse(UNION {p.routingFloorScore : p \in s}, DefaultRoutingFloorScore))
AffinityRoutingEnabled(s) ==
  OrElse(UNION {p.affinityRouting : p \in s}, DefaultAffinityRoutingEnabled)
ChainMatchingEnabled(s) == Gate(s, LAMBDA g : g.enableChainMatching, DefaultEnableChainMatching)
ChainRequired(s) == Gate(s, LAMBDA g : g.requireChain, DefaultRequireChain)
TenantHotEnabled(s) == Gate(s, LAMBDA g : g.enableTenantHot, DefaultEnableTenantHot)
=============================================================================
