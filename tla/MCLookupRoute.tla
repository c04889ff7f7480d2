--------------------------- MODULE MCLookupRoute ----------------------------
(* A small instance of LookupRoute: two replicas, a chain of two blocks,   *)
(* holds in the requests' scope and in scopes that differ from it in one   *)
(* coordinate, and one request for each way of naming a prefix.            *)
EXTENDS LookupRoute

MCDigest(seed) == Len(seed)

Main == [tenant |-> "t", model |-> "m", scheme |-> "s"]
Hold(scope, hash, replica, tokens, tier) == [key |-> Key(scope, hash, replica), tokens |-> tokens, tier |-> tier]

MCUpdates ==
  <<Hold(Main, "b1", 1, 2, 1), Hold(Main, "b2", 1, 4, 2), Hold(Main, "b1", 2, 2, 1),
    Hold([Main EXCEPT !.scheme = "s2"], "b1", 2, 2, 1), Hold([Main EXCEPT !.tenant = "t2"], "b1", 1, 2, 1)>>

Warm == [key |-> <<"t", "m", 1>>, rate |-> 1, pressure |-> 1]
Full == [key |-> <<"t", "m", 1>>, rate |-> 0, pressure |-> 2]
MCPayloads == {Warm, Full}

None == [kind |-> "none", blocks |-> <<>>]
Blocks(s) == [kind |-> "blocks", blocks |-> s]
Oversized == [kind |-> "oversized", blocks |-> <<>>]

Bare == [tenant |-> "t", model |-> "m", scheme |-> "s", bh |-> <<>>, btc |-> <<>>, ph |-> NoHash, phCount |-> 0,
         toks |-> None, text |-> None, tight |-> FALSE, deadline |-> FALSE]
Chain == [Bare EXCEPT !.bh = <<"b1", "b2">>, !.btc = <<2, 2>>]

MCRequests ==
  {Chain,
   [Chain EXCEPT !.ph = "b1", !.phCount = 2, !.deadline = TRUE, !.tight = TRUE],
   [Chain EXCEPT !.btc = <<2>>, !.text = Blocks(<<"b1", "b2">>)],
   [Bare EXCEPT !.ph = "b2", !.phCount = 4, !.deadline = TRUE],
   [Bare EXCEPT !.ph = "b1", !.phCount = 2, !.scheme = NoKey],
   [Bare EXCEPT !.toks = Blocks(<<"b1">>)],
   [Bare EXCEPT !.toks = Blocks(<<>>)],
   [Bare EXCEPT !.toks = Oversized, !.text = Oversized],
   [Bare EXCEPT !.text = Blocks(<<"b1", "b2">>)],
   Bare,
   [Bare EXCEPT !.model = "m2", !.ph = "b1", !.phCount = 2],
   [Bare EXCEPT !.tenant = ProbeTenantID]}

Plain == [evictionTTL |-> 0, eviction |-> "", lookupTimeoutMs |-> 0, minimumPrefixTokens |-> 0,
          minimumMatchedTokens |-> 0, routingFloorScore |-> {}, affinityRouting |-> {}, strategy |-> {}]
Body(v, p) == [version |-> v, policy |-> p]
Gates(chain, require, hot) ==
  {[enableChainMatching |-> {chain}, requireChain |-> {require}, enableTenantHot |-> {hot}]}

MCBodies ==
  {Body(3, [Plain EXCEPT !.eviction = "lfu"]),
   Body(4, [Plain EXCEPT !.minimumPrefixTokens = 3]),
   Body(5, [Plain EXCEPT !.routingFloorScore = {0}, !.eviction = "lfu", !.lookupTimeoutMs = 1]),
   Body(6, [Plain EXCEPT !.strategy = Gates(FALSE, FALSE, FALSE), !.routingFloorScore = {0}, !.eviction = "lfu"]),
   Body(7, [Plain EXCEPT !.strategy = Gates(TRUE, TRUE, TRUE), !.affinityRouting = {FALSE}, !.evictionTTL = 1,
                         !.minimumPrefixTokens = 3]),
   Body(8, Plain)}

Start(holds, payloads, bodies) ==
  /\ DOMAIN held = {MCUpdates[i].key : i \in holds}
  /\ {[key |-> k, rate |-> stats[k].rate, pressure |-> stats[k].pressure] : k \in DOMAIN stats} \in payloads
  /\ \A b \in body : b.version \in bodies
  /\ body = {} => 0 \in bodies

\* one call with a change around it, or two calls with none; and one call while
\* a chain ages block by block
MCInit ==
  /\ Init
  /\ \/ /\ calls = MaxCalls - 1 /\ events = MaxEvents - 1
        /\ \/ Start({1, 2, 3}, {{}, {Full}}, {0, 3, 5, 6})
           \/ Start({1, 3}, {{Warm}}, {3, 5, 6})
           \/ Start({2, 5}, {{}}, {4, 7})
           \/ Start({4}, {{}}, {0})
           \/ Start({5}, {{}}, {0})
           \/ Start({}, {{}}, {0})
     \/ /\ calls = 0 /\ events = MaxEvents
        /\ Start({1, 2}, {{}}, {3, 5})
     \/ /\ calls = MaxCalls - 1 /\ events = 0
        /\ Start({1, 2}, {{}}, {7})

MCSpec == MCInit /\ [][Next]_vars /\ Fairness
=============================================================================
