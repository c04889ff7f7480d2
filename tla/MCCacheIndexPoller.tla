------------------------- MODULE MCCacheIndexPoller -------------------------
(* Small instances of CacheIndexPoller: a namespace with two engine pods   *)
(* and two backends that may both select them, a second namespace whose    *)
(* pod shares a name with one of the first, and the probe's tenant.        *)
EXTENDS CacheIndexPoller

Order == <<"", "n1", "n2", "probe", "x", "y">>
Rank(s) == CHOOSE i \in DOMAIN Order : Order[i] = s
MCNameBefore(a, b) == Rank(a) < Rank(b)

Pods == {<<"n1", "x">>, <<"n1", "y">>, <<"n2", "x">>}
Reporters == Pods \cup {<<"probe", "x">>}
OnePair == {<<"n1", "x">>, <<"n1", "y">>}
B(n) == [namespace |-> "n1", name |-> n]
TwoBackends == {B("x"), B("y")}

CR(ns, n, k, v) == [namespace |-> ns, name |-> n, key |-> k, value |-> v]
Tenants == {CR("n1", "x", "n1", NoValue), CR("n1", "y", "n1", 0), CR("n2", "x", "n1", 1),
            CR("n1", "x", "n1", 1)}

E(tr, h) == [tenant |-> tr[1], replica |-> tr[2], model |-> "m", hash |-> h, seen |-> 0]
S(tr, h, q) == [tenant |-> tr[1], replica |-> tr[2], model |-> "m", hit |-> 0,
                t2hit |-> h, t2query |-> q, seen |-> 1]
Report(tr, rate, h, q) == [from |-> tr, rate |-> rate, hits |-> h, queries |-> q]
SomeReports == {Report(<<"n1", "x">>, 2, 1, 1), Report(<<"n1", "x">>, 0, 0, 1), Report(<<"n1", "y">>, 2, 0, 0),
                Report(<<"n2", "x">>, 0, 0, 1), Report(<<"probe", "x">>, 2, 0, 0)}
Labelled(by) == [labels |-> Label, injectedBy |-> by]
CB(l) == [selector |-> l, participation |-> {}]
CT(cr) == Identity(cr) :> [cr |-> cr, born |-> 0, generation |-> 1, status |-> {}]

(* An empty cluster; two engines that both backends select, one queried    *)
(* without a reload; an engine wired to a backend without a selector; and  *)
(* three tenants that declare one id.                                      *)
Start(n) ==
  /\ ci = {} /\ p = Idle
  /\ metrics = [hitRate |-> << >>, queryTokens |-> << >>, last |-> << >>, tracked |-> {}]
  /\ CASE n = "empty" ->
            /\ held = {} /\ stats = {} /\ pods = << >> /\ backends = << >> /\ tenants = << >>
            /\ engine = [tr \in Reporter |-> [hits |-> 0, queries |-> 0]]
       [] n = "shared" ->
            /\ held = {E(<<"n1", "x">>, "h"), E(<<"n1", "y">>, "h"), E(<<"probe", "x">>, "h")}
            /\ stats = {S(<<"n1", "x">>, 0, 1), S(<<"n1", "y">>, 0, 1)}
            /\ engine = [tr \in Reporter |->
                           [hits |-> 0, queries |-> IF tr[1] = "n1" THEN 1 ELSE 0]]
            /\ pods = [tr \in OnePair |-> Labelled(None)]
            /\ backends = [b \in TwoBackends |-> CB(Label)]
            /\ tenants = << >>
       [] n = "wired" ->
            /\ held = {E(<<"n1", "x">>, "h"), E(<<"n2", "x">>, "h")}
            /\ stats = {S(<<"n1", "x">>, 1, 1), S(<<"n2", "x">>, 0, 0)}
            /\ engine = [tr \in Reporter |-> [hits |-> IF tr = <<"n1", "x">> THEN 1 ELSE 0,
                                              queries |-> IF tr = <<"n1", "x">> THEN 1 ELSE 0]]
            /\ pods = (<<"n1", "x">> :> Labelled(B("y")))
            /\ backends = (B("x") :> CB(Label) @@ B("y") :> CB({}))
            /\ tenants = CT(CR("n2", "x", "n1", 1))
       [] n = "one" ->
            /\ held = {E(<<"n1", "x">>, "h")}
            /\ stats = {}
            /\ engine = [tr \in Reporter |-> [hits |-> 0, queries |-> 0]]
            /\ pods = (<<"n1", "x">> :> Labelled(None))
            /\ backends = (B("x") :> CB(Label))
            /\ tenants = CT(CR("n1", "x", "n1", 1))
       [] n = "tenants" ->
            /\ held = {E(<<"n1", "x">>, "h"), E(<<"n1", "y">>, "h")}
            /\ stats = {}
            /\ engine = [tr \in Reporter |-> [hits |-> 0, queries |-> 0]]
            /\ pods = << >> /\ backends = << >>
            /\ tenants = CT(CR("n1", "x", "n1", NoValue)) @@ CT(CR("n1", "y", "n1", 0))
                           @@ CT(CR("n2", "x", "n1", 1))
  /\ seen = [index |-> ci, pods |-> pods, backends |-> backends, tenants |-> tenants]

(* From every start one change, with a failed call or a read that trails;  *)
(* from two of them two changes, the first of the prefixes, so that a      *)
(* status can go from A to B and back to A under a copy that trails.       *)
Budget(c, f, s) ==
  changes = MaxChanges - c /\ faults = MaxFaults - f /\ stale = MaxStale - s

MCInit ==
  \/ \E n \in {"empty", "shared", "wired", "tenants"} :
       Start(n) /\ (Budget(1, 1, 0) \/ Budget(1, 0, 1))
  \/ \E n \in {"one", "tenants"} : Start(n) /\ Budget(2, 0, 1)

MCNext == Refresh \/ (Cluster /\ (changes = 0 => held' # held))
MCSpec == MCInit /\ [][MCNext]_vars /\ Fairness
=============================================================================
