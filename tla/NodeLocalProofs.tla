-------------------------- MODULE NodeLocalProofs ---------------------------
(***************************************************************************)
(* Proofs about NodeLocal: cleanups are safe, and a backend that is gone   *)
(* has left nothing, for any nodes, engines, retries, spec changes and     *)
(* failed calls.                                                           *)
(***************************************************************************)
EXTENDS NodeLocal, FiniteSetTheorems, TLAPS

-----------------------------------------------------------------------------
(* Types.                                                                  *)

ServerPod == [gen : Nat, current : BOOLEAN, up : BOOLEAN, conflict : BOOLEAN,
              idle : {"no", "marked", "expired"}, del : BOOLEAN]
CleanupPod == [gated : BOOLEAN, phase : {"pending", "running", "ok", "failed"}, del : BOOLEAN]
Row == [Attempt -> SUBSET CleanupPod]
EnginePod == [st : {"none", "pending", "gate", "run", "leaving", "ended"},
              node : Node \cup {NoNode}, gen : Nat, shm : BOOLEAN]
Backend == [kind : {"nodelocal", "podlocal", "events"}, gen : Nat, finalizer : BOOLEAN,
            deleting : BOOLEAN, exists : BOOLEAN, released : {"no", "current", "behind"}]
Pass == {"shed", "cleanups", "release", "servers", "create", "status", "consumers", "check"}
Rec == [ops : Seq(Pass), todo : SUBSET Node, demand : SUBSET Node, gen : Nat,
        servers : [Node -> SUBSET ServerPod], blocked : SUBSET Node, live : SUBSET Node,
        release : SUBSET (Node \X Attempt), listed : SUBSET Row]

(* A reconcile that has passes left has nodes left to visit.               *)
RecOK(r) == r \in Rec /\ (r.ops # <<>> => r.todo # {})

Typed ==
  /\ backend \in Backend /\ engine \in [Engine -> EnginePod]
  /\ server \in [Node -> SUBSET ServerPod]
  /\ cleanup \in [Node -> Row]
  /\ faults \in [FaultKinds -> Nat]
  /\ RecOK(rec)

-----------------------------------------------------------------------------
(* The inductive invariant.                                                *)

Has(r, op) == \E i \in DOMAIN r.ops : r.ops[i] = op
Heads(r, op) == r.ops # <<>> /\ r.ops[1] = op
Waits(r, op, n) == Heads(r, op) /\ n \in r.todo

(* What a list of passes looks like: a reconcile that creates or reports   *)
(* sheds nothing and looks at the cleanups first; gates are lifted right   *)
(* after the cleanups were looked at; a shed follows the consumers.        *)
PlanOf(ops) ==
  \A i \in DOMAIN ops :
    /\ ops[i] \in {"create", "status"} =>
         \A j \in DOMAIN ops : ops[j] \notin {"shed", "consumers"} /\ (ops[j] = "cleanups" => j = 1)
    /\ ops[i] = "cleanups" => i + 1 \in DOMAIN ops /\ ops[i + 1] = "release"
    /\ ops[i] = "consumers" => i + 1 \in DOMAIN ops /\ ops[i + 1] = "shed"

(* A shed comes before the next look at the cleanups.                      *)
ShedComes(ops) ==
  \E i \in DOMAIN ops : i > 1 /\ ops[i] = "shed" /\ \A j \in 1..(i - 1) : ops[j] # "cleanups"

(* The server of the node is shed before the cleanups are looked at again. *)
Ahead(r, n) == r.ops = <<>> \/ Waits(r, "shed", n) \/ ShedComes(r.ops)

(* Where a reconcile stands that is about to release a cleanup of a node.  *)
Releasing(r, n) == (Heads(r, "cleanups") /\ n \notin r.todo) \/ Waits(r, "release", n)

(* The attempts of one node: a pod that is being deleted runs and a gated  *)
(* one waits; one at most is under way; some are not done; some are        *)
(* released and not done.                                                  *)
Single(pods) == \A p, q \in pods : p = q
PodsIn(row) ==
  \A k \in Attempt :
    /\ Single(row[k])
    /\ \A p \in row[k] : (p.del => p.phase = "running") /\ (p.gated => p.phase = "pending")
OneIn(row) == \A j, k \in Attempt : UnderWay(row[j]) /\ UnderWay(row[k]) => j = k
PendingIn(row) == \E k \in Attempt : \E p \in row[k] : p.phase # "ok"
LooseIn(row) == \E k \in Attempt : \E p \in row[k] : ~p.gated /\ p.phase \in {"pending", "running"}

(* No list trailed so far.                                                 *)
Calm == Spared("lag")

PodsOK ==
  /\ \A n \in Node : (\A s \in server[n] : s.del => s.up) /\ PodsIn(cleanup[n])
  /\ Calm => \A n \in Node : OneIn(cleanup[n])

(* A list is kept from the retry of a failure to the deletes that follow.  *)
PlanOK ==
  /\ PlanOf(rec.ops)
  /\ Has(rec, "check") => backend.deleting
  /\ \A n \in Node, k \in Attempt : <<n, k>> \in rec.release => Releasing(rec, n)
  /\ \A row \in rec.listed : Heads(rec, "cleanups") /\ PodsIn(row) /\ Retriable(row) # {}

(* Nobody uses the directory of the node, and nobody can begin to.         *)
Clear(n) ==
  /\ server[n] = {}
  /\ \A e \in Engine : engine[e].node = n /\ engine[e].shm => engine[e].st \notin {"run", "leaving"}

Leaving(n) == \A s \in server[n] : s.del
Pending(n) == PendingIn(cleanup[n])
Loose(n) == LooseIn(cleanup[n])

(* What holds of a node while no delete of a server was refused and no     *)
(* list trailed: a cleanup that is released, or about to be, has the       *)
(* directory for itself; one that is asked for waits for a server that     *)
(* goes, or, when the backend is being deleted, that will be shed before   *)
(* anybody looks; the consumers of a backend that is no longer NodeLocal   *)
(* are asked about only after its servers were shed; a server is created   *)
(* only where no cleanup waits.                                            *)
SafeAt(n) ==
  /\ Loose(n) => Clear(n)
  /\ \A k \in Attempt : <<n, k>> \in rec.release => Clear(n)
  /\ Pending(n) => Leaving(n) \/ (backend.deleting /\ Ahead(rec, n))
  /\ Has(rec, "consumers") /\ ~Has(rec, "check") => Waits(rec, "shed", n) \/ Leaving(n)
  /\ Has(rec, "create") /\ n \in rec.demand \ rec.blocked => Waits(rec, "cleanups", n) \/ ~Pending(n)

Smooth == Spared("delete") /\ Calm

IInv == Typed /\ PodsOK /\ PlanOK /\ (Smooth => \A n \in Node : SafeAt(n))

(* A stalled informer shows pods that could be, and nothing is shown that  *)
(* is not so until it stalls.                                              *)
SeenOK ==
  /\ \A v \in seen : /\ v.server \in [Node -> SUBSET ServerPod] /\ v.cleanup \in [Node -> Row]
                     /\ \A n \in Node : PodsIn(v.cleanup[n])
  /\ Calm => seen = {}

(* A backend that was let go is not reconciled again, and has left nothing *)
(* when the lists were current.                                            *)
GoneOK ==
  /\ backend.released # "no" => ~backend.exists /\ rec.ops = <<>>
  /\ backend.released = "current" => \A n \in Node : Clear(n) /\ \A k \in Attempt : cleanup[n][k] = {}

Inv == IInv /\ SeenOK /\ GoneOK

-----------------------------------------------------------------------------
(* The list of passes.                                                     *)

LEMMA TailFacts ==
  ASSUME NEW s \in Seq(Pass), s # <<>>
  PROVE  /\ Tail(s) \in Seq(Pass) /\ DOMAIN s = 1..Len(s) /\ Len(s) \in Nat /\ 1 \in DOMAIN s
         /\ DOMAIN Tail(s) = 1..(Len(s) - 1) /\ \A i \in DOMAIN Tail(s) : Tail(s)[i] = s[i + 1] /\ i + 1 \in DOMAIN s
         /\ Tail(s) # <<>> => 2 \in DOMAIN s /\ Tail(s)[1] = s[2]
OBVIOUS

LEMMA TailPlan ==
  ASSUME NEW s \in Seq(Pass), s # <<>>, PlanOf(s)
  PROVE  PlanOf(Tail(s))
BY TailFacts DEF PlanOf

LEMMA TailShed ==
  ASSUME NEW s \in Seq(Pass), s # <<>>, ShedComes(s)
  PROVE  Tail(s) # <<>> /\ (Tail(s)[1] = "shed" \/ ShedComes(Tail(s)))
<1>1. PICK i \in DOMAIN s : i > 1 /\ s[i] = "shed" /\ \A j \in 1..(i - 1) : s[j] # "cleanups"
  BY DEF ShedComes
<1>2. i - 1 \in DOMAIN Tail(s) /\ Tail(s)[i - 1] = "shed" /\ Tail(s) # <<>>
  BY <1>1, TailFacts
<1>3. CASE i = 2
  BY <1>2, <1>3
<1>4. CASE i > 2
  <2>1. \A j \in 1..((i - 1) - 1) : Tail(s)[j] # "cleanups"
    BY <1>1, <1>2, <1>4, TailFacts
  <2> QED BY <1>2, <1>4, <2>1 DEF ShedComes
<1> QED BY <1>1, <1>3, <1>4, TailFacts

LEMMA NoShedAfterStatus ==
  ASSUME NEW s \in Seq(Pass), PlanOf(s), ShedComes(s) \/ (s # <<>> /\ s[1] = "shed"),
         NEW i \in DOMAIN s, s[i] = "status"
  PROVE  FALSE
BY DEF PlanOf, ShedComes

-----------------------------------------------------------------------------
(* Moving on.                                                              *)

LEMMA IdleFacts == RecOK(Idle) /\ Idle.ops = <<>> /\ Idle.release = {} /\ Idle.todo = Node /\ Idle.listed = {}
BY DEF Idle, RecOK, Rec

LEMMA KeptFacts ==
  ASSUME NEW r \in Rec, r.ops # <<>>
  PROVE  /\ Kept(r) \in Rec
         /\ Kept(r).ops = r.ops /\ Kept(r).todo = r.todo /\ Kept(r).release = r.release /\ Kept(r).listed = r.listed
         /\ Has(r, "create") => Kept(r).demand = r.demand /\ Kept(r).blocked = r.blocked
<1> DEFINE until(op, x) == IF Has(r, op) THEN x ELSE {}
           sv == [n \in Node |-> until("servers", r.servers[n])]
           k == [r EXCEPT !.servers = sv, !.demand = until("create", @),
                          !.live = until("create", @), !.blocked = until("create", @)]
<1>1. Kept(r) = k
  BY ZenonT(60) DEF Kept, Has
<1>2. sv \in [Node -> SUBSET ServerPod]
  <2>1. \A n \in Node : r.servers[n] \in SUBSET ServerPod
    BY DEF Rec
  <2> QED BY <2>1, ZenonT(60)
<1>3. until("create", r.demand) \in SUBSET Node /\ until("create", r.live) \in SUBSET Node
        /\ until("create", r.blocked) \in SUBSET Node
  BY ZenonT(60) DEF Rec
<1> HIDE DEF sv
<1>4. k \in Rec /\ k.ops = r.ops /\ k.todo = r.todo /\ k.release = r.release /\ k.listed = r.listed
        /\ k.demand = until("create", r.demand) /\ k.blocked = until("create", r.blocked)
  <2> HIDE DEF until
  <2> QED BY <1>2, <1>3, ZenonT(60) DEF Rec
<1> QED BY <1>1, <1>4, ZenonT(60)

LEMMA KeptEmpty == ASSUME NEW r, r.ops = <<>> PROVE Kept(r) = Idle
BY DEF Kept

(* One pass goes on to the next node, or the next pass begins.             *)
LEMMA AdvancedFacts ==
  ASSUME NEW r \in Rec, r.ops # <<>>
  PROVE  LET a == Advanced(r) IN
         \/ /\ r.todo \ {Turn} # {} /\ a \in Rec
            /\ a.ops = r.ops /\ a.todo = r.todo \ {Turn} /\ a.release = r.release /\ a.listed = r.listed
            /\ a.demand = r.demand /\ a.blocked = r.blocked
         \/ /\ r.todo \ {Turn} = {} /\ a = Idle /\ Tail(r.ops) = <<>>
         \/ /\ r.todo \ {Turn} = {} /\ a \in Rec /\ Tail(r.ops) # <<>>
            /\ a.ops = Tail(r.ops) /\ a.todo = Node /\ a.release = r.release /\ a.listed = r.listed
            /\ Has(a, "create") => a.demand = r.demand /\ a.blocked = r.blocked
<1> DEFINE left == r.todo \ {Turn}
           l == [r EXCEPT !.todo = left]
           t == [r EXCEPT !.ops = Tail(r.ops), !.todo = Node]
<1>1. CASE left # {}
  <2>1. Advanced(r) = l
    BY <1>1 DEF Advanced
  <2>2. l \in Rec /\ l.ops = r.ops /\ l.todo = left /\ l.release = r.release /\ l.listed = r.listed
          /\ l.demand = r.demand /\ l.blocked = r.blocked
    BY ZenonT(60) DEF Rec
  <2> QED BY <1>1, <2>1, <2>2
<1>2. CASE left = {}
  <2>1. Advanced(r) = Kept(t)
    BY <1>2 DEF Advanced
  <2>2. Tail(r.ops) \in Seq(Pass)
    BY TailFacts DEF Rec
  <2>3. t \in Rec /\ t.ops = Tail(r.ops) /\ t.todo = Node /\ t.release = r.release /\ t.listed = r.listed
          /\ t.demand = r.demand /\ t.blocked = r.blocked
    BY <2>2, ZenonT(60) DEF Rec
  <2> HIDE DEF t
  <2>4. CASE Tail(r.ops) = <<>>
    BY <1>2, <2>1, <2>3, <2>4, KeptEmpty, ZenonT(60)
  <2>5. CASE Tail(r.ops) # <<>>
    <3>1. Has(Advanced(r), "create") <=> Has(t, "create")
      <4>1. Advanced(r).ops = t.ops
        BY <2>1, <2>3, <2>5, KeptFacts, ZenonT(60)
      <4> QED BY <4>1, ZenonT(60) DEF Has
    <3> QED BY <1>2, <2>1, <2>3, <2>5, <3>1, KeptFacts, ZenonT(60)
  <2> QED BY <2>4, <2>5
<1> QED BY <1>1, <1>2

(* What an advance keeps of a reconcile that may go on.                    *)
LEMMA AdvancedKeeps ==
  ASSUME NEW r, RecOK(r), r.ops # <<>>, PlanOf(r.ops), r.todo = rec.todo
  PROVE  LET a == Advanced(r) IN
         /\ RecOK(a) /\ PlanOf(a.ops) /\ a.release \subseteq r.release /\ a.listed \subseteq r.listed
         /\ \A op : Has(a, op) => Has(r, op)
         /\ Has(r, "check") /\ ~Heads(r, "check") /\ a.ops # <<>> => Has(a, "check")
         /\ Has(a, "create") => a.demand = r.demand /\ a.blocked = r.blocked
         /\ \A n \in Node, op \in Pass : Waits(r, op, n) /\ n # Turn => Waits(a, op, n)
         /\ \A n \in Node : Ahead(r, n) /\ ~(Heads(r, "shed") /\ n = Turn) => Ahead(a, n)
         /\ \A n \in Node : Heads(r, "cleanups") /\ (n \notin r.todo \/ n = Turn) => Releasing(a, n)
<1> DEFINE a == Advanced(r)
<1>0. r \in Rec /\ r.ops \in Seq(Pass) /\ Node # {}
  BY NodeAssumption DEF RecOK, Rec
<1>1. CASE /\ r.todo \ {Turn} # {} /\ a \in Rec
           /\ a.ops = r.ops /\ a.todo = r.todo \ {Turn} /\ a.release = r.release /\ a.listed = r.listed
           /\ a.demand = r.demand /\ a.blocked = r.blocked
  <2> HIDE DEF a
  <2>1. RecOK(a) /\ PlanOf(a.ops) /\ a.release \subseteq r.release /\ a.listed \subseteq r.listed
    BY <1>1, ZenonT(60) DEF RecOK
  <2>2. \A op : Has(a, op) <=> Has(r, op)
    BY <1>1, ZenonT(60) DEF Has
  <2>3. \A n \in Node, op \in Pass : Waits(r, op, n) /\ n # Turn => Waits(a, op, n)
    BY <1>1, ZenonT(60) DEF Waits, Heads
  <2>4. \A n \in Node : Ahead(r, n) /\ ~(Heads(r, "shed") /\ n = Turn) => Ahead(a, n)
    BY <1>1, ZenonT(60) DEF Ahead, Waits, Heads
  <2>5. \A n \in Node : Heads(r, "cleanups") /\ (n \notin r.todo \/ n = Turn) => Releasing(a, n)
    BY <1>1, ZenonT(60) DEF Releasing, Heads
  <2> QED BY <1>1, <2>1, <2>2, <2>3, <2>4, <2>5, ZenonT(60) DEF a
<1>2. CASE r.todo \ {Turn} = {} /\ a = Idle /\ Tail(r.ops) = <<>>
  <2> HIDE DEF a
  <2>1. ~Has(a, "create") /\ \A op : ~Has(a, op)
    BY <1>2, IdleFacts DEF Has
  <2>2. PlanOf(a.ops)
    BY <1>2, IdleFacts DEF PlanOf
  <2>3. \A n \in Node, op \in Pass : ~(Waits(r, op, n) /\ n # Turn)
    BY <1>2, ZenonT(60) DEF Waits
  <2>4. ASSUME Heads(r, "cleanups") PROVE FALSE
    <3>1. 1 \in DOMAIN r.ops /\ r.ops[1] = "cleanups"
      BY <1>0, <2>4, TailFacts DEF Heads
    <3>2. 1 + 1 \in DOMAIN r.ops
      BY <3>1, ZenonT(60) DEF PlanOf
    <3>3. 1 \in DOMAIN Tail(r.ops)
      BY <1>0, <3>2, TailFacts
    <3>4. DOMAIN Tail(r.ops) = {}
      <4>1. DOMAIN <<>> = {}
        OBVIOUS
      <4> QED BY <1>2, <4>1, ZenonT(60)
    <3> QED BY <3>3, <3>4, ZenonT(60)
  <2> QED BY <1>2, <2>1, <2>2, <2>3, <2>4, IdleFacts, ZenonT(60) DEF Ahead, a
<1>3. CASE /\ r.todo \ {Turn} = {} /\ a \in Rec /\ Tail(r.ops) # <<>>
           /\ a.ops = Tail(r.ops) /\ a.todo = Node /\ a.release = r.release /\ a.listed = r.listed
           /\ Has(a, "create") => a.demand = r.demand /\ a.blocked = r.blocked
  <2> HIDE DEF a
  <2>1. RecOK(a) /\ PlanOf(a.ops) /\ a.release \subseteq r.release /\ a.listed \subseteq r.listed
    BY <1>0, <1>3, TailPlan, ZenonT(60) DEF RecOK
  <2>2. \A op : Has(a, op) => Has(r, op)
    BY <1>0, <1>3, TailFacts DEF Has
  <2>3. \A n \in Node, op \in Pass : ~(Waits(r, op, n) /\ n # Turn)
    BY <1>3, ZenonT(60) DEF Waits
  <2>4. \A n \in Node : Ahead(r, n) /\ ~(Heads(r, "shed") /\ n = Turn) => Ahead(a, n)
    <3>1. ASSUME NEW n \in Node, ShedComes(r.ops) PROVE Ahead(a, n)
      BY <1>0, <1>3, <3>1, TailShed, ZenonT(60) DEF Ahead, Waits, Heads
    <3> QED BY <1>3, <2>3, <3>1, ZenonT(60) DEF Ahead, Waits, Pass
  <2>5. \A n \in Node : Heads(r, "cleanups") => Releasing(a, n)
    <3>1. Heads(r, "cleanups") => Heads(a, "release")
      BY <1>0, <1>3, TailFacts, ZenonT(60) DEF Heads, PlanOf
    <3> QED BY <1>3, <3>1, ZenonT(60) DEF Releasing, Waits
  <2>6. ASSUME Has(r, "check"), ~Heads(r, "check") PROVE Has(a, "check")
    <3>1. PICK i \in DOMAIN r.ops : r.ops[i] = "check" /\ i # 1
      BY <2>6 DEF Has, Heads
    <3>2. i - 1 \in DOMAIN a.ops /\ a.ops[i - 1] = "check"
      BY <1>0, <1>3, <3>1, TailFacts
    <3> QED BY <3>2, ZenonT(60) DEF Has
  <2> QED BY <1>3, <2>1, <2>2, <2>3, <2>4, <2>5, <2>6, ZenonT(60) DEF a
<1> QED BY <1>0, <1>1, <1>2, <1>3, AdvancedFacts, ZenonT(60)

(* What is left of a reconcile that fails.                                 *)
LEMMA AbortedFacts ==
  ASSUME RecOK(rec), PlanOf(rec.ops)
  PROVE  /\ RecOK(Aborted) /\ PlanOf(Aborted.ops) /\ Aborted.release = {} /\ Aborted.listed = {}
         /\ \A op : Has(Aborted, op) => op = "status"
         /\ \A n \in Node : rec.ops # <<>> /\ Ahead(rec, n) => Aborted.ops = <<>>
<1> DEFINE ops == IF Has(rec, "status") THEN <<"status">> ELSE <<>>
           r == [rec EXCEPT !.ops = ops, !.todo = Node, !.release = {}, !.listed = {}]
<1>0. rec \in Rec /\ rec.ops \in Seq(Pass) /\ Node # {}
  BY NodeAssumption DEF RecOK, Rec
<1>1. Aborted = Kept(r)
  BY ZenonT(60) DEF Aborted, Has
<1>2. ops \in Seq(Pass)
  <2>1. <<"status">> \in Seq(Pass) /\ <<>> \in Seq(Pass)
    BY DEF Pass
  <2> QED BY <2>1, ZenonT(60)
<1>3. r \in Rec /\ r.ops = ops /\ r.todo = Node /\ r.release = {} /\ r.listed = {}
  <2> HIDE DEF ops
  <2> QED BY <1>0, <1>2, ZenonT(60) DEF Rec
<1> HIDE DEF r
<1>4. CASE Has(rec, "status")
  <2>1. r.ops = <<"status">> /\ r.ops # <<>>
    BY <1>3, <1>4
  <2>2. /\ Aborted \in Rec /\ Aborted.ops = <<"status">> /\ Aborted.todo = Node
        /\ Aborted.release = {} /\ Aborted.listed = {}
    BY <1>1, <1>3, <2>1, KeptFacts
  <2>3. RecOK(Aborted)
    BY <1>0, <2>2, ZenonT(60) DEF RecOK
  <2>4. PlanOf(Aborted.ops)
    BY <2>2 DEF PlanOf
  <2>5. \A op : Has(Aborted, op) => op = "status"
    BY <2>2 DEF Has
  <2>6. ASSUME NEW n \in Node, rec.ops # <<>>, Ahead(rec, n) PROVE FALSE
    BY <1>0, <1>4, <2>6, NoShedAfterStatus, ZenonT(60) DEF Ahead, Waits, Heads, Has
  <2> QED BY <2>2, <2>3, <2>4, <2>5, <2>6, ZenonT(60)
<1>5. CASE ~Has(rec, "status")
  <2>1. Aborted = Idle
    BY <1>1, <1>3, <1>5, KeptEmpty, ZenonT(60)
  <2>2. PlanOf(<<>>)
    BY DEF PlanOf
  <2>3. \A op : ~Has(Idle, op)
    BY IdleFacts DEF Has
  <2> QED BY <2>1, <2>2, <2>3, IdleFacts, ZenonT(60)
<1> QED BY <1>4, <1>5

-----------------------------------------------------------------------------
(* A node that a step does not disturb stays safe.                         *)

(* Nothing gets worse on the node.                                         *)
Quiet(n) ==
  /\ Loose(n)' => Loose(n)
  /\ Clear(n) => Clear(n)'
  /\ Pending(n)' => Pending(n)
  /\ Leaving(n) => Leaving(n)'

(* The reconcile that goes on promises the node no less.                   *)
Steady(n) ==
  /\ backend.deleting => backend'.deleting
  /\ \A k \in Attempt : <<n, k>> \in rec'.release => <<n, k>> \in rec.release
  /\ backend.deleting /\ Ahead(rec, n) => Ahead(rec', n)
  /\ Has(rec', "consumers") /\ ~Has(rec', "check") =>
       /\ Has(rec, "consumers") /\ ~Has(rec, "check")
       /\ Waits(rec, "shed", n) => Waits(rec', "shed", n)
  /\ Has(rec', "create") /\ n \in rec'.demand \ rec'.blocked =>
       /\ Has(rec, "create") /\ n \in rec.demand \ rec.blocked
       /\ Waits(rec, "cleanups", n) => Waits(rec', "cleanups", n)

LEMMA SafeKept == ASSUME NEW n, SafeAt(n), Quiet(n), Steady(n) PROVE SafeAt(n)'
BY ZenonT(60) DEF SafeAt, Quiet, Steady

(* What a pass makes of the reconcile before it goes on: the same passes,  *)
(* nodes and demand, more nodes blocked.                                   *)
Alike(r) ==
  /\ RecOK(r) /\ r.ops = rec.ops /\ r.todo = rec.todo
  /\ r.demand = rec.demand /\ rec.blocked \subseteq r.blocked /\ r.listed \subseteq rec.listed

LEMMA AdvancedSteady ==
  ASSUME RecOK(rec), NEW r, Alike(r), PlanOf(rec.ops), rec.ops # <<>>, ~Heads(rec, "check"),
         rec' = Advanced(r), UNCHANGED backend,
         NEW n \in Node, n # Turn \/ ~(Heads(rec, "shed") \/ Heads(rec, "cleanups")),
         \A k \in Attempt : <<n, k>> \in r.release => <<n, k>> \in rec.release
  PROVE  Steady(n)
<1>0. /\ RecOK(r) /\ r.ops # <<>> /\ PlanOf(r.ops) /\ r.todo = rec.todo
      /\ r.demand = rec.demand /\ rec.blocked \subseteq r.blocked
      /\ \A op : (Has(r, op) <=> Has(rec, op)) /\ (Heads(r, op) <=> Heads(rec, op))
      /\ \A op : Waits(r, op, n) <=> Waits(rec, op, n)
      /\ Ahead(r, n) <=> Ahead(rec, n)
  BY ZenonT(60) DEF Alike, Has, Heads, Waits, Ahead
<1>1. \A op : Has(rec', op) => Has(r, op)
  BY <1>0, AdvancedKeeps, ZenonT(60)
<1>2. \A k \in Attempt : <<n, k>> \in rec'.release => <<n, k>> \in rec.release
  BY <1>0, AdvancedKeeps, ZenonT(60)
<1>3. Ahead(r, n) => Ahead(rec', n)
  BY <1>0, AdvancedKeeps, ZenonT(60)
<1>4. Has(r, "check") /\ rec'.ops # <<>> => Has(rec', "check")
  BY <1>0, AdvancedKeeps, ZenonT(60)
<1>5. Has(rec', "consumers") => rec'.ops # <<>>
  BY DEF Has
<1>6. Has(rec', "create") => rec'.demand = r.demand /\ rec'.blocked = r.blocked
  BY <1>0, AdvancedKeeps, ZenonT(60)
<1>7. \A op \in {"shed", "cleanups"} : Waits(r, op, n) => Waits(rec', op, n)
  <2>1. \A op \in {"shed", "cleanups"} : op \in Pass /\ (Waits(r, op, n) => n # Turn)
    BY <1>0 DEF Waits, Pass
  <2>2. \A op \in Pass : Waits(r, op, n) /\ n # Turn => Waits(rec', op, n)
    BY <1>0, AdvancedKeeps, ZenonT(60)
  <2> QED BY <2>1, <2>2, ZenonT(60)
<1> QED BY <1>0, <1>1, <1>2, <1>3, <1>4, <1>5, <1>6, <1>7, ZenonT(60) DEF Steady

LEMMA AbortedSteady ==
  ASSUME RecOK(rec), PlanOf(rec.ops), rec.ops # <<>>, rec' = Aborted \/ rec' = Idle,
         backend.deleting => backend'.deleting, NEW n \in Node
  PROVE  Steady(n)
<1>1. rec'.release = {} /\ (Ahead(rec, n) => rec'.ops = <<>>) /\ \A op : Has(rec', op) => op = "status"
  <2>1. CASE rec' = Aborted
    BY <2>1, AbortedFacts, ZenonT(60)
  <2>2. CASE rec' = Idle
    BY <2>2, IdleFacts DEF Has
  <2> QED BY <2>1, <2>2
<1>2. ~Has(rec', "consumers") /\ ~Has(rec', "create")
  BY <1>1
<1> QED BY <1>1, <1>2, ZenonT(60) DEF Steady, Ahead

LEMMA AdvancedPlanOK ==
  ASSUME NEW r, RecOK(r), r.ops = rec.ops, r.todo = rec.todo, r.listed = {}, rec.ops # <<>>, PlanOK,
         backend.deleting => backend'.deleting, rec' = Advanced(r),
         \A n \in Node, k \in Attempt : <<n, k>> \in r.release =>
           \/ Heads(rec, "cleanups") /\ (n \notin rec.todo \/ n = Turn)
           \/ Waits(rec, "release", n) /\ n # Turn
  PROVE  PlanOK' /\ RecOK(rec')
<1>1. PlanOf(r.ops) /\ r.ops # <<>> /\ (Has(r, "check") => backend.deleting)
  BY ZenonT(60) DEF PlanOK, Has
<1>2. /\ RecOK(rec') /\ PlanOf(rec'.ops) /\ rec'.release \subseteq r.release /\ rec'.listed = {}
      /\ Has(rec', "check") => Has(r, "check")
  BY <1>1, AdvancedKeeps, ZenonT(60)
<1>3. ASSUME NEW n \in Node, NEW k \in Attempt, <<n, k>> \in rec'.release PROVE Releasing(rec', n)
  <2>1. \/ Heads(r, "cleanups") /\ (n \notin r.todo \/ n = Turn)
        \/ Waits(r, "release", n) /\ n # Turn
    BY <1>2, <1>3, ZenonT(60) DEF Heads, Waits
  <2>2. "release" \in Pass
    BY DEF Pass
  <2> QED BY <1>1, <2>1, <2>2, AdvancedKeeps, ZenonT(60) DEF Releasing
<1> QED BY <1>1, <1>2, <1>3, ZenonT(60) DEF PlanOK

LEMMA AdvancedPlain ==
  ASSUME NEW r, RecOK(r), r.ops = rec.ops, r.todo = rec.todo, r.release = rec.release,
         r.listed \subseteq rec.listed, rec.ops # <<>>, PlanOK,
         ~Heads(rec, "cleanups"), ~Heads(rec, "release"),
         backend.deleting => backend'.deleting, rec' = Advanced(r)
  PROVE  PlanOK' /\ RecOK(rec')
<1>1. r.listed = {} /\ \A n \in Node, k \in Attempt : <<n, k>> \notin r.release
  BY ZenonT(60) DEF PlanOK, Releasing, Waits
<1> QED BY <1>1, AdvancedPlanOK, ZenonT(60)

LEMMA AbortedPlanOK ==
  ASSUME RecOK(rec), PlanOK, rec' = Aborted \/ rec' = Idle
  PROVE  PlanOK' /\ RecOK(rec')
<1>1. RecOK(rec') /\ PlanOf(rec'.ops) /\ rec'.release = {} /\ rec'.listed = {} /\ ~Has(rec', "check")
  <2>1. CASE rec' = Aborted
    BY <2>1, AbortedFacts, ZenonT(60) DEF PlanOK
  <2>2. CASE rec' = Idle
    BY <2>2, IdleFacts DEF Has, PlanOf
  <2> QED BY <2>1, <2>2
<1> QED BY <1>1, ZenonT(60) DEF PlanOK

-----------------------------------------------------------------------------
(* What happens to pods.                                                   *)

LEMMA ServerPods ==
  /\ \A s \in ServerPod : LET t == [s EXCEPT !.up = TRUE, !.conflict = FALSE]
                          IN t \in ServerPod /\ (t.del <=> s.del) /\ t.up
  /\ \A s \in ServerPod : LET t == [s EXCEPT !.conflict = TRUE]
                          IN t \in ServerPod /\ (t.del <=> s.del) /\ (t.up <=> s.up)
  /\ \A s \in ServerPod : \A x \in {"no", "marked", "expired"} :
       LET t == [s EXCEPT !.idle = x] IN t \in ServerPod /\ (t.del <=> s.del) /\ (t.up <=> s.up)
  /\ \A s \in ServerPod : LET t == [s EXCEPT !.del = TRUE]
                          IN t \in ServerPod /\ t.del /\ (t.up <=> s.up)
BY ZenonT(60) DEF ServerPod

LEMMA CleanupPods ==
  /\ \A p \in CleanupPod : \A x \in {"running", "ok", "failed"} :
       LET t == [p EXCEPT !.phase = x] IN t \in CleanupPod /\ t.phase = x /\ (t.gated <=> p.gated) /\ (t.del <=> p.del)
  /\ \A p \in CleanupPod : LET t == [p EXCEPT !.del = TRUE]
                           IN t \in CleanupPod /\ t.phase = p.phase /\ (t.gated <=> p.gated) /\ t.del
  /\ \A p \in CleanupPod : LET t == [p EXCEPT !.gated = FALSE]
                           IN t \in CleanupPod /\ t.phase = p.phase /\ ~t.gated /\ (t.del <=> p.del)
BY ZenonT(60) DEF CleanupPod

(* A delete takes what does not run and marks what does.                   *)
LEMMA DeletedServerFacts ==
  ASSUME NEW pod \in SUBSET ServerPod
  PROVE  DeletedServer(pod) \in SUBSET ServerPod /\ \A t \in DeletedServer(pod) : t.del /\ t.up
<1>1. DeletedServer(pod) = {[p EXCEPT !.del = TRUE] : p \in {q \in pod : q.up}}
  BY DEF DeletedServer, Deleted
<1>2. ASSUME NEW t \in DeletedServer(pod) PROVE t \in ServerPod /\ t.del /\ t.up
  <2>1. PICK p \in pod : p.up /\ t = [p EXCEPT !.del = TRUE]
    BY <1>1, <1>2, ZenonT(60)
  <2> QED BY <2>1, ServerPods, ZenonT(60)
<1> QED BY <1>2, ZenonT(60)

LEMMA DeletedCleanupFacts ==
  ASSUME NEW pod \in SUBSET CleanupPod
  PROVE  /\ DeletedCleanup(pod) \in SUBSET CleanupPod
         /\ Single(pod) => Single(DeletedCleanup(pod))
         /\ \A t \in DeletedCleanup(pod) :
              t.del /\ t.phase = "running" /\ \E p \in pod : p.phase = "running" /\ (p.gated <=> t.gated)
<1>1. DeletedCleanup(pod) = {[p EXCEPT !.del = TRUE] : p \in {q \in pod : q.phase = "running"}}
  BY DEF DeletedCleanup, Deleted
<1>2. ASSUME NEW t \in DeletedCleanup(pod)
      PROVE  t \in CleanupPod /\ t.del /\ t.phase = "running" /\ \E p \in pod : p.phase = "running" /\ (p.gated <=> t.gated)
  <2>1. PICK p \in pod : p.phase = "running" /\ t = [p EXCEPT !.del = TRUE]
    BY <1>1, <1>2, ZenonT(60)
  <2> QED BY <2>1, CleanupPods, ZenonT(60)
<1>3. Single(pod) => Single(DeletedCleanup(pod))
  BY <1>1, ZenonT(60) DEF Single
<1> QED BY <1>2, <1>3, ZenonT(60)

-----------------------------------------------------------------------------
(* Steps of the cluster: the reconcile stands still.                       *)

LEMMA StillSteady ==
  ASSUME rec' = rec, backend.deleting => backend'.deleting, NEW n \in Node PROVE Steady(n)
BY ZenonT(60) DEF Steady

LEMMA StillPlanOK ==
  ASSUME PlanOK, rec' = rec, backend.deleting => backend'.deleting PROVE PlanOK'
BY ZenonT(60) DEF PlanOK

(* Engines come, start and go; none starts to use a clear directory.       *)
LEMMA EngineClear ==
  ASSUME IInv, Admit \/ Schedule \/ GateOpens \/ EngineLeaves
  PROVE  /\ UNCHANGED <<backend, rec, server, cleanup, faults>> /\ engine' \in [Engine -> EnginePod]
         /\ \A n \in Node : Clear(n) => Clear(n)'
<1>1. UNCHANGED <<backend, rec, server, cleanup, faults>>
  BY ZenonT(60) DEF Admit, Schedule, GateOpens, EngineLeaves, ctrlVars
<1>2. PICK e \in Engine, to \in EnginePod :
        /\ engine' = [engine EXCEPT ![e] = to]
        /\ \/ to.st \in {"none", "pending", "gate", "ended"} \/ ~to.shm
           \/ engine[e].st \in {"run", "leaving"} /\ to.node = engine[e].node /\ to.shm = engine[e].shm
           \/ to.node = engine[e].node /\ server[engine[e].node] # {}
  <2>0. \A e \in Engine : engine[e] \in EnginePod
    BY ZenonT(60) DEF IInv, Typed
  <2>1. CASE Admit
    <3>1. PICK e \in Engine, g \in Nat :
            engine' = [engine EXCEPT ![e] = [st |-> "pending", node |-> NoNode, gen |-> g,
                                             shm |-> g > 0 /\ backend.kind = "nodelocal"]]
      <4>1. backend.gen \in Nat
        BY DEF IInv, Typed, Backend
      <4> QED BY <2>1, <4>1, ZenonT(60) DEF Admit
    <3> DEFINE to == [st |-> "pending", node |-> NoNode, gen |-> g, shm |-> g > 0 /\ backend.kind = "nodelocal"]
    <3>2. to \in EnginePod /\ to.st = "pending"
      BY DEF EnginePod
    <3> QED BY <3>1, <3>2, ZenonT(60)
  <2>2. CASE Schedule
    <3>1. PICK e \in Engine, n \in Node :
            engine' = [engine EXCEPT ![e].node = n, ![e].st = IF engine[e].shm THEN "gate" ELSE "run"]
      BY <2>2, ZenonT(60) DEF Schedule
    <3> DEFINE to == [engine[e] EXCEPT !.node = n, !.st = IF engine[e].shm THEN "gate" ELSE "run"]
    <3>2. to \in EnginePod /\ (to.st = "gate" \/ ~to.shm)
      BY <2>0, ZenonT(60) DEF EnginePod
    <3>3. engine' = [engine EXCEPT ![e] = to]
      BY <2>0, <3>1, ZenonT(60) DEF EnginePod, IInv, Typed
    <3> QED BY <3>2, <3>3, ZenonT(60)
  <2>3. CASE GateOpens
    <3>1. PICK e \in Engine : server[engine[e].node] # {} /\ engine' = [engine EXCEPT ![e].st = "run"]
      BY <2>3, ZenonT(60) DEF GateOpens
    <3> DEFINE to == [engine[e] EXCEPT !.st = "run"]
    <3>2. to \in EnginePod /\ to.node = engine[e].node
      BY <2>0 DEF EnginePod
    <3> QED BY <3>1, <3>2, ZenonT(60)
  <2>4. CASE EngineLeaves
    <3>1. PICK e \in Engine :
            \/ engine' = [engine EXCEPT ![e].st = "ended"]
            \/ engine[e].st = "run" /\ engine' = [engine EXCEPT ![e].st = "leaving"]
            \/ engine' = [engine EXCEPT ![e] = NoEngine]
      BY <2>4, ZenonT(60) DEF EngineLeaves
    <3>2. CASE engine' = [engine EXCEPT ![e].st = "ended"]
      <4> DEFINE to == [engine[e] EXCEPT !.st = "ended"]
      <4>1. to \in EnginePod /\ to.st = "ended"
        BY <2>0 DEF EnginePod
      <4> QED BY <3>2, <4>1, ZenonT(60)
    <3>3. CASE engine[e].st = "run" /\ engine' = [engine EXCEPT ![e].st = "leaving"]
      <4> DEFINE to == [engine[e] EXCEPT !.st = "leaving"]
      <4>1. to \in EnginePod /\ to.node = engine[e].node /\ to.shm = engine[e].shm
        BY <2>0 DEF EnginePod
      <4> QED BY <3>3, <4>1, ZenonT(60)
    <3>4. CASE engine' = [engine EXCEPT ![e] = NoEngine]
      <4>1. NoEngine \in EnginePod /\ NoEngine.st = "none"
        BY DEF EnginePod, NoEngine
      <4> QED BY <3>4, <4>1, ZenonT(60)
    <3> QED BY <3>1, <3>2, <3>3, <3>4
  <2> QED BY <2>1, <2>2, <2>3, <2>4
<1>3. engine' \in [Engine -> EnginePod]
  BY <1>2, ZenonT(60) DEF IInv, Typed
<1>4. ASSUME NEW n \in Node, Clear(n) PROVE Clear(n)'
  BY <1>1, <1>2, <1>4, ZenonT(60) DEF IInv, Typed, Clear
<1> QED BY <1>1, <1>3, <1>4

LEMMA EngineStep ==
  ASSUME IInv, Admit \/ Schedule \/ GateOpens \/ EngineLeaves PROVE IInv'
<1>1. /\ UNCHANGED <<backend, rec, server, cleanup, faults>> /\ engine' \in [Engine -> EnginePod]
      /\ \A n \in Node : Clear(n) => Clear(n)'
  BY EngineClear
<1>2. Typed' /\ PodsOK' /\ PlanOK' /\ (Smooth' => Smooth)
  BY <1>1, StillPlanOK, ZenonT(60) DEF IInv, Typed, PodsOK, Smooth, Calm, Spared
<1>3. ASSUME NEW n \in Node, SafeAt(n) PROVE SafeAt(n)'
  <2>1. Quiet(n)
    BY <1>1, ZenonT(60) DEF Quiet, Loose, Pending, Leaving
  <2> QED BY <1>1, <1>3, <2>1, StillSteady, SafeKept, ZenonT(60)
<1> QED BY <1>2, <1>3, ZenonT(60) DEF IInv

(* Servers start, meet conflicts, and are marked idle for too long.        *)
LEMMA ServerStep ==
  ASSUME IInv, ServerStarts \/ RetentionExpires PROVE IInv'
<1>1. UNCHANGED <<backend, rec, engine, cleanup, faults>>
  BY ZenonT(60) DEF ServerStarts, RetentionExpires, ctrlVars, envVars
<1>0. \A n \in Node : \A s \in server[n] : s \in ServerPod /\ (s.del => s.up)
  BY ZenonT(60) DEF IInv, Typed, PodsOK
<1>2. PICK n \in Node, t \in ServerPod : \E s \in server[n] :
        server' = [server EXCEPT ![n] = {t}] /\ (t.del <=> s.del) /\ (t.del => t.up)
  <2>1. CASE ServerStarts
    <3>0. PICK n \in Node : \E s \in server[n] :
            /\ ~s.del
            /\ \/ server' = [server EXCEPT ![n] = {[s EXCEPT !.up = TRUE, !.conflict = FALSE]}]
               \/ server' = [server EXCEPT ![n] = {[s EXCEPT !.conflict = TRUE]}]
      BY <2>1, ZenonT(60) DEF ServerStarts
    <3>1. PICK s \in server[n] :
            /\ ~s.del
            /\ \/ server' = [server EXCEPT ![n] = {[s EXCEPT !.up = TRUE, !.conflict = FALSE]}]
               \/ server' = [server EXCEPT ![n] = {[s EXCEPT !.conflict = TRUE]}]
      BY <3>0, ZenonT(60)
    <3>2. s \in ServerPod
      BY <1>0, ZenonT(60)
    <3>3. CASE server' = [server EXCEPT ![n] = {[s EXCEPT !.up = TRUE, !.conflict = FALSE]}]
      BY <3>1, <3>2, <3>3, ServerPods, ZenonT(60)
    <3>4. CASE server' = [server EXCEPT ![n] = {[s EXCEPT !.conflict = TRUE]}]
      BY <3>1, <3>2, <3>4, ServerPods, ZenonT(60)
    <3> QED BY <3>1, <3>3, <3>4
  <2>2. CASE RetentionExpires
    <3>1. PICK n \in Node : \E s \in server[n] : server' = [server EXCEPT ![n] = {[s EXCEPT !.idle = "expired"]}]
      BY <2>2, ZenonT(60) DEF RetentionExpires
    <3> QED BY <1>0, <3>1, ServerPods, ZenonT(60)
  <2> QED BY <2>1, <2>2
<1>3. Typed'
  BY <1>1, <1>2, ZenonT(60) DEF IInv, Typed
<1>4. PodsOK'
  <2>1. \A m \in Node : \A x \in server'[m] : x.del => x.up
    <3>1. server'[n] = {t} /\ \A m \in Node : m # n => server'[m] = server[m]
      BY <1>2, ZenonT(60) DEF IInv, Typed
    <3>2. \A x \in server'[n] : x.del => x.up
      BY <1>2, <3>1, ZenonT(60)
    <3> QED BY <1>0, <3>1, <3>2, ZenonT(60)
  <2>2. Calm' => Calm
    BY <1>1, ZenonT(60) DEF Calm, Spared
  <2> QED BY <1>1, <2>1, <2>2, ZenonT(60) DEF IInv, PodsOK
<1>5. PlanOK' /\ (Smooth' => Smooth)
  BY <1>1, StillPlanOK, ZenonT(60) DEF IInv, Smooth, Calm, Spared
<1>6. ASSUME NEW m \in Node, SafeAt(m) PROVE SafeAt(m)'
  <2>1. Clear(m) => Clear(m)'
    BY <1>1, <1>2, ZenonT(60) DEF IInv, Typed, Clear
  <2>2. Leaving(m) => Leaving(m)'
    BY <1>2, ZenonT(60) DEF IInv, Typed, Leaving
  <2>3. Quiet(m)
    BY <1>1, <2>1, <2>2, ZenonT(60) DEF Quiet, Loose, Pending
  <2> QED BY <1>1, <1>6, <2>3, StillSteady, SafeKept, ZenonT(60)
<1> QED BY <1>3, <1>4, <1>5, <1>6, ZenonT(60) DEF IInv

-----------------------------------------------------------------------------
(* Cleanups of one node change.                                            *)

LEMMA RowFacts ==
  ASSUME cleanup \in [Node -> Row], NEW n \in Node, NEW row \in Row, cleanup' = [cleanup EXCEPT ![n] = row]
  PROVE  cleanup' \in [Node -> Row] /\ cleanup'[n] = row /\ \A m \in Node : m # n => cleanup'[m] = cleanup[m]
BY ZenonT(60)

(* A fault of one kind is counted, and counts are never taken back.        *)
LEMMA FaultFacts ==
  ASSUME faults \in [FaultKinds -> Nat], UNCHANGED faults \/ \E kind : fault(kind)
  PROVE  faults' \in [FaultKinds -> Nat] /\ (Smooth' => Smooth) /\ (Calm' => Calm)
<1>1. CASE UNCHANGED faults
  BY <1>1, ZenonT(60) DEF Smooth, Calm, Spared
<1>2. ASSUME NEW kind, fault(kind) PROVE faults' \in [FaultKinds -> Nat] /\ (Smooth' => Smooth) /\ (Calm' => Calm)
  <2>1. kind \in FaultKinds /\ faults' = [faults EXCEPT ![kind] = faults[kind] + 1]
    BY <1>2, ZenonT(60) DEF fault
  <2>2. \A n \in Nat : n + 1 \in Nat /\ n + 1 # 0
    OBVIOUS
  <2>3. faults[kind] + 1 \in Nat /\ faults[kind] + 1 # 0
    BY <2>1, <2>2, ZenonT(60)
  <2> QED BY <2>1, <2>3, ZenonT(60) DEF Smooth, Calm, Spared
<1> QED BY <1>1, <1>2, ZenonT(60)

(* What a deleted pod leaves, and what the garbage collector takes.        *)
LEMMA PodGoneStep ==
  ASSUME IInv, PodGone PROVE IInv'
<1>1. UNCHANGED <<backend, rec, engine, faults>>
  BY ZenonT(60) DEF PodGone, ctrlVars, envVars
<1>2. PICK n \in Node :
        \/ server' = [server EXCEPT ![n] = {}] /\ UNCHANGED cleanup
        \/ \E k \in Attempt : cleanup' = [cleanup EXCEPT ![n] = [@ EXCEPT ![k] = {}]] /\ UNCHANGED server
  BY ZenonT(60) DEF PodGone
<1>3. CASE server' = [server EXCEPT ![n] = {}] /\ UNCHANGED cleanup
  <2>1. Typed'
    BY <1>1, <1>3, ZenonT(60) DEF IInv, Typed
  <2>2. \A m \in Node : server'[m] \subseteq server[m]
    BY <1>3, ZenonT(60) DEF IInv, Typed
  <2>3. PodsOK' /\ PlanOK' /\ (Smooth' => Smooth) /\ (Calm' => Calm)
    BY <1>1, <1>3, <2>2, StillPlanOK, ZenonT(60) DEF IInv, PodsOK, Smooth, Calm, Spared
  <2>4. ASSUME NEW m \in Node, SafeAt(m) PROVE SafeAt(m)'
    <3>1. Quiet(m)
      BY <1>1, <1>3, <2>2, ZenonT(60) DEF Quiet, Loose, Pending, Leaving, Clear
    <3> QED BY <1>1, <2>4, <3>1, StillSteady, SafeKept, ZenonT(60)
  <2> QED BY <2>1, <2>3, <2>4, ZenonT(60) DEF IInv
<1>4. ASSUME NEW k \in Attempt, cleanup' = [cleanup EXCEPT ![n] = [@ EXCEPT ![k] = {}]], UNCHANGED server
      PROVE  IInv'
  <2> DEFINE row == [cleanup[n] EXCEPT ![k] = {}]
  <2>0. cleanup[n] \in Row /\ PodsIn(cleanup[n]) /\ cleanup \in [Node -> Row]
    BY ZenonT(60) DEF IInv, Typed, PodsOK
  <2>1. row \in Row /\ row[k] = {} /\ \A j \in Attempt : j # k => row[j] = cleanup[n][j]
    <3>1. {} \in SUBSET CleanupPod
      OBVIOUS
    <3> QED BY <2>0, <3>1, ZenonT(60) DEF Row
  <2>2. cleanup' = [cleanup EXCEPT ![n] = row]
    BY <1>4, ZenonT(60)
  <2> HIDE DEF row
  <2>3. \A j \in Attempt : row[j] \subseteq cleanup[n][j]
    BY <2>1, ZenonT(60)
  <2>4. PodsIn(row) /\ (PendingIn(row) => PendingIn(cleanup[n])) /\ (LooseIn(row) => LooseIn(cleanup[n]))
    BY <2>0, <2>3, ZenonT(60) DEF PodsIn, Single, PendingIn, LooseIn
  <2>9. OneIn(cleanup[n]) => OneIn(row)
    <3>1. \A j \in Attempt : UnderWay(row[j]) => UnderWay(cleanup[n][j])
      BY <2>3, ZenonT(60) DEF UnderWay, Unfinished
    <3> QED BY <3>1, ZenonT(60) DEF OneIn
  <2>5. cleanup' \in [Node -> Row] /\ cleanup'[n] = row /\ \A m \in Node : m # n => cleanup'[m] = cleanup[m]
    BY <2>0, <2>1, <2>2, RowFacts, ZenonT(60)
  <2>6. Typed'
    BY <1>1, <1>4, <2>5, ZenonT(60) DEF IInv, Typed
  <2>7. PodsOK' /\ PlanOK' /\ (Smooth' => Smooth) /\ (Calm' => Calm)
    BY <1>1, <1>4, <2>4, <2>5, <2>9, StillPlanOK, ZenonT(60) DEF IInv, PodsOK, Smooth, Calm, Spared
  <2>8. ASSUME NEW m \in Node, SafeAt(m) PROVE SafeAt(m)'
    <3>1. Quiet(m)
      BY <1>1, <1>4, <2>4, <2>5, ZenonT(60) DEF Quiet, Loose, Pending, Leaving, Clear
    <3> QED BY <1>1, <2>8, <3>1, StillSteady, SafeKept, ZenonT(60)
  <2> QED BY <2>6, <2>7, <2>8, ZenonT(60) DEF IInv
<1> QED BY <1>2, <1>3, <1>4, ZenonT(60)

(* A released cleanup starts and ends.                                     *)
LEMMA CleanupRunsStep ==
  ASSUME IInv, CleanupRuns PROVE IInv'
<1>1. UNCHANGED <<backend, rec, engine, server>>
  BY ZenonT(60) DEF CleanupRuns, ctrlVars
<1>2. PICK n \in Node, k \in Attempt, x \in {"running", "ok", "failed"} : \E p \in cleanup[n][k] :
        /\ cleanup' = [cleanup EXCEPT ![n] = [@ EXCEPT ![k] = {[p EXCEPT !.phase = x]}]]
        /\ \/ ~p.gated /\ p.phase = "pending" /\ x = "running"
           \/ p.phase = "running" /\ ~p.del
  BY ZenonT(60) DEF CleanupRuns
<1>3. PICK p \in cleanup[n][k] :
        /\ cleanup' = [cleanup EXCEPT ![n] = [@ EXCEPT ![k] = {[p EXCEPT !.phase = x]}]]
        /\ \/ ~p.gated /\ p.phase = "pending" /\ x = "running"
           \/ p.phase = "running" /\ ~p.del
  BY <1>2, ZenonT(60)
<1>4. UNCHANGED faults \/ \E kind : fault(kind)
  BY ZenonT(60) DEF CleanupRuns
<1> DEFINE t == [p EXCEPT !.phase = x]
           row == [cleanup[n] EXCEPT ![k] = {t}]
<1>5. cleanup \in [Node -> Row] /\ cleanup[n] \in Row /\ PodsIn(cleanup[n])
  BY ZenonT(60) DEF IInv, Typed, PodsOK
<1>6. p \in CleanupPod /\ (p.del => p.phase = "running") /\ (p.gated => p.phase = "pending")
  BY <1>5, ZenonT(60) DEF PodsIn, Row
<1>7. t \in CleanupPod /\ t.phase = x /\ (t.gated <=> p.gated) /\ (t.del <=> p.del)
  BY <1>6 DEF CleanupPod
<1>8. cleanup' = [cleanup EXCEPT ![n] = row]
  BY <1>3, ZenonT(60)
<1> HIDE DEF t
<1>9. ~p.gated /\ ~t.gated /\ p.phase \in {"pending", "running"} /\ (t.del => t.phase = "running") /\ (~t.del => ~p.del)
  BY <1>3, <1>6, <1>7
<1>10. row \in Row /\ row[k] = {t} /\ \A j \in Attempt : j # k => row[j] = cleanup[n][j]
  <2>1. {t} \in SUBSET CleanupPod
    BY <1>7
  <2> QED BY <1>5, <2>1, ZenonT(60) DEF Row
<1> HIDE DEF row
<1>11. PodsIn(row) /\ (OneIn(cleanup[n]) => OneIn(row)) /\ (PendingIn(row) => PendingIn(cleanup[n])) /\ (LooseIn(row) => LooseIn(cleanup[n]))
  <2>1. PodsIn(row)
    <3>1. Single({t})
      BY ZenonT(60) DEF Single
    <3>2. \A q \in row[k] : (q.del => q.phase = "running") /\ (q.gated => q.phase = "pending")
      BY <1>9, <1>10, ZenonT(60)
    <3> QED BY <1>5, <1>10, <3>1, <3>2, ZenonT(60) DEF PodsIn
  <2>2. \A j \in Attempt : UnderWay(row[j]) => UnderWay(cleanup[n][j])
    BY <1>9, <1>10, ZenonT(60) DEF UnderWay, Unfinished
  <2>3. LooseIn(row) => LooseIn(cleanup[n])
    BY <1>9, <1>10, ZenonT(60) DEF LooseIn
  <2>4. p.phase # "ok"
    BY <1>9
  <2>5. PendingIn(row) => PendingIn(cleanup[n])
    BY <2>4, <1>10, ZenonT(60) DEF PendingIn
  <2> QED BY <1>5, <2>1, <2>2, <2>3, <2>5, ZenonT(60) DEF OneIn
<1>12. cleanup' \in [Node -> Row] /\ cleanup'[n] = row /\ \A m \in Node : m # n => cleanup'[m] = cleanup[m]
  BY <1>5, <1>8, <1>10, RowFacts, ZenonT(60)
<1>13. faults' \in [FaultKinds -> Nat] /\ (Smooth' => Smooth) /\ (Calm' => Calm)
  BY <1>4, FaultFacts, ZenonT(60) DEF IInv, Typed
<1>14. Typed'
  BY <1>1, <1>12, <1>13, ZenonT(60) DEF IInv, Typed
<1>15. PodsOK' /\ PlanOK'
  BY <1>1, <1>11, <1>12, <1>13, StillPlanOK, ZenonT(60) DEF IInv, PodsOK
<1>16. ASSUME NEW m \in Node, SafeAt(m) PROVE SafeAt(m)'
  <2>1. Quiet(m)
    BY <1>1, <1>11, <1>12, ZenonT(60) DEF Quiet, Loose, Pending, Leaving, Clear
  <2> QED BY <1>1, <1>16, <2>1, StillSteady, SafeKept, ZenonT(60)
<1> QED BY <1>13, <1>14, <1>15, <1>16, ZenonT(60) DEF IInv

(* The operator changes or deletes the backend.                            *)
LEMMA OperateStep ==
  ASSUME IInv, Operate PROVE IInv'
<1>1. UNCHANGED <<rec, engine, server, cleanup, faults>>
  BY ZenonT(60) DEF Operate, envVars
<1>2. backend' \in Backend /\ (backend.deleting => backend'.deleting)
  <2>1. backend \in Backend /\ ~backend.deleting
    BY ZenonT(60) DEF IInv, Typed, Operate
  <2>2. \/ \E k \in Kinds : backend' = [backend EXCEPT !.kind = k, !.gen = @ + 1]
        \/ backend' = [backend EXCEPT !.deleting = TRUE, !.exists = backend.finalizer]
    BY ZenonT(60) DEF Operate
  <2>3. ASSUME NEW k \in Kinds, backend' = [backend EXCEPT !.kind = k, !.gen = @ + 1] PROVE backend' \in Backend
    <3>1. k \in {"nodelocal", "podlocal", "events"} /\ backend.gen \in Nat /\ backend.gen + 1 \in Nat
      BY <2>1, NodeAssumption DEF Backend
    <3> QED BY <2>1, <2>3, <3>1, ZenonT(60) DEF Backend
  <2>4. ASSUME backend' = [backend EXCEPT !.deleting = TRUE, !.exists = backend.finalizer] PROVE backend' \in Backend
    BY <2>1, <2>4, ZenonT(60) DEF Backend
  <2> QED BY <2>1, <2>2, <2>3, <2>4, ZenonT(60)
<1>3. Typed' /\ PodsOK' /\ PlanOK' /\ (Smooth' => Smooth) /\ (Calm' => Calm)
  BY <1>1, <1>2, StillPlanOK, ZenonT(60) DEF IInv, Typed, PodsOK, Smooth, Calm, Spared
<1>4. ASSUME NEW m \in Node, SafeAt(m) PROVE SafeAt(m)'
  <2>1. Quiet(m)
    BY <1>1, ZenonT(60) DEF Quiet, Loose, Pending, Leaving, Clear
  <2> QED BY <1>1, <1>2, <1>4, <2>1, StillSteady, SafeKept, ZenonT(60)
<1> QED BY <1>3, <1>4, ZenonT(60) DEF IInv

-----------------------------------------------------------------------------
(* A reconcile begins.                                                     *)

LEMMA FinalizeFacts ==
  LET ops == finalizeLMCacheNodeLocal IN
  /\ ops \in Seq(Pass) /\ ops # <<>> /\ PlanOf(ops) /\ ShedComes(ops)
  /\ \E i \in DOMAIN ops : ops[i] = "check"
  /\ \A i \in DOMAIN ops : ops[i] # "create"
BY DEF finalizeLMCacheNodeLocal, Pass, PlanOf, ShedComes

PlanBegins(ops) ==
  /\ ops \in Seq(Pass) /\ ops # <<>> /\ PlanOf(ops)
  /\ \A i \in DOMAIN ops : /\ ops[i] # "check"
                           /\ ops[i] = "consumers" => ops[1] = "shed"
                           /\ ops[i] = "create" => ops[1] = "cleanups"

LEMMA DispatchFacts ==
  ASSUME NEW b \in Backend PROVE PlanBegins(dispatch(b))
<1>1. CASE b.kind = "nodelocal"
  <2>1. dispatch(b) = <<"cleanups", "release", "servers", "create", "status">>
    BY <1>1 DEF dispatch
  <2> QED BY <2>1 DEF PlanBegins, PlanOf, Pass
<1>2. CASE b.kind = "podlocal" /\ b.finalizer
  <2>1. dispatch(b) = <<"shed", "cleanups", "release", "consumers", "shed", "cleanups", "release">>
    BY <1>2 DEF dispatch
  <2> QED BY <2>1 DEF PlanBegins, PlanOf, Pass
<1>3. CASE b.kind = "podlocal" /\ ~b.finalizer
  <2>1. dispatch(b) = <<"shed", "cleanups", "release", "shed", "cleanups", "release">>
    BY <1>3 DEF dispatch
  <2> QED BY <2>1 DEF PlanBegins, PlanOf, Pass
<1>4. CASE b.kind = "events"
  <2>1. dispatch(b) = <<"shed", "cleanups", "release">>
    BY <1>4 DEF dispatch
  <2> QED BY <2>1 DEF PlanBegins, PlanOf, Pass
<1> QED BY <1>1, <1>2, <1>3, <1>4 DEF Backend

(* What the informer lists could be, and is so until it stalls.            *)
LEMMA ListedFacts ==
  ASSUME IInv, SeenOK, NEW n \in Node
  PROVE  /\ ListedServers \in [Node -> SUBSET ServerPod]
         /\ ListedCleanups[n] \in Row /\ PodsIn(ListedCleanups[n])
         /\ Calm => ListedServers = server /\ ListedCleanups = cleanup
<1>1. CASE seen = {}
  BY <1>1, ZenonT(60) DEF ListedServers, ListedCleanups, IInv, Typed, PodsOK
<1>2. CASE seen # {}
  <2>1. The(seen) \in seen
    BY <1>2, ZenonT(60) DEF The
  <2> QED BY <1>2, <2>1, ZenonT(60) DEF ListedServers, ListedCleanups, SeenOK
<1> QED BY <1>1, <1>2

LEMMA BeginFacts ==
  ASSUME IInv, SeenOK, NEW ops \in Seq(Pass), ops # <<>>, Begin(ops)
  PROVE  RecOK(rec') /\ rec'.ops = ops /\ rec'.todo = Node /\ rec'.release = {} /\ rec'.listed = {}
<1> DEFINE r == [Idle EXCEPT !.ops = ops, !.gen = backend.gen, !.servers = ListedServers,
                             !.demand = nodeLocalEngineDemand]
<1>1. rec' = Kept(r)
  BY ZenonT(60) DEF Begin
<1>2. nodeLocalEngineDemand \in SUBSET Node /\ backend.gen \in Nat
  BY DEF nodeLocalEngineDemand, IInv, Typed, Backend
<1>5. ListedServers \in [Node -> SUBSET ServerPod]
  <2>1. PICK n \in Node : TRUE
    BY NodeAssumption
  <2> QED BY <2>1, ListedFacts, ZenonT(60)
<1>3. r \in Rec /\ r.ops = ops /\ r.todo = Node /\ r.release = {} /\ r.listed = {}
  <2> HIDE DEF ListedServers, nodeLocalEngineDemand
  <2> QED BY <1>2, <1>5, ZenonT(60) DEF Rec, Idle
<1> HIDE DEF r
<1>4. rec' \in Rec /\ rec'.ops = ops /\ rec'.todo = Node /\ rec'.release = {} /\ rec'.listed = {}
  BY <1>1, <1>3, KeptFacts, ZenonT(60)
<1> QED BY <1>4, NodeAssumption, ZenonT(60) DEF RecOK

LEMMA ReconcileStep ==
  ASSUME IInv, SeenOK, Reconcile PROVE IInv'
<1>1. UNCHANGED <<engine, server, cleanup>> /\ rec.ops = <<>>
  BY ZenonT(60) DEF Reconcile, envVars
<1>2. Typed /\ backend \in Backend /\ faults \in [FaultKinds -> Nat]
  BY ZenonT(60) DEF IInv, Typed
<1>3. PodsOK'
  <2>1. UNCHANGED faults \/ \E kind : fault(kind)
    BY ZenonT(60) DEF Reconcile
  <2>2. Calm' => Calm
    BY <1>2, <2>1, FaultFacts, ZenonT(60)
  <2> QED BY <1>1, <2>2, ZenonT(60) DEF IInv, PodsOK
<1>4. ASSUME NEW n \in Node
      PROVE  (Loose(n)' <=> Loose(n)) /\ (Clear(n)' <=> Clear(n)) /\ (Pending(n)' <=> Pending(n)) /\ (Leaving(n)' <=> Leaving(n))
  BY <1>1, ZenonT(60) DEF Loose, Clear, Pending, Leaving
<1>5. CASE backend.deleting /\ Begin(finalizeLMCacheNodeLocal) /\ UNCHANGED <<backend, faults>>
  <2> DEFINE ops == finalizeLMCacheNodeLocal
  <2>1. ops \in Seq(Pass) /\ ops # <<>> /\ PlanOf(ops) /\ ShedComes(ops)
    BY FinalizeFacts, ZenonT(60)
  <2>2. RecOK(rec') /\ rec'.ops = ops /\ rec'.todo = Node /\ rec'.release = {} /\ rec'.listed = {}
    BY <1>5, <2>1, BeginFacts, ZenonT(60)
  <2>3. Has(rec', "check") /\ ~Has(rec', "create")
    BY <2>2, FinalizeFacts, ZenonT(60) DEF Has
  <2> HIDE DEF ops
  <2>4. Typed' /\ PlanOK' /\ (Smooth' => Smooth) /\ (Calm' => Calm)
    BY <1>1, <1>2, <1>5, <2>1, <2>2, ZenonT(60) DEF Typed, PlanOK, Smooth, Calm, Spared
  <2>5. ASSUME NEW n \in Node, SafeAt(n) PROVE SafeAt(n)'
    BY <1>4, <1>5, <2>1, <2>2, <2>3, <2>5, ZenonT(60) DEF SafeAt, Ahead
  <2> QED BY <1>3, <2>4, <2>5, ZenonT(60) DEF IInv
<1>6. CASE /\ ~backend.deleting /\ backend' = [backend EXCEPT !.finalizer = @ \/ backend.kind = "nodelocal"]
           /\ Begin(dispatch(backend)) /\ UNCHANGED faults
  <2> DEFINE ops == dispatch(backend)
  <2>1. PlanBegins(ops)
    BY <1>2, DispatchFacts, ZenonT(60)
  <2>2. ops \in Seq(Pass) /\ ops # <<>> /\ PlanOf(ops)
    BY <2>1, ZenonT(60) DEF PlanBegins
  <2>3. RecOK(rec') /\ rec'.ops = ops /\ rec'.todo = Node /\ rec'.release = {} /\ rec'.listed = {}
    BY <1>6, <2>2, BeginFacts, ZenonT(60)
  <2> HIDE DEF ops
  <2>4. /\ ~Has(rec', "check") /\ (Has(rec', "consumers") => Heads(rec', "shed"))
        /\ (Has(rec', "create") => Heads(rec', "cleanups"))
    BY <2>1, <2>3, ZenonT(60) DEF PlanBegins, Has, Heads
  <2>5. backend' \in Backend
    BY <1>2, <1>6, ZenonT(60) DEF Backend
  <2>6. Typed' /\ PlanOK' /\ (Smooth' => Smooth) /\ (Calm' => Calm)
    BY <1>1, <1>2, <1>6, <2>2, <2>3, <2>4, <2>5, ZenonT(60) DEF Typed, PlanOK, Smooth, Calm, Spared
  <2>7. ASSUME NEW n \in Node, SafeAt(n) PROVE SafeAt(n)'
    BY <1>4, <1>6, <2>3, <2>4, <2>7, ZenonT(60) DEF SafeAt, Waits
  <2> QED BY <1>3, <2>6, <2>7, ZenonT(60) DEF IInv
<1>7. CASE fault("api") /\ UNCHANGED <<backend, rec>>
  <2>1. faults' \in [FaultKinds -> Nat] /\ (Smooth' => Smooth) /\ (Calm' => Calm)
    BY <1>2, <1>7, FaultFacts, ZenonT(60)
  <2>2. Typed' /\ PlanOK'
    BY <1>1, <1>7, <2>1, StillPlanOK, ZenonT(60) DEF IInv, Typed
  <2>3. ASSUME NEW n \in Node, SafeAt(n) PROVE SafeAt(n)'
    BY <1>4, <1>7, <2>3, StillSteady, SafeKept, ZenonT(60) DEF Quiet
  <2> QED BY <1>3, <2>1, <2>2, <2>3, ZenonT(60) DEF IInv
<1> QED BY <1>5, <1>6, <1>7, ZenonT(60) DEF Reconcile
-----------------------------------------------------------------------------
(* Passes: what stays the same and where the reconcile stands.             *)

LEMMA AtFacts ==
  ASSUME Typed, NEW op, At(op)
  PROVE  /\ rec.ops # <<>> /\ Heads(rec, op) /\ Has(rec, op) /\ \A x : Heads(rec, x) => x = op
         /\ Turn \in rec.todo /\ Turn \in Node /\ RecOK(rec) /\ rec.ops \in Seq(Pass)
<1>1. RecOK(rec) /\ rec.ops # <<>> /\ rec.ops \in Seq(Pass) /\ rec.todo \subseteq Node /\ rec.todo # {}
  BY DEF Typed, RecOK, Rec, At
<1>2. rec.ops[1] = op /\ 1 \in DOMAIN rec.ops
  BY <1>1 DEF At
<1>3. Turn \in rec.todo
  BY <1>1, ZenonT(60) DEF Turn
<1> QED BY <1>1, <1>2, <1>3, ZenonT(60) DEF Heads, Has

LEMMA AlikeSelf == ASSUME RecOK(rec) PROVE Alike(rec)
BY ZenonT(60) DEF Alike

(* A call that fails changes nothing but the reconcile.                    *)
LEMMA ApiFailsStep ==
  ASSUME IInv, ApiFails PROVE IInv'
<1>1. UNCHANGED <<backend, engine, server, cleanup>> /\ fault("api") /\ rec.ops # <<>> /\ (rec' = Idle \/ rec' = Aborted)
  BY ZenonT(60) DEF ApiFails, envVars
<1>2. Typed /\ RecOK(rec) /\ PlanOK /\ PlanOf(rec.ops)
  BY ZenonT(60) DEF IInv, Typed, PlanOK
<1>3. PlanOK' /\ RecOK(rec')
  BY <1>1, <1>2, AbortedPlanOK, ZenonT(60)
<1>4. faults' \in [FaultKinds -> Nat] /\ (Smooth' => Smooth) /\ (Calm' => Calm)
  BY <1>1, <1>2, FaultFacts, ZenonT(60) DEF Typed
<1>5. Typed' /\ PodsOK'
  BY <1>1, <1>3, <1>4, ZenonT(60) DEF IInv, Typed, PodsOK
<1>6. ASSUME NEW n \in Node, SafeAt(n) PROVE SafeAt(n)'
  <2>1. Quiet(n)
    BY <1>1, ZenonT(60) DEF Quiet, Loose, Pending, Leaving, Clear
  <2> QED BY <1>1, <1>2, <1>6, <2>1, AbortedSteady, SafeKept, ZenonT(60)
<1> QED BY <1>3, <1>4, <1>5, <1>6, ZenonT(60) DEF IInv

(* The last passes: the status is reported, or the finalizer is looked at. *)
LEMMA LastStep ==
  ASSUME IInv, Finalize \/ refreshLMCacheNodeLocalConnectorStatus PROVE IInv'
<1>1. UNCHANGED <<engine, server, cleanup, faults>> /\ rec.ops # <<>> /\ rec' = Idle
  BY ZenonT(60) DEF Finalize, refreshLMCacheNodeLocalConnectorStatus, envVars, At
<1>2. Typed /\ RecOK(rec) /\ PlanOK /\ PlanOf(rec.ops) /\ backend \in Backend
  BY ZenonT(60) DEF IInv, Typed, PlanOK
<1>3. \/ \E x \in {"current", "behind"} :
          backend' = [backend EXCEPT !.finalizer = FALSE, !.exists = FALSE, !.released = x]
      \/ backend' = backend
  BY ZenonT(60) DEF Finalize, refreshLMCacheNodeLocalConnectorStatus
<1>4. backend' \in Backend /\ (backend.deleting => backend'.deleting)
  BY <1>2, <1>3, ZenonT(60) DEF Backend
<1>5. PlanOK' /\ RecOK(rec')
  BY <1>1, <1>2, AbortedPlanOK, ZenonT(60)
<1>6. Typed' /\ PodsOK' /\ (Smooth' => Smooth) /\ (Calm' => Calm)
  BY <1>1, <1>4, <1>5, ZenonT(60) DEF IInv, Typed, PodsOK, Smooth, Calm, Spared
<1>7. ASSUME NEW n \in Node, SafeAt(n) PROVE SafeAt(n)'
  <2>1. Quiet(n)
    BY <1>1, ZenonT(60) DEF Quiet, Loose, Pending, Leaving, Clear
  <2> QED BY <1>1, <1>2, <1>4, <1>7, <2>1, AbortedSteady, SafeKept, ZenonT(60)
<1> QED BY <1>5, <1>6, <1>7, ZenonT(60) DEF IInv

(* Asking for a cleanup of a node: never a second one, never a released    *)
(* one, and none at all when the answer is an error.                       *)
LEMMA EnsureFacts ==
  ASSUME cleanup \in [Node -> Row], NEW n \in Node, PodsIn(cleanup[n]),
         NEW o \in ensureLMCacheNodeLocalCleanupForNode(n)
  PROVE  /\ o.cleanup \in Row /\ PodsIn(o.cleanup)
         /\ seen = {} /\ OneIn(cleanup[n]) => OneIn(o.cleanup)
         /\ LooseIn(o.cleanup) => LooseIn(cleanup[n])
         /\ ~o.ok => (PendingIn(o.cleanup) => PendingIn(cleanup[n]))
<1> DEFINE old == cleanup[n]
           new == o.cleanup
<1>0. old \in Row /\ 0 \in Attempt /\ \A k \in Attempt : old[k] \in SUBSET CleanupPod
  <2>1. 0 \in Attempt
    BY NodeAssumption DEF Attempt
  <2> QED BY <2>1, ZenonT(60) DEF Row
<1>1. \/ new = old
      \/ \E k \in Attempt : new = [old EXCEPT ![k] = DeletedCleanup(old[k])]
      \/ /\ o.ok /\ (seen = {} => \A k \in Attempt : old[k] = {})
         /\ new = [old EXCEPT ![0] = {RenderLMCacheNodeLocalCleanupPod}]
  <2> DEFINE known == {k \in Attempt : ListedCleanups[n][k] # {}}
  <2>1. CASE known # {}
    <3>1. PICK k \in known : o = IF LMCacheNodeLocalCleanupIsGated(ListedCleanups[n][k])
           THEN [cleanup |-> cleanup[n], ok |-> TRUE]
           ELSE [cleanup |-> [cleanup[n] EXCEPT ![k] = DeletedCleanup(@)], ok |-> FALSE]
      BY <2>1, ZenonT(60) DEF ensureLMCacheNodeLocalCleanupForNode
    <3>2. CASE LMCacheNodeLocalCleanupIsGated(ListedCleanups[n][k])
      BY <3>1, <3>2, ZenonT(60)
    <3>3. CASE ~LMCacheNodeLocalCleanupIsGated(ListedCleanups[n][k])
      BY <3>1, <3>3, ZenonT(60)
    <3> QED BY <3>2, <3>3, ZenonT(60)
  <2>2. CASE known = {}
    <3>1. seen = {} => \A k \in Attempt : old[k] = {}
      BY <2>2, ZenonT(60) DEF ListedCleanups
    <3>2. \/ o = [cleanup |-> [cleanup[n] EXCEPT ![0] = {RenderLMCacheNodeLocalCleanupPod}], ok |-> TRUE]
          \/ o = [cleanup |-> cleanup[n], ok |-> FALSE]
      BY <1>0, <2>2, ZenonT(60) DEF ensureLMCacheNodeLocalCleanupForNode
    <3>3. CASE o = [cleanup |-> [cleanup[n] EXCEPT ![0] = {RenderLMCacheNodeLocalCleanupPod}], ok |-> TRUE]
      <4>1. o.ok /\ new = [old EXCEPT ![0] = {RenderLMCacheNodeLocalCleanupPod}]
        BY <3>3, ZenonT(60)
      <4> QED BY <3>1, <4>1
    <3>4. CASE o = [cleanup |-> cleanup[n], ok |-> FALSE]
      BY <3>4, ZenonT(60)
    <3> QED BY <3>2, <3>3, <3>4
  <2> QED BY <2>1, <2>2, ZenonT(60)
<1>2. CASE new = old
  BY <1>0, <1>2, ZenonT(60)
<1>3. ASSUME NEW k \in Attempt, new = [old EXCEPT ![k] = DeletedCleanup(old[k])]
      PROVE  /\ new \in Row /\ PodsIn(new) /\ (OneIn(old) => OneIn(new))
             /\ (LooseIn(new) => LooseIn(old)) /\ (PendingIn(new) => PendingIn(old))
  <2>1. DeletedCleanup(old[k]) \in SUBSET CleanupPod /\ Single(DeletedCleanup(old[k]))
        /\ \A t \in DeletedCleanup(old[k]) : t.del /\ t.phase = "running"
             /\ \E p \in old[k] : p.phase = "running" /\ (p.gated <=> t.gated)
    BY <1>0, DeletedCleanupFacts, ZenonT(60) DEF PodsIn
  <2>2. new \in Row /\ new[k] = DeletedCleanup(old[k]) /\ \A j \in Attempt : j # k => new[j] = old[j]
    BY <1>0, <1>3, <2>1, ZenonT(60) DEF Row
  <2> HIDE DEF old, new
  <2>3. PodsIn(old)
    BY DEF old
  <2>4. \A p \in old[k] : p.phase = "running" => ~p.gated
    BY <2>3 DEF PodsIn
  <2>5. PodsIn(new)
    BY <2>1, <2>2, <2>3, <2>4, ZenonT(60) DEF PodsIn
  <2>6. OneIn(old) => OneIn(new)
    <3>1. \A j \in Attempt : UnderWay(new[j]) => UnderWay(old[j])
      BY <2>1, <2>2, ZenonT(60) DEF UnderWay
    <3> QED BY <3>1, ZenonT(60) DEF OneIn
  <2>7. LooseIn(new) => LooseIn(old)
    BY <2>1, <2>2, <2>4, ZenonT(60) DEF LooseIn
  <2>8. PendingIn(new) => PendingIn(old)
    <3>1. \A p : p.phase = "running" => p.phase # "ok"
      OBVIOUS
    <3> QED BY <2>1, <2>2, <3>1, ZenonT(60) DEF PendingIn
  <2> QED BY <2>2, <2>5, <2>6, <2>7, <2>8, ZenonT(60)
<1>4. CASE /\ o.ok /\ (seen = {} => \A k \in Attempt : old[k] = {})
           /\ new = [old EXCEPT ![0] = {RenderLMCacheNodeLocalCleanupPod}]
  <2> DEFINE p == RenderLMCacheNodeLocalCleanupPod
  <2>1. p \in CleanupPod /\ p.gated /\ p.phase = "pending" /\ ~p.del
    BY DEF CleanupPod, RenderLMCacheNodeLocalCleanupPod
  <2> HIDE DEF p
  <2>2. new \in Row /\ new[0] = {p} /\ \A j \in Attempt : j # 0 => new[j] = old[j]
    <3>1. {p} \in SUBSET CleanupPod
      BY <2>1
    <3> QED BY <1>0, <1>4, <3>1, ZenonT(60) DEF Row, p
  <2>3. PodsIn(old) /\ (seen = {} => \A j \in Attempt : old[j] = {})
    BY <1>4
  <2> HIDE DEF new, old
  <2>4. PodsIn(new)
    <3>1. Single({p})
      BY ZenonT(60) DEF Single
    <3>2. \A q \in new[0] : (q.del => q.phase = "running") /\ (q.gated => q.phase = "pending")
      BY <2>1, <2>2, ZenonT(60)
    <3> QED BY <2>2, <2>3, <3>1, <3>2, ZenonT(60) DEF PodsIn
  <2>5. seen = {} => OneIn(new)
    <3>1. seen = {} => \A j \in Attempt : UnderWay(new[j]) => j = 0
      BY <2>2, <2>3, ZenonT(60) DEF UnderWay, Unfinished
    <3> QED BY <3>1, ZenonT(60) DEF OneIn
  <2>6. LooseIn(new) => LooseIn(old)
    BY <2>1, <2>2, ZenonT(60) DEF LooseIn
  <2> QED BY <1>4, <2>2, <2>4, <2>5, <2>6, ZenonT(60) DEF new, old
<1> QED BY <1>1, <1>2, <1>3, <1>4, ZenonT(60)

(* The server of the node at hand is deleted, and its cleanup is asked for *)
(* before: nobody can tell the cleanup from one asked for later.           *)
LEMMA CleanThenDeleteStep ==
  ASSUME IInv, SeenOK, NEW op \in {"shed", "servers"}, At(op), NEW r, Alike(r), r.release = rec.release,
         Has(rec, "create") => Turn \notin r.demand \ r.blocked,
         CleanThenDelete(r), UNCHANGED <<backend, engine>>
  PROVE  IInv'
<1>0. Typed /\ PodsOK /\ PlanOK /\ PlanOf(rec.ops) /\ cleanup \in [Node -> Row] /\ server \in [Node -> SUBSET ServerPod]
      /\ faults \in [FaultKinds -> Nat]
  BY ZenonT(60) DEF IInv, Typed, PlanOK
<1>1. /\ rec.ops # <<>> /\ Heads(rec, op) /\ (\A x : Heads(rec, x) => x = op)
      /\ Turn \in rec.todo /\ Turn \in Node /\ RecOK(rec)
  BY <1>0, AtFacts, ZenonT(60)
<1>2. ~Heads(rec, "check") /\ ~Heads(rec, "cleanups") /\ ~Heads(rec, "release")
  BY <1>1
<1>3. PICK o \in ensureLMCacheNodeLocalCleanupForNode(Turn) :
        /\ cleanup' = [cleanup EXCEPT ![Turn] = o.cleanup]
        /\ \/ o.ok /\ server' = [server EXCEPT ![Turn] = DeletedServer(@)] /\ rec' = Advanced(r)
              /\ UNCHANGED faults
           \/ o.ok /\ fault("delete") /\ rec' = Aborted /\ UNCHANGED server
           \/ ~o.ok /\ rec' = Aborted /\ UNCHANGED <<server, faults>>
  BY ZenonT(60) DEF CleanThenDelete
<1>4. /\ o.cleanup \in Row /\ PodsIn(o.cleanup) /\ (Calm => OneIn(o.cleanup))
      /\ LooseIn(o.cleanup) => LooseIn(cleanup[Turn])
      /\ ~o.ok => (PendingIn(o.cleanup) => PendingIn(cleanup[Turn]))
  BY <1>0, <1>1, EnsureFacts, ZenonT(60) DEF PodsOK, SeenOK
<1>5. cleanup' \in [Node -> Row] /\ cleanup'[Turn] = o.cleanup /\ \A m \in Node : m # Turn => cleanup'[m] = cleanup[m]
  BY <1>0, <1>1, <1>3, <1>4, RowFacts, ZenonT(60)
<1>6. \A m \in Node : PodsIn(cleanup'[m]) /\ (Calm => OneIn(cleanup'[m])) /\ (Loose(m)' => Loose(m))
  BY <1>0, <1>4, <1>5, ZenonT(60) DEF PodsOK, Loose
<1>7. CASE o.ok /\ server' = [server EXCEPT ![Turn] = DeletedServer(@)] /\ rec' = Advanced(r) /\ UNCHANGED faults
  <2>1. DeletedServer(server[Turn]) \in SUBSET ServerPod /\ \A t \in DeletedServer(server[Turn]) : t.del /\ t.up
    BY <1>0, <1>1, DeletedServerFacts, ZenonT(60)
  <2>2. /\ server' \in [Node -> SUBSET ServerPod] /\ server'[Turn] = DeletedServer(server[Turn])
        /\ \A m \in Node : m # Turn => server'[m] = server[m]
    BY <1>0, <1>1, <1>7, <2>1, ZenonT(60)
  <2>3. PlanOK' /\ RecOK(rec')
    BY <1>0, <1>1, <1>2, <1>7, AdvancedPlain, ZenonT(60) DEF Alike
  <2>4. Typed' /\ PodsOK' /\ (Smooth' => Smooth) /\ (Calm' => Calm)
    BY <1>0, <1>5, <1>6, <1>7, <2>1, <2>2, <2>3, ZenonT(60) DEF Typed, PodsOK, Smooth, Calm, Spared
  <2>5. ASSUME NEW m \in Node, m # Turn, SafeAt(m) PROVE SafeAt(m)'
    <3>1. Quiet(m)
      BY <1>5, <1>6, <2>2, <2>5, ZenonT(60) DEF Quiet, Loose, Pending, Leaving, Clear
    <3>2. Steady(m)
      BY <1>0, <1>1, <1>2, <1>7, <2>5, AdvancedSteady, ZenonT(60)
    <3> QED BY <2>5, <3>1, <3>2, SafeKept, ZenonT(60)
  <2>6. ASSUME NEW m \in Node, m = Turn, SafeAt(m) PROVE SafeAt(m)'
    <3>1. Leaving(m)'
      BY <2>1, <2>2, <2>6, ZenonT(60) DEF Leaving
    <3>2. server[Turn] = {} => DeletedServer(server[Turn]) = {}
      BY ZenonT(60) DEF DeletedServer, Deleted
    <3>3. Clear(m) => Clear(m)'
      BY <2>2, <2>6, <3>2, ZenonT(60) DEF Clear
    <3>4. RecOK(r) /\ r.ops # <<>> /\ PlanOf(r.ops) /\ r.todo = rec.todo /\ (Has(r, "create") <=> Has(rec, "create"))
      BY <1>0, <1>1, ZenonT(60) DEF Alike, Has
    <3>5. rec'.release \subseteq rec.release
      BY <1>7, <3>4, AdvancedKeeps, ZenonT(60)
    <3>6. Has(rec', "create") => Has(rec, "create") /\ rec'.demand = r.demand /\ rec'.blocked = r.blocked
      BY <1>7, <3>4, AdvancedKeeps, ZenonT(60)
    <3> QED BY <1>1, <1>6, <2>6, <3>1, <3>3, <3>5, <3>6, ZenonT(60) DEF SafeAt
  <2> QED BY <2>3, <2>4, <2>5, <2>6, ZenonT(60) DEF IInv
<1>8. CASE o.ok /\ fault("delete") /\ rec' = Aborted /\ UNCHANGED server
  <2>1. PlanOK' /\ RecOK(rec')
    BY <1>0, <1>1, <1>8, AbortedPlanOK, ZenonT(60)
  <2>2. faults' \in [FaultKinds -> Nat]
    BY <1>0, <1>8, FaultFacts, ZenonT(60)
  <2>5. Calm' => Calm
    BY <1>0, <1>8, FaultFacts, ZenonT(60)
  <2>3. ~Smooth'
    <3>1. "delete" \in FaultKinds /\ faults' = [faults EXCEPT !["delete"] = faults["delete"] + 1]
      BY <1>8, ZenonT(60) DEF fault
    <3>2. \A x \in Nat : x + 1 # 0
      OBVIOUS
    <3> QED BY <1>0, <3>1, <3>2, ZenonT(60) DEF Smooth, Calm, Spared
  <2>4. Typed' /\ PodsOK'
    BY <1>0, <1>5, <1>6, <1>8, <2>1, <2>2, <2>5, ZenonT(60) DEF Typed, PodsOK
  <2> QED BY <2>1, <2>3, <2>4, ZenonT(60) DEF IInv
<1>9. CASE ~o.ok /\ rec' = Aborted /\ UNCHANGED <<server, faults>>
  <2>1. PlanOK' /\ RecOK(rec')
    BY <1>0, <1>1, <1>9, AbortedPlanOK, ZenonT(60)
  <2>2. Typed' /\ PodsOK' /\ (Smooth' => Smooth) /\ (Calm' => Calm)
    BY <1>0, <1>5, <1>6, <1>9, <2>1, ZenonT(60) DEF Typed, PodsOK, Smooth, Calm, Spared
  <2>3. ASSUME NEW m \in Node, SafeAt(m) PROVE SafeAt(m)'
    <3>1. Quiet(m)
      BY <1>4, <1>5, <1>6, <1>9, ZenonT(60) DEF Quiet, Loose, Pending, Leaving, Clear
    <3> QED BY <1>0, <1>1, <1>9, <2>3, <3>1, AbortedSteady, SafeKept, ZenonT(60)
  <2> QED BY <2>1, <2>2, <2>3, ZenonT(60) DEF IInv
<1> QED BY <1>3, <1>7, <1>8, <1>9, ZenonT(60)

(* A pass that leaves the cleanups alone and goes on: the servers of the   *)
(* node at hand stay, go, or are on their way out no less than before.     *)
LEMMA GoesOnStep ==
  ASSUME IInv, NEW op \in {"shed", "servers", "consumers", "create"}, At(op), UNCHANGED <<backend, engine, cleanup, faults>>,
         NEW S \in SUBSET ServerPod, server' = [server EXCEPT ![Turn] = S],
         \A s \in S : s.del => s.up, server[Turn] = {} => S = {}, Leaving(Turn) => \A s \in S : s.del,
         \/ rec' = Aborted
         \/ (op = "shed" /\ Calm => Leaving(Turn)) /\ \E r : Alike(r) /\ r.release = rec.release /\ rec' = Advanced(r)
  PROVE  IInv'
<1>0. Typed /\ PodsOK /\ PlanOK /\ PlanOf(rec.ops) /\ server \in [Node -> SUBSET ServerPod]
  BY ZenonT(60) DEF IInv, Typed, PlanOK
<1>1. /\ rec.ops # <<>> /\ Heads(rec, op) /\ Has(rec, op) /\ (\A x : Heads(rec, x) => x = op)
      /\ Turn \in rec.todo /\ Turn \in Node /\ RecOK(rec) /\ rec.ops \in Seq(Pass)
  BY <1>0, AtFacts, ZenonT(60)
<1>2. ~Heads(rec, "check") /\ ~Heads(rec, "cleanups") /\ ~Heads(rec, "release")
  BY <1>1
<1>3. /\ server' \in [Node -> SUBSET ServerPod] /\ server'[Turn] = S
      /\ \A m \in Node : m # Turn => server'[m] = server[m]
  BY <1>0, <1>1, ZenonT(60)
<1>4. PlanOK' /\ RecOK(rec')
  <2>1. CASE rec' = Aborted
    BY <1>0, <1>1, <2>1, AbortedPlanOK, ZenonT(60)
  <2>2. ASSUME NEW r, Alike(r), r.release = rec.release, rec' = Advanced(r) PROVE PlanOK' /\ RecOK(rec')
    BY <1>0, <1>1, <1>2, <2>2, AdvancedPlain, ZenonT(60) DEF Alike
  <2> QED BY <2>1, <2>2, ZenonT(60)
<1>5. Typed' /\ PodsOK' /\ (Smooth' => Smooth) /\ (Calm' => Calm)
  BY <1>0, <1>3, <1>4, ZenonT(60) DEF Typed, PodsOK, Smooth, Calm, Spared
<1>6. \A m \in Node : Quiet(m)
  BY <1>3, ZenonT(60) DEF Quiet, Loose, Pending, Leaving, Clear
<1>7. ASSUME Calm, NEW m \in Node, SafeAt(m) PROVE SafeAt(m)'
  <2>1. CASE rec' = Aborted
    BY <1>0, <1>1, <1>6, <1>7, <2>1, AbortedSteady, SafeKept, ZenonT(60)
  <2>2. ASSUME NEW r, Alike(r), r.release = rec.release, rec' = Advanced(r), op = "shed" /\ Calm => Leaving(Turn)
        PROVE  SafeAt(m)'
    <3>1. CASE m # Turn \/ op # "shed"
      <4>1. Steady(m)
        BY <1>0, <1>1, <1>2, <2>2, <3>1, AdvancedSteady, ZenonT(60)
      <4> QED BY <1>6, <1>7, <4>1, SafeKept, ZenonT(60)
    <3>2. CASE m = Turn /\ op = "shed"
      <4>1. Leaving(m)'
        BY <1>6, <1>7, <2>2, <3>2, ZenonT(60) DEF Quiet
      <4>2. RecOK(r) /\ r.ops # <<>> /\ PlanOf(r.ops) /\ r.todo = rec.todo /\ (Has(r, "create") <=> Has(rec, "create"))
        BY <1>0, <1>1, <2>2, ZenonT(60) DEF Alike, Has
      <4>3. rec'.release \subseteq rec.release /\ (Has(rec', "create") => Has(rec, "create"))
        BY <2>2, <4>2, AdvancedKeeps, ZenonT(60)
      <4>4. ~Has(rec, "create")
        BY <1>0, <1>1, <3>2 DEF Has, PlanOf
      <4> QED BY <1>6, <1>7, <4>1, <4>3, <4>4, ZenonT(60) DEF SafeAt, Quiet
    <3> QED BY <3>1, <3>2
  <2> QED BY <2>1, <2>2, ZenonT(60)
<1> QED BY <1>4, <1>5, <1>7, ZenonT(60) DEF IInv, Smooth

-----------------------------------------------------------------------------
(* The passes, one by one.                                                 *)

LEMMA ShedStep ==
  ASSUME IInv, SeenOK, cleanupLMCacheNodeLocalServerPods PROVE IInv'
<1>0. Typed /\ PlanOf(rec.ops) /\ At("shed") /\ UNCHANGED <<backend, engine>>
      /\ server \in [Node -> SUBSET ServerPod]
  BY ZenonT(60) DEF IInv, Typed, PlanOK, cleanupLMCacheNodeLocalServerPods, envVars
<1>1. Has(rec, "shed") /\ Turn \in Node /\ RecOK(rec) /\ Alike(rec)
  BY <1>0, AtFacts, AlikeSelf, ZenonT(60)
<1>2. CASE CleanThenDelete(rec)
  <2>1. ~Has(rec, "create")
    BY <1>0, <1>1 DEF Has, PlanOf
  <2> QED BY <1>0, <1>1, <1>2, <2>1, CleanThenDeleteStep, ZenonT(60)
<1>3. CASE (\A s \in ListedServers[Turn] : s.del) /\ rec' = Advanced(rec) /\ UNCHANGED <<server, cleanup, faults>>
  <2> DEFINE S == server[Turn]
  <2>1. S \in SUBSET ServerPod /\ server' = [server EXCEPT ![Turn] = S] /\ \A s \in S : s.del => s.up
    BY <1>0, <1>1, <1>3, ZenonT(60) DEF IInv, PodsOK
  <2>2. Calm => Leaving(Turn)
    BY <1>3, ZenonT(60) DEF Leaving, ListedServers, SeenOK
  <2>3. Leaving(Turn) => \A s \in S : s.del
    BY ZenonT(60) DEF Leaving
  <2>4. server[Turn] = {} => S = {}
    OBVIOUS
  <2> HIDE DEF S
  <2> QED BY <1>0, <1>1, <1>3, <2>1, <2>2, <2>3, <2>4, GoesOnStep, ZenonT(60)
<1> QED BY <1>2, <1>3, ZenonT(60) DEF cleanupLMCacheNodeLocalServerPods

(* The consumers ask for cleanups: a backend that is being deleted sheds   *)
(* its servers next, any other has shed them.                              *)
LEMMA ConsumersStep ==
  ASSUME IInv, SeenOK, ensureLMCacheNodeLocalCleanupForConsumers PROVE IInv'
<1>0. /\ Typed /\ PodsOK /\ PlanOK /\ PlanOf(rec.ops) /\ cleanup \in [Node -> Row]
      /\ server \in [Node -> SUBSET ServerPod]
      /\ At("consumers") /\ UNCHANGED <<backend, engine, server, faults>>
  BY ZenonT(60) DEF IInv, Typed, PlanOK, ensureLMCacheNodeLocalCleanupForConsumers, envVars
<1>1. /\ rec.ops # <<>> /\ Heads(rec, "consumers") /\ Has(rec, "consumers") /\ (\A x : Heads(rec, x) => x = "consumers")
      /\ Turn \in rec.todo /\ Turn \in Node /\ RecOK(rec) /\ rec.ops \in Seq(Pass) /\ Alike(rec)
  BY <1>0, AtFacts, AlikeSelf, ZenonT(60)
<1>2. ~Heads(rec, "check") /\ ~Heads(rec, "cleanups") /\ ~Heads(rec, "release") /\ ~Heads(rec, "shed")
  BY <1>1
<1>3. CASE rec' = Advanced(rec) /\ UNCHANGED cleanup
  <2> DEFINE S == server[Turn]
  <2>1. S \in SUBSET ServerPod /\ server' = [server EXCEPT ![Turn] = S] /\ \A s \in S : s.del => s.up
    BY <1>0, <1>1, <1>3, ZenonT(60) DEF PodsOK
  <2>2. (Leaving(Turn) => \A s \in S : s.del) /\ (server[Turn] = {} => S = {})
    BY ZenonT(60) DEF Leaving
  <2> HIDE DEF S
  <2> QED BY <1>0, <1>1, <1>3, <2>1, <2>2, GoesOnStep, ZenonT(60)
<1>4. ASSUME NEW o \in ensureLMCacheNodeLocalCleanupForNode(Turn),
             cleanup' = [cleanup EXCEPT ![Turn] = o.cleanup],
             rec' = IF o.ok THEN Advanced(rec) ELSE Aborted
      PROVE  IInv'
  <2>1. /\ o.cleanup \in Row /\ PodsIn(o.cleanup) /\ (Calm => OneIn(o.cleanup))
        /\ LooseIn(o.cleanup) => LooseIn(cleanup[Turn])
        /\ ~o.ok => (PendingIn(o.cleanup) => PendingIn(cleanup[Turn]))
    BY <1>0, <1>1, EnsureFacts, ZenonT(60) DEF PodsOK, SeenOK
  <2>2. cleanup' \in [Node -> Row] /\ cleanup'[Turn] = o.cleanup /\ \A m \in Node : m # Turn => cleanup'[m] = cleanup[m]
    BY <1>0, <1>1, <1>4, <2>1, RowFacts, ZenonT(60)
  <2>3. PlanOK' /\ RecOK(rec')
    <3>1. CASE o.ok
      BY <1>0, <1>1, <1>2, <1>4, <3>1, AdvancedPlain, ZenonT(60)
    <3>2. CASE ~o.ok
      BY <1>0, <1>1, <1>4, <3>2, AbortedPlanOK, ZenonT(60)
    <3> QED BY <3>1, <3>2
  <2>4. Typed' /\ PodsOK' /\ (Smooth' => Smooth) /\ (Calm' => Calm)
    BY <1>0, <2>1, <2>2, <2>3, ZenonT(60) DEF Typed, PodsOK, Smooth, Calm, Spared
  <2>5. ASSUME NEW m \in Node PROVE (Loose(m)' => Loose(m)) /\ (Clear(m)' <=> Clear(m)) /\ (Leaving(m)' <=> Leaving(m))
    BY <1>0, <2>1, <2>2, ZenonT(60) DEF Loose, Clear, Leaving
  <2>6. ASSUME NEW m \in Node, SafeAt(m) PROVE SafeAt(m)'
    <3>1. CASE ~o.ok
      <4>1. Quiet(m)
        BY <2>1, <2>2, <2>5, <3>1, ZenonT(60) DEF Quiet, Pending
      <4> QED BY <1>0, <1>1, <1>4, <2>6, <3>1, <4>1, AbortedSteady, SafeKept, ZenonT(60)
    <3>2. CASE o.ok
      <4>1. Steady(m)
        BY <1>0, <1>1, <1>2, <1>4, <3>2, AdvancedSteady, ZenonT(60)
      <4>2. CASE m # Turn
        <5>1. Quiet(m)
          BY <2>2, <2>5, <4>2, ZenonT(60) DEF Quiet, Pending
        <5> QED BY <2>6, <4>1, <5>1, SafeKept, ZenonT(60)
      <4>3. CASE m = Turn
        <5>1. ~Has(rec, "create")
          BY <1>0, <1>1 DEF Has, PlanOf
        <5>2. ShedComes(rec.ops)
          <6>1. 1 \in DOMAIN rec.ops /\ rec.ops[1] = "consumers"
            BY <1>1, TailFacts DEF Heads
          <6>2. 2 \in DOMAIN rec.ops /\ rec.ops[2] = "shed"
            BY <1>0, <6>1 DEF PlanOf
          <6> QED BY <6>1, <6>2 DEF ShedComes
        <5>3. Has(rec, "check") => backend.deleting /\ Ahead(rec, m)
          BY <1>0, <5>2, ZenonT(60) DEF PlanOK, Ahead
        <5>4. ~Has(rec, "check") => Leaving(m)
          BY <1>1, <1>2, <2>6, ZenonT(60) DEF SafeAt, Waits
        <5> QED BY <1>0, <2>5, <2>6, <4>1, <5>1, <5>3, <5>4, ZenonT(60) DEF SafeAt, Steady
      <4> QED BY <4>2, <4>3
    <3> QED BY <3>1, <3>2
  <2> QED BY <2>3, <2>4, <2>6, ZenonT(60) DEF IInv
<1> QED BY <1>3, <1>4, ZenonT(60) DEF ensureLMCacheNodeLocalCleanupForConsumers

(* Servers are created only where no cleanup waits.                        *)
LEMMA CreateStep ==
  ASSUME IInv, CreateServers PROVE IInv'
<1>0. /\ Typed /\ PodsOK /\ PlanOK /\ PlanOf(rec.ops) /\ rec \in Rec
      /\ server \in [Node -> SUBSET ServerPod]
      /\ At("create") /\ UNCHANGED <<backend, engine, cleanup, faults>>
  BY ZenonT(60) DEF IInv, Typed, RecOK, PlanOK, CreateServers, envVars
<1>1. /\ rec.ops # <<>> /\ Heads(rec, "create") /\ Has(rec, "create") /\ (\A x : Heads(rec, x) => x = "create")
      /\ Turn \in rec.todo /\ Turn \in Node /\ RecOK(rec) /\ rec.ops \in Seq(Pass) /\ Alike(rec)
  BY <1>0, AtFacts, AlikeSelf, ZenonT(60)
<1>2. ~Heads(rec, "check") /\ ~Heads(rec, "cleanups") /\ ~Heads(rec, "release") /\ ~Heads(rec, "shed")
  BY <1>1
<1>3. CASE (rec' = Advanced(rec) \/ rec' = Aborted) /\ UNCHANGED server
  <2> DEFINE S == server[Turn]
  <2>1. S \in SUBSET ServerPod /\ server' = [server EXCEPT ![Turn] = S] /\ \A s \in S : s.del => s.up
    BY <1>0, <1>1, <1>3, ZenonT(60) DEF PodsOK
  <2>2. (Leaving(Turn) => \A s \in S : s.del) /\ (server[Turn] = {} => S = {})
    BY ZenonT(60) DEF Leaving
  <2> HIDE DEF S
  <2> QED BY <1>0, <1>1, <1>3, <2>1, <2>2, GoesOnStep, ZenonT(60)
<1>4. CASE /\ MayCreate(Turn) /\ server[Turn] = {}
           /\ server' = [server EXCEPT ![Turn] = {RenderLMCacheNodeLocalServerPod(rec.gen)}]
           /\ rec' = Advanced(rec)
  <2> DEFINE s == RenderLMCacheNodeLocalServerPod(rec.gen)
  <2>1. s \in ServerPod /\ ~s.del
    BY <1>0 DEF ServerPod, RenderLMCacheNodeLocalServerPod, Rec
  <2> HIDE DEF s
  <2>2. {s} \in SUBSET ServerPod
    BY <2>1
  <2>3. /\ server' \in [Node -> SUBSET ServerPod] /\ server'[Turn] = {s}
        /\ \A m \in Node : m # Turn => server'[m] = server[m]
    BY <1>0, <1>1, <1>4, <2>2, ZenonT(60) DEF s
  <2>4. PlanOK' /\ RecOK(rec')
    BY <1>0, <1>1, <1>2, <1>4, AdvancedPlain, ZenonT(60)
  <2>5. Typed' /\ PodsOK' /\ (Smooth' => Smooth) /\ (Calm' => Calm)
    BY <1>0, <2>1, <2>3, <2>4, ZenonT(60) DEF Typed, PodsOK, Smooth, Calm, Spared
  <2>6. ASSUME NEW m \in Node, SafeAt(m) PROVE SafeAt(m)'
    <3>1. Steady(m)
      BY <1>0, <1>1, <1>2, <1>4, AdvancedSteady, ZenonT(60)
    <3>2. CASE m # Turn
      <4>1. Quiet(m)
        BY <1>0, <2>3, <3>2, ZenonT(60) DEF Quiet, Loose, Pending, Leaving, Clear
      <4> QED BY <2>6, <3>1, <4>1, SafeKept, ZenonT(60)
    <3>3. CASE m = Turn
      <4>1. m \in rec.demand \ rec.blocked
        BY <1>4, <3>3, ZenonT(60) DEF MayCreate
      <4>2. ~Pending(m)
        BY <1>1, <1>2, <2>6, <4>1, ZenonT(60) DEF SafeAt, Waits
      <4>3. Loose(m) => Pending(m)
        <5>1. \A p : p.phase \in {"pending", "running"} => p.phase # "ok"
          OBVIOUS
        <5> QED BY <5>1, ZenonT(60) DEF Loose, LooseIn, Pending, PendingIn
      <4>4. ~Pending(m)' /\ ~Loose(m)'
        BY <1>0, <4>2, <4>3, ZenonT(60) DEF Loose, Pending
      <4>5. \A k \in Attempt : <<m, k>> \notin rec.release
        BY <1>0, <1>2, ZenonT(60) DEF PlanOK, Releasing, Waits
      <4>6. ~Has(rec, "consumers")
        BY <1>0, <1>1, ZenonT(60) DEF Has, PlanOf
      <4> QED BY <3>1, <4>4, <4>5, <4>6, ZenonT(60) DEF SafeAt, Steady
    <3> QED BY <3>2, <3>3
  <2> QED BY <2>4, <2>5, <2>6, ZenonT(60) DEF IInv
<1> QED BY <1>3, <1>4, ZenonT(60) DEF CreateServers

LEMMA AlikeMore ==
  ASSUME RecOK(rec), NEW X \in SUBSET Node
  PROVE  /\ Alike([rec EXCEPT !.blocked = X]) <=> rec.blocked \subseteq X
         /\ [rec EXCEPT !.blocked = X].release = rec.release
         /\ [rec EXCEPT !.blocked = X].blocked = X /\ [rec EXCEPT !.blocked = X].demand = rec.demand
         /\ Alike([rec EXCEPT !.live = X]) /\ [rec EXCEPT !.live = X].release = rec.release
BY ZenonT(60) DEF Alike, RecOK, Rec

LEMMA PatchedFacts ==
  ASSUME NEW pods \in SUBSET ServerPod, NEW x \in {"no", "marked"}
  PROVE  LET S == {[s EXCEPT !.idle = x] : s \in pods} IN
         /\ S \in SUBSET ServerPod /\ (pods = {} => S = {})
         /\ (\A s \in pods : s.del => s.up) => \A t \in S : t.del => t.up
         /\ (\A s \in pods : s.del) => \A t \in S : t.del
<1>1. \A s \in pods : LET t == [s EXCEPT !.idle = x] IN t \in ServerPod /\ (t.del <=> s.del) /\ (t.up <=> s.up)
  BY DEF ServerPod
<1> QED BY <1>1, ZenonT(60)

(* The server of a node is kept, marked, revived or deleted.               *)
LEMMA ServersStep ==
  ASSUME IInv, SeenOK, reconcileLMCacheNodeLocalServerPods PROVE IInv'
<1>0. /\ Typed /\ server \in [Node -> SUBSET ServerPod] /\ At("servers") /\ UNCHANGED <<backend, engine>>
      /\ RecOK(rec) /\ rec \in Rec
  BY ZenonT(60) DEF IInv, Typed, RecOK, reconcileLMCacheNodeLocalServerPods, envVars
<1>1. Turn \in Node /\ Alike(rec) /\ server[Turn] \in SUBSET ServerPod
  BY <1>0, AtFacts, AlikeSelf, ZenonT(60)
<1>2. (\A s \in server[Turn] : s.del => s.up) /\ (Leaving(Turn) => \A s \in server[Turn] : s.del)
  BY <1>1, ZenonT(60) DEF IInv, PodsOK, Leaving
<1> DEFINE b == rec.blocked \cup {Turn}
           l == rec.live \cup {Turn}
           rb == [rec EXCEPT !.blocked = b]
           rl == [rec EXCEPT !.live = l]
           marked == {[s EXCEPT !.idle = "marked"] : s \in server[Turn]}
           revived == {[s EXCEPT !.idle = "no"] : s \in server[Turn]}
<1>3. /\ Alike(rb) /\ rb.release = rec.release /\ Turn \notin rb.demand \ rb.blocked
      /\ Alike(rl) /\ rl.release = rec.release
  <2>1. b \in SUBSET Node /\ l \in SUBSET Node /\ rec.blocked \subseteq b /\ Turn \in b
    BY <1>0, <1>1 DEF Rec
  <2> HIDE DEF b, l
  <2> QED BY <1>0, <2>1, AlikeMore, ZenonT(60)
<1>4. \/ CleanThenDelete(rb)
      \/ CleanThenDelete(rec) /\ Turn \notin rec.demand
      \/ /\ UNCHANGED <<cleanup, faults>>
         /\ rec' = Aborted \/ rec' = Advanced(rec) \/ rec' = Advanced(rl)
         /\ \E S \in {server[Turn], DeletedServer(server[Turn]), marked, revived} :
              server' = [server EXCEPT ![Turn] = S]
  <2>1. server = [server EXCEPT ![Turn] = server[Turn]]
    BY <1>0, ZenonT(60)
  <2>2. CASE rec' = Advanced(rec) /\ UNCHANGED <<server, cleanup, faults>>
    BY <2>1, <2>2, ZenonT(60)
  <2>3. ASSUME NEW s, reconcileServer(s)
        PROVE  \/ CleanThenDelete(rb)
               \/ CleanThenDelete(rec) /\ Turn \notin rec.demand
               \/ /\ UNCHANGED <<cleanup, faults>>
                  /\ rec' = Aborted \/ rec' = Advanced(rec) \/ rec' = Advanced(rl)
                  /\ server' = server \/ server' = [server EXCEPT ![Turn] = DeletedServer(server[Turn])]
                     \/ server' = [server EXCEPT ![Turn] = marked] \/ server' = [server EXCEPT ![Turn] = revived]
    BY <2>3, ZenonT(60) DEF reconcileServer, Patched
  <2> HIDE DEF marked, revived, rb, rl
  <2> QED BY <2>1, <2>2, <2>3, ZenonT(60) DEF reconcileLMCacheNodeLocalServerPods
<1>5. CASE CleanThenDelete(rb)
  <2> HIDE DEF rb
  <2> QED BY <1>0, <1>3, <1>5, CleanThenDeleteStep, ZenonT(60)
<1>6. CASE CleanThenDelete(rec) /\ Turn \notin rec.demand
  BY <1>0, <1>1, <1>6, CleanThenDeleteStep, ZenonT(60)
<1>7. CASE /\ UNCHANGED <<cleanup, faults>>
           /\ rec' = Aborted \/ rec' = Advanced(rec) \/ rec' = Advanced(rl)
           /\ \E S \in {server[Turn], DeletedServer(server[Turn]), marked, revived} :
                server' = [server EXCEPT ![Turn] = S]
  <2>1. PICK S \in {server[Turn], DeletedServer(server[Turn]), marked, revived} : server' = [server EXCEPT ![Turn] = S]
    BY <1>7, ZenonT(60)
  <2>2. rec' = Aborted \/ \E r : Alike(r) /\ r.release = rec.release /\ rec' = Advanced(r)
    <3> HIDE DEF rl
    <3> QED BY <1>1, <1>3, <1>7, ZenonT(60)
  <2>3. /\ S \in SUBSET ServerPod /\ (server[Turn] = {} => S = {})
        /\ (\A s \in S : s.del => s.up) /\ (Leaving(Turn) => \A s \in S : s.del)
    <3>1. CASE S = server[Turn]
      BY <1>1, <1>2, <3>1, ZenonT(60)
    <3>2. CASE S = DeletedServer(server[Turn])
      <4>1. S \in SUBSET ServerPod /\ \A t \in S : t.del /\ t.up
        BY <1>1, <3>2, DeletedServerFacts, ZenonT(60)
      <4>2. server[Turn] = {} => S = {}
        BY <3>2, ZenonT(60) DEF DeletedServer, Deleted
      <4> QED BY <4>1, <4>2, ZenonT(60)
    <3>3. CASE S = marked \/ S = revived
      <4>1. "no" \in {"no", "marked"} /\ "marked" \in {"no", "marked"}
        OBVIOUS
      <4> QED BY <1>1, <1>2, <3>3, <4>1, PatchedFacts, ZenonT(60)
    <3> QED BY <3>1, <3>2, <3>3, ZenonT(60)
  <2>4. "servers" \in {"shed", "servers", "consumers", "create"} /\ "servers" # "shed"
    OBVIOUS
  <2> QED BY <1>0, <1>7, <2>1, <2>2, <2>3, <2>4, GoesOnStep, ZenonT(60)
<1> QED BY <1>4, <1>5, <1>6, <1>7, ZenonT(60)

(* Gates are lifted where the directory was clear, and still is.           *)
LEMMA ReleaseStep ==
  ASSUME IInv, Release PROVE IInv'
<1>0. /\ Typed /\ PodsOK /\ PlanOK /\ PlanOf(rec.ops) /\ rec \in Rec /\ cleanup \in [Node -> Row]
      /\ At("release") /\ UNCHANGED <<backend, engine, server, faults>>
  BY ZenonT(60) DEF IInv, Typed, RecOK, PlanOK, Release, envVars
<1>1. /\ rec.ops # <<>> /\ Heads(rec, "release") /\ (\A x : Heads(rec, x) => x = "release")
      /\ Turn \in rec.todo /\ Turn \in Node /\ RecOK(rec) /\ rec.ops \in Seq(Pass)
  BY <1>0, AtFacts, ZenonT(60)
<1>2. ~Heads(rec, "check") /\ ~Heads(rec, "cleanups") /\ ~Heads(rec, "shed")
  BY <1>1, ZenonT(60)
<1> DEFINE ks == {k \in Attempt : <<Turn, k>> \in rec.release}
           old == cleanup[Turn]
           new == [k \in Attempt |-> IF k \in ks THEN {[p EXCEPT !.gated = FALSE] : p \in old[k]} ELSE old[k]]
           r == [rec EXCEPT !.release = @ \ ({Turn} \X Attempt)]
<1>3. CASE rec' = Aborted /\ UNCHANGED cleanup
  <2>1. PlanOK' /\ RecOK(rec')
    BY <1>0, <1>1, <1>3, AbortedPlanOK, ZenonT(60)
  <2>2. Typed' /\ PodsOK' /\ (Smooth' => Smooth) /\ (Calm' => Calm)
    BY <1>0, <1>3, <2>1, ZenonT(60) DEF Typed, PodsOK, Smooth, Calm, Spared
  <2>3. ASSUME NEW m \in Node, SafeAt(m) PROVE SafeAt(m)'
    <3>1. Quiet(m)
      BY <1>0, <1>3, ZenonT(60) DEF Quiet, Loose, Pending, Leaving, Clear
    <3> QED BY <1>0, <1>1, <1>3, <2>3, <3>1, AbortedSteady, SafeKept, ZenonT(60)
  <2> QED BY <2>1, <2>2, <2>3, ZenonT(60) DEF IInv
<1>4. CASE cleanup' = [cleanup EXCEPT ![Turn] = new] /\ rec' = Advanced(r)
  <2>1. Alike(r) /\ r.release = rec.release \ ({Turn} \X Attempt)
    BY <1>0, <1>1, ZenonT(60) DEF Alike, RecOK, Rec
  <2>2. /\ \A k \in Attempt : <<Turn, k>> \notin r.release
        /\ \A m \in Node, k \in Attempt : <<m, k>> \in r.release => <<m, k>> \in rec.release /\ m # Turn
    <3>1. \A k \in Attempt : <<Turn, k>> \in {Turn} \X Attempt
      OBVIOUS
    <3> QED BY <2>1, <3>1, ZenonT(60)
  <2> HIDE DEF r
  <2>3. \A k \in Attempt : old[k] \in SUBSET CleanupPod /\ Single(old[k])
          /\ \A p \in old[k] : (p.del => p.phase = "running") /\ (p.gated => p.phase = "pending")
    BY <1>0, <1>1, ZenonT(60) DEF PodsOK, PodsIn, Row
  <2>4. ASSUME NEW k \in Attempt
        PROVE  /\ new[k] \in SUBSET CleanupPod /\ Single(new[k])
               /\ \A t \in new[k] : \E p \in old[k] :
                    /\ t.phase = p.phase /\ (t.del <=> p.del) /\ (t.gated => p.gated)
                    /\ ks = {} => (t.gated <=> p.gated)
    <3>1. CASE k \in ks
      <4>1. new[k] = {[p EXCEPT !.gated = FALSE] : p \in old[k]}
        BY <3>1, ZenonT(60)
      <4>2. ks # {}
        BY <3>1, ZenonT(60)
      <4> HIDE DEF new, ks, old
      <4>3. Single(new[k])
        <5> SUFFICES ASSUME NEW t \in new[k], NEW u \in new[k] PROVE t = u
          BY ZenonT(60) DEF Single
        <5>1. PICK p \in old[k] : t = [p EXCEPT !.gated = FALSE]
          BY <4>1, ZenonT(60)
        <5>2. PICK q \in old[k] : u = [q EXCEPT !.gated = FALSE]
          BY <4>1, ZenonT(60)
        <5> QED BY <2>3, <5>1, <5>2, ZenonT(60) DEF Single
      <4>4. ASSUME NEW t \in new[k]
            PROVE  /\ t \in CleanupPod
                   /\ \E p \in old[k] : t.phase = p.phase /\ (t.del <=> p.del) /\ ~t.gated
        <5>1. PICK p \in old[k] : t = [p EXCEPT !.gated = FALSE]
          BY <4>1, ZenonT(60)
        <5> QED BY <2>3, <5>1, CleanupPods, ZenonT(60)
      <4> QED BY <4>2, <4>3, <4>4, ZenonT(60)
    <3>2. CASE k \notin ks
      <4>1. new[k] = old[k]
        BY <3>2, ZenonT(60)
      <4> HIDE DEF new, ks
      <4> QED BY <2>3, <4>1, ZenonT(60)
    <3> QED BY <3>1, <3>2
  <2>5. new \in Row
    <3>1. new = [k \in Attempt |-> new[k]]
      BY ZenonT(60)
    <3> HIDE DEF new
    <3> QED BY <2>4, <3>1, ZenonT(60) DEF Row
  <2>6. cleanup' \in [Node -> Row] /\ cleanup'[Turn] = new /\ \A m \in Node : m # Turn => cleanup'[m] = cleanup[m]
    <3> HIDE DEF new
    <3> QED BY <1>0, <1>1, <1>4, <2>5, RowFacts, ZenonT(60)
  <2>8. /\ PodsIn(new) /\ (OneIn(old) => OneIn(new)) /\ (PendingIn(new) => PendingIn(old))
        /\ ks = {} => (LooseIn(new) => LooseIn(old))
    <3> HIDE DEF new, old, ks
    <3>1. PodsIn(new)
      <4>1. ASSUME NEW k \in Attempt, NEW t \in new[k]
            PROVE  (t.del => t.phase = "running") /\ (t.gated => t.phase = "pending")
        <5>1. PICK p \in old[k] : t.phase = p.phase /\ (t.del <=> p.del) /\ (t.gated => p.gated)
          BY <2>4, ZenonT(60)
        <5> QED BY <2>3, <5>1, ZenonT(60)
      <4> QED BY <2>4, <4>1, ZenonT(60) DEF PodsIn
    <3>2. OneIn(old) => OneIn(new)
      <4>1. \A k \in Attempt : UnderWay(new[k]) => UnderWay(old[k])
        BY <2>4 DEF UnderWay, Unfinished
      <4> QED BY <4>1, ZenonT(60) DEF OneIn
    <3>3. PendingIn(new) => PendingIn(old)
      BY <2>4 DEF PendingIn
    <3>4. ks = {} => (LooseIn(new) => LooseIn(old))
      BY <2>4 DEF LooseIn
    <3> QED BY <3>1, <3>2, <3>3, <3>4, ZenonT(60)
  <2> HIDE DEF new
  <2>9. PlanOK' /\ RecOK(rec')
    <3>1. ASSUME NEW m \in Node, NEW k \in Attempt, <<m, k>> \in r.release PROVE Waits(rec, "release", m) /\ m # Turn
      BY <1>0, <1>2, <2>2, <3>1, ZenonT(60) DEF PlanOK, Releasing
    <3>2. r.listed = {}
      BY <1>0, <1>2, <2>1, ZenonT(60) DEF PlanOK, Alike
    <3> QED BY <1>0, <1>1, <1>4, <2>1, <3>1, <3>2, AdvancedPlanOK, ZenonT(60) DEF Alike
  <2>10. Typed' /\ PodsOK' /\ (Smooth' => Smooth) /\ (Calm' => Calm)
    BY <1>0, <2>6, <2>8, <2>9, ZenonT(60) DEF Typed, PodsOK, Smooth, Calm, Spared
  <2>11. ASSUME NEW m \in Node, SafeAt(m) PROVE SafeAt(m)'
    <3>1. Steady(m)
      BY <1>0, <1>1, <1>2, <1>4, <2>1, <2>2, AdvancedSteady, ZenonT(60)
    <3>2. (Clear(m)' <=> Clear(m)) /\ (Leaving(m)' <=> Leaving(m))
      BY <1>0, ZenonT(60) DEF Clear, Leaving
    <3>3. Pending(m)' => Pending(m)
      BY <2>6, <2>8, ZenonT(60) DEF Pending
    <3>4. Loose(m)' => Loose(m) \/ \E k \in Attempt : <<m, k>> \in rec.release
      BY <2>6, <2>8, ZenonT(60) DEF Loose
    <3> QED BY <2>11, <3>1, <3>2, <3>3, <3>4, ZenonT(60) DEF SafeAt, Steady
  <2> QED BY <2>9, <2>10, <2>11, ZenonT(60) DEF IInv
<1> QED BY <1>3, <1>4, ZenonT(60) DEF Release

(* What a look at the cleanups of a node makes of them when it goes by a   *)
(* list, and whether the list keeps servers from the node.                 *)
LookedAt(live, pods, wanted) ==
  [k \in Attempt |-> IF k \in Finished(pods, wanted) THEN DeletedCleanup(live[k]) ELSE live[k]]
Holds(pods, wanted) ==
  \E k \in Attempt : Failed(pods[k]) \/ (Unfinished(pods[k]) /\ k \notin Cancelled(pods, wanted))

(* A list with a failure to retry keeps servers away and has nothing gated. *)
LEMMA RetriableFacts ==
  ASSUME NEW pods \in Row, PodsIn(pods), Retriable(pods) # {}, NEW wanted
  PROVE  /\ Holds(pods, wanted) /\ PendingIn(pods)
         /\ \A k \in Attempt : ~UnderWay(pods[k]) /\ ~LMCacheNodeLocalCleanupIsGated(pods[k])
<1>1. PICK f \in Attempt : Failed(pods[f])
  BY ZenonT(60) DEF Retriable
<1>2. \A k \in Attempt : ~UnderWay(pods[k])
  BY ZenonT(60) DEF Retriable
<1>3. ASSUME NEW k \in Attempt, NEW p \in pods[k], p.gated PROVE FALSE
  <2>1. p.phase = "pending" /\ (p.del => p.phase = "running")
    BY <1>3, ZenonT(60) DEF PodsIn
  <2>2. p.phase \in {"pending", "running"} /\ ~p.del
    BY <2>1
  <2> QED BY <1>2, <2>2, ZenonT(60) DEF UnderWay, Unfinished
<1>4. PendingIn(pods)
  <2>1. PICK p \in pods[f] : p.phase = "failed"
    BY <1>1, ZenonT(60) DEF Failed
  <2>2. p.phase # "ok"
    BY <2>1
  <2> QED BY <2>2, ZenonT(60) DEF PendingIn
<1> QED BY <1>1, <1>2, <1>3, <1>4, ZenonT(60) DEF Holds, LMCacheNodeLocalCleanupIsGated

LEMMA LookedAtFacts ==
  ASSUME NEW live \in Row, PodsIn(live), NEW pods, NEW wanted
  PROVE  LET new == LookedAt(live, pods, wanted) IN
         /\ new \in Row /\ PodsIn(new) /\ (OneIn(live) => OneIn(new))
         /\ (PendingIn(new) => PendingIn(live)) /\ (LooseIn(new) => LooseIn(live))
         /\ pods = live /\ wanted /\ ~Holds(pods, wanted) => ~PendingIn(new)
<1> DEFINE new == LookedAt(live, pods, wanted)
<1>0. \A k \in Attempt : /\ live[k] \in SUBSET CleanupPod /\ Single(live[k])
                         /\ \A p \in live[k] : (p.del => p.phase = "running") /\ (p.gated => p.phase = "pending")
  BY ZenonT(60) DEF Row, PodsIn
<1>2. ASSUME NEW k \in Attempt
      PROVE  \/ k \in Finished(pods, wanted) /\ new[k] = DeletedCleanup(live[k])
             \/ k \notin Finished(pods, wanted) /\ new[k] = live[k]
  BY ZenonT(60) DEF LookedAt
<1>3. new = [k \in Attempt |-> new[k]]
  BY ZenonT(60) DEF LookedAt
<1> HIDE DEF new
<1>4. ASSUME NEW k \in Attempt
      PROVE  /\ DeletedCleanup(live[k]) \in SUBSET CleanupPod /\ Single(DeletedCleanup(live[k]))
             /\ \A t \in DeletedCleanup(live[k]) : /\ t.del /\ t.phase = "running" /\ ~t.gated
                                                   /\ \E p \in live[k] : p.phase = "running" /\ ~p.gated
  <2>1. /\ DeletedCleanup(live[k]) \in SUBSET CleanupPod /\ Single(DeletedCleanup(live[k]))
        /\ \A t \in DeletedCleanup(live[k]) :
             t.del /\ t.phase = "running" /\ \E p \in live[k] : p.phase = "running" /\ (p.gated <=> t.gated)
    BY <1>0, DeletedCleanupFacts, ZenonT(60)
  <2>2. \A p \in live[k] : p.phase = "running" => ~p.gated
    BY <1>0
  <2> QED BY <2>1, <2>2, ZenonT(60)
<1>5. new \in Row
  <2>1. \A k \in Attempt : new[k] \in SUBSET CleanupPod
    BY <1>0, <1>2, <1>4, ZenonT(60)
  <2> QED BY <1>3, <2>1, ZenonT(60) DEF Row
<1>6. PodsIn(new)
  <2>1. ASSUME NEW k \in Attempt PROVE Single(new[k])
    BY <1>0, <1>2, <1>4, ZenonT(60)
  <2>2. ASSUME NEW k \in Attempt, NEW t \in new[k] PROVE (t.del => t.phase = "running") /\ (t.gated => t.phase = "pending")
    BY <1>0, <1>2, <1>4, ZenonT(60)
  <2> QED BY <2>1, <2>2, ZenonT(60) DEF PodsIn
<1>7. OneIn(live) => OneIn(new)
  <2>1. \A k \in Attempt : UnderWay(new[k]) => UnderWay(live[k])
    BY <1>2, <1>4, ZenonT(60) DEF UnderWay
  <2> QED BY <2>1, ZenonT(60) DEF OneIn
<1>8. ASSUME PendingIn(new) PROVE PendingIn(live) /\ (pods = live => Holds(pods, wanted))
  <2>1. PICK k \in Attempt : \E t \in new[k] : t.phase # "ok"
    BY <1>8, ZenonT(60) DEF PendingIn
  <2>2. CASE k \in Finished(pods, wanted) /\ new[k] = DeletedCleanup(live[k])
    <3>1. PICK p \in live[k] : p.phase = "running" /\ ~p.gated
      BY <1>4, <2>1, <2>2, ZenonT(60)
    <3>2. p.phase # "ok" /\ p.phase \in {"pending", "running"}
      BY <3>1
    <3>3. PendingIn(live)
      BY <3>2, ZenonT(60) DEF PendingIn
    <3>4. ~LMCacheNodeLocalCleanupIsGated(live[k])
      BY <1>0, <3>1, ZenonT(60) DEF Single, LMCacheNodeLocalCleanupIsGated
    <3>5. Holds(live, wanted)
      BY <3>2, <3>4, ZenonT(60) DEF Holds, Unfinished, Cancelled
    <3> QED BY <3>3, <3>5, ZenonT(60)
  <2>4. CASE k \notin Finished(pods, wanted) /\ new[k] = live[k]
    <3>1. PICK p \in live[k] : p.phase # "ok"
      BY <2>1, <2>4, ZenonT(60)
    <3>2. p.phase = "failed" \/ p.phase \in {"pending", "running"}
      BY <1>0, <3>1, ZenonT(60) DEF CleanupPod
    <3>3. pods = live => Holds(pods, wanted)
      BY <2>4, <3>2, ZenonT(60) DEF Holds, Failed, Unfinished, Finished
    <3> QED BY <3>1, <3>3, ZenonT(60) DEF PendingIn
  <2> QED BY <1>2, <2>2, <2>4, ZenonT(60)
<1>9. LooseIn(new) => LooseIn(live)
  <2> SUFFICES ASSUME NEW k \in Attempt, NEW t \in new[k], ~t.gated, t.phase \in {"pending", "running"} PROVE LooseIn(live)
    BY ZenonT(60) DEF LooseIn
  <2>1. CASE new[k] = DeletedCleanup(live[k])
    <3>1. PICK p \in live[k] : p.phase = "running" /\ ~p.gated
      BY <1>4, <2>1, ZenonT(60)
    <3> QED BY <3>1 DEF LooseIn
  <2>3. CASE new[k] = live[k]
    BY <2>3, ZenonT(60) DEF LooseIn
  <2> QED BY <1>2, <2>1, <2>3, ZenonT(60)
<1> QED BY <1>5, <1>6, <1>7, <1>8, <1>9, ZenonT(60) DEF new

(* A retry is asked for: another gated cleanup where one has failed.       *)
LEMMA RetryStep ==
  ASSUME IInv, SeenOK, RetryCleanup PROVE IInv'
<1>0. /\ Typed /\ PodsOK /\ PlanOK /\ PlanOf(rec.ops) /\ rec \in Rec /\ cleanup \in [Node -> Row]
      /\ At("cleanups") /\ UNCHANGED <<backend, engine, server, faults>>
  BY ZenonT(60) DEF IInv, Typed, RecOK, PlanOK, RetryCleanup, envVars
<1>1. /\ rec.ops # <<>> /\ Heads(rec, "cleanups") /\ Turn \in Node /\ RecOK(rec)
  BY <1>0, AtFacts, ZenonT(60)
<1> DEFINE pods == ListedCleanups[Turn]
           x == RenderLMCacheNodeLocalCleanupRetryPod
           r == [rec EXCEPT !.listed = {pods}]
<1>2. PICK k \in Retriable(pods) :
        \/ /\ cleanup[Turn][k + 1] = {} /\ rec' = r
           /\ cleanup' = [cleanup EXCEPT ![Turn] = [@ EXCEPT ![k + 1] = {x}]]
        \/ rec' = r /\ UNCHANGED cleanup
        \/ rec' = Aborted /\ UNCHANGED cleanup
  BY ZenonT(60) DEF RetryCleanup
<1>3. pods \in Row /\ PodsIn(pods) /\ (Calm => pods = cleanup[Turn])
  BY <1>1, ListedFacts, ZenonT(60)
<1>4. k + 1 \in Attempt
  BY NodeAssumption DEF Retriable, Attempt
<1> HIDE DEF pods
<1>5. ASSUME rec' = Aborted, UNCHANGED cleanup PROVE IInv'
  <2>1. PlanOK' /\ RecOK(rec')
    BY <1>0, <1>1, <1>5, AbortedPlanOK, ZenonT(60)
  <2>2. Typed' /\ PodsOK' /\ (Smooth' => Smooth)
    BY <1>0, <1>5, <2>1, ZenonT(60) DEF Typed, PodsOK, Smooth, Calm, Spared
  <2>3. ASSUME NEW m \in Node, SafeAt(m) PROVE SafeAt(m)'
    <3>1. Quiet(m)
      BY <1>0, <1>5, ZenonT(60) DEF Quiet, Loose, Pending, Leaving, Clear
    <3> QED BY <1>0, <1>1, <1>5, <2>3, <3>1, AbortedSteady, SafeKept, ZenonT(60)
  <2> QED BY <2>1, <2>2, <2>3, ZenonT(60) DEF IInv
<1>6. ASSUME rec' = r PROVE PlanOK' /\ RecOK(rec') /\ \A m \in Node : Steady(m)
  <2>1. /\ r \in Rec /\ r.ops = rec.ops /\ r.todo = rec.todo /\ r.release = rec.release
        /\ r.demand = rec.demand /\ r.blocked = rec.blocked /\ r.listed = {pods}
    BY <1>0, <1>3, ZenonT(60) DEF Rec
  <2> HIDE DEF r
  <2>2. RecOK(rec') /\ \A op : (Has(rec', op) <=> Has(rec, op)) /\ (Heads(rec', op) <=> Heads(rec, op))
    BY <1>1, <1>6, <2>1, ZenonT(60) DEF RecOK, Has, Heads
  <2>3. \A m \in Node : /\ (Releasing(rec', m) <=> Releasing(rec, m)) /\ (Ahead(rec', m) <=> Ahead(rec, m))
                        /\ \A op : Waits(rec', op, m) <=> Waits(rec, op, m)
    BY <1>6, <2>1, <2>2, ZenonT(60) DEF Releasing, Ahead, Waits
  <2>4. PlanOK'
    BY <1>0, <1>1, <1>2, <1>3, <1>6, <2>1, <2>2, <2>3, ZenonT(60) DEF PlanOK
  <2>5. \A m \in Node : Steady(m)
    BY <1>0, <1>6, <2>1, <2>2, <2>3, ZenonT(60) DEF Steady
  <2> QED BY <2>2, <2>4, <2>5
<1>7. ASSUME rec' = r, UNCHANGED cleanup PROVE IInv'
  <2> HIDE DEF r
  <2>1. Typed' /\ PodsOK' /\ (Smooth' => Smooth)
    BY <1>0, <1>6, <1>7, ZenonT(60) DEF Typed, PodsOK, Smooth, Calm, Spared
  <2>2. ASSUME NEW m \in Node, SafeAt(m) PROVE SafeAt(m)'
    <3>1. Quiet(m)
      BY <1>0, <1>7, ZenonT(60) DEF Quiet, Loose, Pending, Leaving, Clear
    <3> QED BY <1>6, <1>7, <2>2, <3>1, SafeKept, ZenonT(60)
  <2> QED BY <1>6, <1>7, <2>1, <2>2, ZenonT(60) DEF IInv
<1>8. ASSUME rec' = r, cleanup[Turn][k + 1] = {}, cleanup' = [cleanup EXCEPT ![Turn] = [@ EXCEPT ![k + 1] = {x}]]
      PROVE  IInv'
  <2> DEFINE old == cleanup[Turn]
             new == [old EXCEPT ![k + 1] = {x}]
  <2>1. x \in CleanupPod /\ x.gated /\ x.phase = "pending" /\ ~x.del /\ {x} \in SUBSET CleanupPod /\ Single({x})
    BY DEF CleanupPod, RenderLMCacheNodeLocalCleanupRetryPod, RenderLMCacheNodeLocalCleanupPod, Single
  <2> HIDE DEF x, r
  <2>2. old \in Row /\ PodsIn(old) /\ (Calm => OneIn(old))
    BY <1>0, <1>1, ZenonT(60) DEF PodsOK
  <2>3. new \in Row /\ new[k + 1] = {x} /\ \A j \in Attempt : j # k + 1 => new[j] = old[j]
    BY <1>4, <2>1, <2>2, ZenonT(60) DEF Row
  <2>4. cleanup' = [cleanup EXCEPT ![Turn] = new]
    BY <1>8, ZenonT(60)
  <2>5. cleanup' \in [Node -> Row] /\ cleanup'[Turn] = new /\ \A m \in Node : m # Turn => cleanup'[m] = cleanup[m]
    <3> HIDE DEF new
    <3> QED BY <1>0, <1>1, <2>3, <2>4, RowFacts, ZenonT(60)
  <2>6. Calm => Retriable(old) # {}
    BY <1>2, <1>3, ZenonT(60)
  <2> HIDE DEF old, new
  <2>7. PodsIn(new) /\ (LooseIn(new) => LooseIn(old))
    <3>1. \A q \in new[k + 1] : q.gated /\ (q.del => q.phase = "running") /\ (q.gated => q.phase = "pending")
      BY <2>1, <2>3, ZenonT(60)
    <3>2. PodsIn(new)
      BY <2>1, <2>2, <2>3, <3>1, ZenonT(60) DEF PodsIn
    <3>3. LooseIn(new) => LooseIn(old)
      BY <2>3, <3>1, ZenonT(60) DEF LooseIn
    <3> QED BY <3>2, <3>3
  <2>8. ASSUME Calm PROVE OneIn(new) /\ PendingIn(old)
    <3>1. PendingIn(old) /\ \A j \in Attempt : ~UnderWay(old[j])
      BY <2>2, <2>6, <2>8, RetriableFacts, ZenonT(60)
    <3>2. \A j \in Attempt : UnderWay(new[j]) => j = k + 1
      BY <2>3, <3>1, ZenonT(60)
    <3> QED BY <3>1, <3>2, ZenonT(60) DEF OneIn
  <2>9. Typed' /\ (Smooth' => Smooth) /\ (Calm' => Calm)
    BY <1>0, <1>6, <1>8, <2>5, ZenonT(60) DEF Typed, Smooth, Calm, Spared
  <2>10. PodsOK'
    BY <1>0, <2>5, <2>7, <2>8, <2>9, ZenonT(60) DEF PodsOK
  <2>11. ASSUME Calm, NEW m \in Node, SafeAt(m) PROVE SafeAt(m)'
    <3>1. (Loose(m)' => Loose(m)) /\ (Pending(m)' => Pending(m))
      BY <2>5, <2>7, <2>8, <2>11, ZenonT(60) DEF Loose, Pending, old
    <3>2. Quiet(m)
      BY <1>0, <3>1, ZenonT(60) DEF Quiet, Leaving, Clear
    <3> QED BY <1>6, <1>8, <2>11, <3>2, SafeKept, ZenonT(60)
  <2> QED BY <1>6, <1>8, <2>9, <2>10, <2>11, ZenonT(60) DEF IInv, Smooth
<1> QED BY <1>2, <1>5, <1>7, <1>8, ZenonT(60)

(* A look at the cleanups: a gated one may be released when nobody uses    *)
(* the directory, and then no server is left that could let anybody in.    *)
LEMMA CleanupsStep ==
  ASSUME IInv, SeenOK, reconcileLMCacheNodeLocalCleanupPods PROVE IInv'
<1>0. /\ Typed /\ PodsOK /\ PlanOK /\ PlanOf(rec.ops) /\ rec \in Rec /\ cleanup \in [Node -> Row]
      /\ At("cleanups") /\ UNCHANGED <<backend, engine, server, faults>>
  BY ZenonT(60) DEF IInv, Typed, RecOK, PlanOK, reconcileLMCacheNodeLocalCleanupPods, envVars
<1>1. /\ rec.ops # <<>> /\ Heads(rec, "cleanups") /\ (\A x : Heads(rec, x) => x = "cleanups")
      /\ Turn \in rec.todo /\ Turn \in Node /\ RecOK(rec) /\ rec.ops \in Seq(Pass)
  BY <1>0, AtFacts, ZenonT(60)
<1>2. ~Heads(rec, "check") /\ ~Heads(rec, "shed") /\ ~Heads(rec, "release")
  BY <1>1
<1> DEFINE live == cleanup[Turn]
           wanted == Turn \in rec.demand
<1>15. PICK pods \in IF rec.listed # {} THEN rec.listed ELSE {ListedCleanups[Turn]} :
        LET waiting == {k \in Attempt \ Cancelled(pods, wanted) : LMCacheNodeLocalCleanupIsGated(pods[k])}
            holds == \E k \in Attempt : Failed(pods[k]) \/ (Unfinished(pods[k]) /\ k \notin Cancelled(pods, wanted))
        IN /\ cleanup' = [cleanup EXCEPT ![Turn] = [k \in Attempt |->
                           IF k \in Finished(pods, wanted) THEN DeletedCleanup(@[k]) ELSE @[k]]]
           /\ rec' = Advanced([rec EXCEPT
                       !.listed = {},
                       !.blocked = IF holds THEN @ \cup {Turn} ELSE @,
                       !.release = IF nodeLocalShmConsumers(Turn) = {} THEN @ \cup ({Turn} \X waiting) ELSE @])
  BY ZenonT(60) DEF reconcileLMCacheNodeLocalCleanupPods
<1> DEFINE new == LookedAt(live, pods, wanted)
           waiting == {k \in Attempt \ Cancelled(pods, wanted) : LMCacheNodeLocalCleanupIsGated(pods[k])}
           b == IF Holds(pods, wanted) THEN rec.blocked \cup {Turn} ELSE rec.blocked
           l == IF nodeLocalShmConsumers(Turn) = {} THEN rec.release \cup ({Turn} \X waiting) ELSE rec.release
           r == [rec EXCEPT !.listed = {}, !.blocked = b, !.release = l]
<1>3. cleanup' = [cleanup EXCEPT ![Turn] = new] /\ rec' = Advanced(r)
  BY <1>15, ZenonT(60) DEF LookedAt, Holds
<1>4. live \in Row /\ PodsIn(live) /\ (Calm => OneIn(live)) /\ \A s \in server[Turn] : s.del => s.up
  BY <1>0, <1>1, ZenonT(60) DEF PodsOK
<1>16. /\ pods \in Row /\ PodsIn(pods)
       /\ Retriable(pods) # {} \/ (Calm => pods = live)
  <2>1. CASE rec.listed # {}
    BY <1>0, <1>15, <2>1, ZenonT(60) DEF PlanOK, Rec
  <2>2. CASE rec.listed = {}
    BY <1>1, <1>15, <2>2, ListedFacts, ZenonT(60)
  <2> QED BY <2>1, <2>2
<1>5. /\ new \in Row /\ PodsIn(new) /\ (Calm => OneIn(new))
      /\ (PendingIn(new) => PendingIn(live)) /\ (LooseIn(new) => LooseIn(live))
      /\ Calm /\ wanted /\ ~Holds(pods, wanted) => ~PendingIn(new)
  <2>1. /\ new \in Row /\ PodsIn(new) /\ (OneIn(live) => OneIn(new))
        /\ (PendingIn(new) => PendingIn(live)) /\ (LooseIn(new) => LooseIn(live))
        /\ pods = live /\ wanted /\ ~Holds(pods, wanted) => ~PendingIn(new)
    <3> HIDE DEF live, wanted
    <3> QED BY <1>4, LookedAtFacts, ZenonT(60)
  <2>2. Retriable(pods) # {} => Holds(pods, wanted)
    <3> HIDE DEF wanted
    <3> QED BY <1>16, RetriableFacts, ZenonT(60)
  <2> HIDE DEF new, live, wanted
  <2> QED BY <1>4, <1>16, <2>1, <2>2, ZenonT(60)
<1>6. Alike(r) /\ r.release = l /\ r.blocked = b /\ r.listed = {}
  <2>1. b \in SUBSET Node /\ rec.blocked \subseteq b /\ l \in SUBSET (Node \X Attempt)
    <3>1. waiting \subseteq Attempt /\ rec.blocked \in SUBSET Node /\ rec.release \in SUBSET (Node \X Attempt)
      BY <1>0 DEF Rec
    <3> HIDE DEF waiting
    <3> QED BY <1>1, <3>1
  <2> HIDE DEF b, l
  <2> QED BY <1>0, <1>1, <2>1, ZenonT(60) DEF Alike, RecOK, Rec
<1>7. \A m \in Node, k \in Attempt : <<m, k>> \in l =>
        \/ <<m, k>> \in rec.release
        \/ m = Turn /\ k \in waiting /\ nodeLocalShmConsumers(Turn) = {}
  <2> HIDE DEF waiting
  <2>1. \A m \in Node, k \in Attempt : <<m, k>> \in {Turn} \X waiting => m = Turn /\ k \in waiting
    OBVIOUS
  <2> QED BY <2>1, ZenonT(60)
<1>8. Calm /\ (\E k \in waiting : TRUE) => PendingIn(live)
  <2>1. ASSUME NEW k \in waiting, Calm PROVE PendingIn(live)
    <3>1. PICK p \in pods[k] : p.gated
      BY <2>1, ZenonT(60) DEF LMCacheNodeLocalCleanupIsGated
    <3>2. p.phase = "pending"
      BY <1>16, <3>1, ZenonT(60) DEF PodsIn
    <3>3. p.phase # "ok"
      BY <3>2
    <3>4. PendingIn(pods)
      BY <3>3, ZenonT(60) DEF PendingIn
    <3>5. pods = live
      BY <1>16, <2>1, RetriableFacts, ZenonT(60)
    <3> QED BY <3>4, <3>5, ZenonT(60)
  <2> QED BY <2>1, ZenonT(60)
<1> HIDE DEF new, waiting, b, l, r
<1>9. cleanup' \in [Node -> Row] /\ cleanup'[Turn] = new /\ \A m \in Node : m # Turn => cleanup'[m] = cleanup[m]
  BY <1>0, <1>1, <1>3, <1>5, RowFacts, ZenonT(60)
<1>10. PlanOK' /\ RecOK(rec')
  <2>1. ASSUME NEW m \in Node, NEW k \in Attempt, <<m, k>> \in r.release PROVE m \notin rec.todo \/ m = Turn
    BY <1>0, <1>2, <1>6, <1>7, <2>1, ZenonT(60) DEF PlanOK, Releasing, Waits
  <2> QED BY <1>0, <1>1, <1>3, <1>6, <2>1, AdvancedPlanOK, ZenonT(60) DEF Alike
<1>11. Typed' /\ PodsOK' /\ (Smooth' => Smooth) /\ (Calm' => Calm)
  BY <1>0, <1>5, <1>9, <1>10, ZenonT(60) DEF Typed, PodsOK, Smooth, Calm, Spared
<1>12. \A m \in Node : Quiet(m)
  BY <1>0, <1>5, <1>9, ZenonT(60) DEF Quiet, Loose, Pending, Leaving, Clear
<1>13. ASSUME NEW m \in Node, m # Turn, SafeAt(m) PROVE SafeAt(m)'
  <2>1. Steady(m)
    BY <1>0, <1>1, <1>2, <1>3, <1>6, <1>7, <1>13, AdvancedSteady, ZenonT(60)
  <2> QED BY <1>12, <1>13, <2>1, SafeKept, ZenonT(60)
<1>14. ASSUME Calm, NEW m \in Node, m = Turn, SafeAt(m) PROVE SafeAt(m)'
  <2>1. ~Ahead(rec, m) /\ ~Waits(rec, "shed", m)
    <3>1. ~ShedComes(rec.ops)
      BY <1>1 DEF ShedComes, Heads
    <3> QED BY <1>1, <1>2, <3>1, ZenonT(60) DEF Ahead, Waits
  <2>2. Pending(m) => Leaving(m)
    BY <1>14, <2>1, ZenonT(60) DEF SafeAt
  <2>3. /\ RecOK(r) /\ r.ops # <<>> /\ PlanOf(r.ops) /\ r.todo = rec.todo /\ r.demand = rec.demand
        /\ \A op : (Has(r, op) <=> Has(rec, op)) /\ (Heads(r, op) <=> Heads(rec, op))
    BY <1>0, <1>1, <1>6, ZenonT(60) DEF Alike, Has, Heads
  <2>4. /\ rec'.release \subseteq l /\ (\A op : Has(rec', op) => Has(rec, op))
        /\ Has(rec, "check") /\ rec'.ops # <<>> => Has(rec', "check")
        /\ Has(rec', "create") => rec'.demand = rec.demand /\ rec'.blocked = b
    <3>1. /\ rec'.release \subseteq r.release /\ (\A op : Has(rec', op) => Has(r, op))
          /\ Has(r, "check") /\ ~Heads(r, "check") /\ rec'.ops # <<>> => Has(rec', "check")
          /\ Has(rec', "create") => rec'.demand = r.demand /\ rec'.blocked = r.blocked
      BY <1>3, <2>3, AdvancedKeeps, ZenonT(60)
    <3> QED BY <1>2, <1>6, <2>3, <3>1, ZenonT(60)
  <2>5. ASSUME NEW k \in Attempt, <<m, k>> \in rec'.release PROVE Clear(m)'
    <3>1. CASE <<m, k>> \in rec.release
      BY <1>12, <1>14, <3>1, ZenonT(60) DEF SafeAt, Quiet
    <3>2. CASE k \in waiting /\ nodeLocalShmConsumers(m) = {}
      <4>1. Leaving(m)
        BY <1>8, <1>14, <2>2, <3>2, ZenonT(60) DEF Pending
      <4>2. \A s \in server[m] : ~s.up
        BY <3>2, ZenonT(60) DEF nodeLocalShmConsumers
      <4>3. server[m] = {}
        BY <1>4, <1>14, <4>1, <4>2, ZenonT(60) DEF Leaving
      <4>4. \A e \in Engine : engine[e].node = m /\ engine[e].shm => engine[e].st \notin ConsumingStates
        BY <3>2, ZenonT(60) DEF nodeLocalShmConsumers
      <4>5. {"run", "leaving"} \subseteq ConsumingStates
        BY DEF ConsumingStates
      <4> QED BY <1>0, <4>3, <4>4, <4>5, ZenonT(60) DEF Clear
    <3> QED BY <1>7, <1>14, <2>4, <2>5, <3>1, <3>2, ZenonT(60)
  <2>6. Pending(m)' => Leaving(m)'
    BY <1>12, <2>2, ZenonT(60) DEF Quiet
  <2>7. Has(rec', "consumers") /\ ~Has(rec', "check") => Leaving(m)'
    <3>1. Has(rec', "consumers") => rec'.ops # <<>>
      BY DEF Has
    <3> QED BY <1>12, <1>14, <2>1, <2>4, <3>1, ZenonT(60) DEF SafeAt, Quiet
  <2>8. Has(rec', "create") /\ m \in rec'.demand \ rec'.blocked => ~Pending(m)'
    <3>1. ~Holds(pods, wanted) \/ m \in b
      BY <1>14, ZenonT(60) DEF b
    <3>2. Pending(m)' <=> PendingIn(new)
      BY <1>9, <1>14, ZenonT(60) DEF Pending
    <3> QED BY <1>5, <1>14, <2>4, <3>1, <3>2, ZenonT(60)
  <2>9. Loose(m)' => Clear(m)'
    BY <1>12, <1>14, ZenonT(60) DEF SafeAt, Quiet
  <2> QED BY <2>5, <2>6, <2>7, <2>8, <2>9, ZenonT(60) DEF SafeAt
<1> QED BY <1>10, <1>11, <1>13, <1>14, ZenonT(60) DEF IInv, Smooth

-----------------------------------------------------------------------------
(* The whole system.                                                       *)

LEMMA Start ==
  ASSUME Init PROVE Inv
<1>1. backend \in Backend /\ engine \in [Engine -> EnginePod] /\ faults \in [FaultKinds -> Nat]
  BY DEF Init, Backend, EnginePod, NoEngine
<1>2. cleanup \in [Node -> Row] /\ \A n \in Node, k \in Attempt : cleanup[n][k] = {}
  BY DEF Init, Row
<1> DEFINE s == [RenderLMCacheNodeLocalServerPod(1) EXCEPT !.current = FALSE, !.up = TRUE]
<1>3. s \in ServerPod /\ ~s.del
  BY ZenonT(60) DEF RenderLMCacheNodeLocalServerPod, ServerPod
<1>4. server = [n \in Node |-> {s : x \in dirt \cap {n}}]
  BY ZenonT(60) DEF Init
<1> HIDE DEF s
<1>5. server \in [Node -> SUBSET ServerPod] /\ \A n \in Node : \A t \in server[n] : ~t.del
  BY <1>3, <1>4, ZenonT(60)
<1>6. rec = Idle /\ RecOK(rec) /\ rec.ops = <<>> /\ rec.release = {} /\ rec.listed = {}
  BY IdleFacts, ZenonT(60) DEF Init
<1>7. \A op : ~Has(rec, op)
  BY <1>6 DEF Has
<1>8. PlanOK
  <2>1. PlanOf(rec.ops)
    BY <1>6 DEF PlanOf
  <2> QED BY <1>6, <1>7, <2>1, ZenonT(60) DEF PlanOK
<1>9. PodsOK
  BY <1>2, <1>5, ZenonT(60) DEF PodsOK, PodsIn, Single, OneIn, UnderWay, Unfinished
<1>10. \A n \in Node : SafeAt(n)
  BY <1>2, <1>6, <1>7, ZenonT(60) DEF SafeAt, Loose, LooseIn, Pending, PendingIn
<1>11. IInv
  BY <1>1, <1>2, <1>5, <1>6, <1>8, <1>9, <1>10, ZenonT(60) DEF IInv, Typed
<1>12. backend.released = "no" /\ backend.released # "current" /\ seen = {}
  BY DEF Init
<1> QED BY <1>11, <1>12, ZenonT(60) DEF Inv, SeenOK, GoneOK

(* Nothing moves but the informer.                                         *)
LEMMA Stutter ==
  ASSUME IInv, InformerStalls \/ InformerCatchesUp \/ UNCHANGED vars PROVE IInv'
<1>1. UNCHANGED <<backend, engine, server, cleanup, rec>> /\ (UNCHANGED faults \/ \E kind : fault(kind))
  BY ZenonT(60) DEF vars, InformerStalls, InformerCatchesUp, ctrlVars, envVars
<1>4. faults' \in [FaultKinds -> Nat] /\ (Smooth' => Smooth) /\ (Calm' => Calm)
  BY <1>1, FaultFacts, ZenonT(60) DEF IInv, Typed
<1>2. Typed' /\ PodsOK' /\ PlanOK'
  BY <1>1, <1>4, StillPlanOK, ZenonT(60) DEF IInv, Typed, PodsOK
<1>3. ASSUME NEW m \in Node, SafeAt(m) PROVE SafeAt(m)'
  <2>1. Quiet(m)
    BY <1>1, ZenonT(60) DEF Quiet, Loose, Pending, Leaving, Clear
  <2> QED BY <1>1, <1>3, <2>1, StillSteady, SafeKept, ZenonT(60)
<1> QED BY <1>2, <1>3, <1>4, ZenonT(60) DEF IInv

LEMMA PreservedSafe ==
  ASSUME IInv, SeenOK, [Next]_vars PROVE IInv'
<1>1. CASE Reconcile
  BY <1>1, ReconcileStep
<1>2. CASE Step
  BY <1>2, ShedStep, ConsumersStep, RetryStep, CleanupsStep, ReleaseStep, ServersStep, CreateStep, LastStep, ZenonT(60) DEF Step
<1>3. CASE ApiFails
  BY <1>3, ApiFailsStep
<1>4. CASE Admit \/ EngineLeaves \/ Schedule \/ GateOpens
  BY <1>4, EngineStep
<1>5. CASE ServerStarts \/ RetentionExpires
  BY <1>5, ServerStep, ZenonT(60)
<1>6. CASE PodGone
  BY <1>6, PodGoneStep
<1>7. CASE CleanupRuns
  BY <1>7, CleanupRunsStep
<1>8. CASE Operate
  BY <1>8, OperateStep
<1>9. CASE InformerStalls \/ InformerCatchesUp \/ UNCHANGED vars
  BY <1>9, Stutter
<1> QED BY <1>1, <1>2, <1>3, <1>4, <1>5, <1>6, <1>7, <1>8, <1>9, ZenonT(60) DEF Next, Cluster

(* Only the informer changes what it shows, and nothing undoes a fault.    *)
LEMMA StepFacts ==
  ASSUME Next
  PROVE  /\ InformerStalls \/ InformerCatchesUp \/ UNCHANGED seen
         /\ UNCHANGED faults \/ \E kind : fault(kind)
<1>1. CASE Reconcile \/ ApiFails \/ Admit \/ EngineLeaves \/ Operate \/ InformerStalls
  BY <1>1, ZenonT(60) DEF Reconcile, ApiFails, Admit, EngineLeaves, Operate, InformerStalls
<1>2. CASE Cluster
  BY <1>2, ZenonT(60) DEF Cluster, Schedule, GateOpens, ServerStarts, PodGone, CleanupRuns, RetentionExpires,
                          InformerCatchesUp
<1>3. CASE reconcileLMCacheNodeLocalServerPods
  BY <1>3, ZenonT(60) DEF reconcileLMCacheNodeLocalServerPods, reconcileServer, CleanThenDelete
<1>4. CASE cleanupLMCacheNodeLocalServerPods
  BY <1>4, ZenonT(60) DEF cleanupLMCacheNodeLocalServerPods, CleanThenDelete
<1>5. CASE Step /\ ~reconcileLMCacheNodeLocalServerPods /\ ~cleanupLMCacheNodeLocalServerPods
  BY <1>5, ZenonT(60) DEF Step, ensureLMCacheNodeLocalCleanupForConsumers, RetryCleanup,
     reconcileLMCacheNodeLocalCleanupPods, Release, CreateServers, Finalize, refreshLMCacheNodeLocalConnectorStatus
<1> QED BY <1>1, <1>2, <1>3, <1>4, <1>5, ZenonT(60) DEF Next

LEMMA PreservedSeen ==
  ASSUME IInv, SeenOK, [Next]_vars PROVE SeenOK'
<1>1. CASE UNCHANGED vars
  BY <1>1, ZenonT(60) DEF SeenOK, vars, Calm, Spared
<1>2. CASE Next
  <2>1. Calm' => Calm
    BY <1>2, StepFacts, FaultFacts, ZenonT(60) DEF IInv, Typed
  <2>2. CASE InformerStalls
    <3>1. ~Calm'
      <4>1. "lag" \in FaultKinds /\ faults' = [faults EXCEPT !["lag"] = @ + 1] /\ faults \in [FaultKinds -> Nat]
        BY <2>2, ZenonT(60) DEF InformerStalls, fault, IInv, Typed
      <4>2. faults'["lag"] # 0
        BY <4>1
      <4> QED BY <4>1, <4>2, ZenonT(60) DEF Calm, Spared
    <3> DEFINE v == [server |-> server, cleanup |-> cleanup]
    <3>2. seen' = {v} /\ v.server = server /\ v.cleanup = cleanup
      BY <2>2, ZenonT(60) DEF InformerStalls
    <3> HIDE DEF v
    <3> QED BY <3>1, <3>2, ZenonT(60) DEF SeenOK, IInv, Typed, PodsOK
  <2>3. CASE InformerCatchesUp
    BY <2>3, ZenonT(60) DEF SeenOK, InformerCatchesUp
  <2>4. CASE UNCHANGED seen
    BY <2>1, <2>4, ZenonT(60) DEF SeenOK
  <2> QED BY <1>2, <2>2, <2>3, <2>4, StepFacts
<1> QED BY <1>1, <1>2

(* The finalizer lets go of a backend whose lists are empty.               *)
LEMMA FinalizeGone ==
  ASSUME IInv, SeenOK, Finalize, backend'.released # backend.released
  PROVE  GoneOK' /\ \A n \in Node : Unused(n)
<1>1. /\ Drained /\ rec' = Idle /\ UNCHANGED <<engine, server, cleanup>>
      /\ backend' = [backend EXCEPT !.finalizer = FALSE, !.exists = FALSE,
                                    !.released = IF seen = {} THEN "current" ELSE "behind"]
  BY ZenonT(60) DEF Finalize, envVars
<1>2. ~backend'.exists /\ rec'.ops = <<>> /\ (backend'.released = "current" => seen = {})
  <2>1. backend \in Backend
    BY DEF IInv, Typed
  <2> QED BY <1>1, <2>1, IdleFacts DEF Backend
<1>3. \A n \in Node : Unused(n)
  <2>1. \A n \in Node : /\ \A s \in server[n] : ~s.up
                        /\ \A e \in Engine : engine[e].node = n /\ engine[e].shm => engine[e].st \notin ConsumingStates
    BY <1>1, ZenonT(60) DEF Drained, nodeLocalShmConsumers
  <2>2. {"run", "leaving"} \subseteq ConsumingStates
    BY DEF ConsumingStates
  <2> QED BY <2>1, <2>2, ZenonT(60) DEF Unused
<1>4. seen = {} => \A n \in Node : server[n] = {} /\ \A k \in Attempt : cleanup[n][k] = {}
  BY <1>1, ZenonT(60) DEF Drained, NoPodListed, ListedServers, ListedCleanups
<1> QED BY <1>1, <1>2, <1>3, <1>4, ZenonT(60) DEF GoneOK, Unused, Clear

(* Nobody but the finalizer says so.                                       *)
LEMMA OnlyFinalize ==
  ASSUME IInv, Next, ~Finalize PROVE backend'.released = backend.released
<1>1. backend \in Backend
  BY DEF IInv, Typed
<1>2. CASE Reconcile
  <2>1. backend' = backend \/ backend' = [backend EXCEPT !.finalizer = backend.finalizer \/ backend.kind = "nodelocal"]
    BY <1>2, ZenonT(60) DEF Reconcile
  <2> QED BY <1>1, <2>1 DEF Backend
<1>3. CASE Operate
  <2>1. \/ \E k \in Kinds : backend' = [backend EXCEPT !.kind = k, !.gen = @ + 1]
        \/ backend' = [backend EXCEPT !.deleting = TRUE, !.exists = backend.finalizer]
    BY <1>3, ZenonT(60) DEF Operate
  <2> QED BY <1>1, <2>1, ZenonT(60) DEF Backend
<1>4. CASE Step
  BY <1>4, ZenonT(60) DEF Step, cleanupLMCacheNodeLocalServerPods, ensureLMCacheNodeLocalCleanupForConsumers,
     RetryCleanup, reconcileLMCacheNodeLocalCleanupPods, Release, reconcileLMCacheNodeLocalServerPods,
     CreateServers, refreshLMCacheNodeLocalConnectorStatus
<1>5. CASE ApiFails \/ Admit \/ EngineLeaves \/ Cluster \/ InformerStalls
  BY <1>5, ZenonT(60) DEF ApiFails, Admit, EngineLeaves, Cluster, Schedule, GateOpens, ServerStarts, PodGone,
     CleanupRuns, RetentionExpires, InformerStalls, InformerCatchesUp, ctrlVars
<1> QED BY <1>2, <1>3, <1>4, <1>5, ZenonT(60) DEF Next

(* What may still happen once the backend is gone: no reconcile, and an    *)
(* engine that waits at its gate finds no server.                          *)
LEMMA PreservedGone ==
  ASSUME Inv, [Next]_vars PROVE GoneOK'
<1>0. IInv /\ SeenOK /\ GoneOK
  BY DEF Inv
<1>1. CASE UNCHANGED vars
  BY <1>0, <1>1, ZenonT(60) DEF GoneOK, vars, Clear
<1>2. CASE Next /\ backend'.released # backend.released
  BY <1>0, <1>2, OnlyFinalize, FinalizeGone, ZenonT(60)
<1>3. CASE Next /\ backend'.released = backend.released /\ backend.released = "no"
  <2>1. backend'.released # "current"
    BY <1>3
  <2> QED BY <1>3, <2>1, ZenonT(60) DEF GoneOK
<1>4. CASE Next /\ backend'.released = backend.released /\ backend.released # "no"
  <2>1. ~backend.exists /\ rec.ops = <<>>
    BY <1>0, <1>4, ZenonT(60) DEF GoneOK
  <2>2. Admit \/ EngineLeaves \/ Cluster \/ InformerStalls
    <3>1. ~Step
      BY <2>1, ZenonT(60) DEF Step, At, cleanupLMCacheNodeLocalServerPods, ensureLMCacheNodeLocalCleanupForConsumers,
         RetryCleanup, reconcileLMCacheNodeLocalCleanupPods, Release, reconcileLMCacheNodeLocalServerPods,
         CreateServers, Finalize, refreshLMCacheNodeLocalConnectorStatus
    <3> QED BY <1>4, <2>1, <3>1, ZenonT(60) DEF Next, Reconcile, ApiFails, Operate
  <2>3. UNCHANGED <<backend, rec>>
    BY <2>2, ZenonT(60) DEF Admit, EngineLeaves, Cluster, Schedule, GateOpens, ServerStarts, PodGone,
       CleanupRuns, RetentionExpires, InformerStalls, InformerCatchesUp, ctrlVars
  <2>4. ASSUME backend.released = "current"
        PROVE  \A n \in Node : Clear(n)' /\ \A k \in Attempt : cleanup'[n][k] = {}
    <3>1. \A n \in Node : Clear(n) /\ server[n] = {} /\ \A k \in Attempt : cleanup[n][k] = {}
      BY <1>0, <2>4, ZenonT(60) DEF GoneOK, Clear
    <3>2. ~(ServerStarts \/ RetentionExpires \/ PodGone \/ CleanupRuns)
      BY <3>1, ZenonT(60) DEF ServerStarts, RetentionExpires, PodGone, CleanupRuns
    <3>3. UNCHANGED <<server, cleanup>>
      BY <2>2, <3>2, ZenonT(60) DEF Cluster, Admit, EngineLeaves, Schedule, GateOpens, InformerStalls, InformerCatchesUp
    <3>4. CASE UNCHANGED engine
      BY <3>1, <3>3, <3>4, ZenonT(60) DEF Clear
    <3>5. CASE Admit \/ Schedule \/ GateOpens \/ EngineLeaves
      BY <1>0, <3>1, <3>3, <3>5, EngineClear, ZenonT(60)
    <3> QED BY <2>2, <3>2, <3>4, <3>5, ZenonT(60) DEF Cluster, InformerStalls, InformerCatchesUp, envVars
  <2> QED BY <1>4, <2>1, <2>3, <2>4, ZenonT(60) DEF GoneOK
<1> QED BY <1>1, <1>2, <1>3, <1>4

LEMMA Preserved ==
  ASSUME Inv, [Next]_vars PROVE Inv'
BY PreservedSafe, PreservedSeen, PreservedGone, ZenonT(60) DEF Inv

LEMMA InvariantSafe ==
  ASSUME IInv PROVE CleanupSafe
<1>1. NoWipeUnderUse
  <2> SUFFICES ASSUME Smooth PROVE NeverWiped
    BY ZenonT(60) DEF NoWipeUnderUse, Smooth, Calm, Spared
  <2> SUFFICES ASSUME NEW n \in Node, NEW k \in Attempt, NEW p \in cleanup[n][k], p.phase = "running" PROVE Clear(n)
    BY ZenonT(60) DEF NeverWiped, Clear
  <2>1. SafeAt(n) /\ PodsIn(cleanup[n])
    BY ZenonT(60) DEF IInv, PodsOK
  <2>2. p.gated => p.phase = "pending"
    BY <2>1, ZenonT(60) DEF PodsIn
  <2>3. ~p.gated /\ p.phase \in {"pending", "running"}
    BY <2>2
  <2> QED BY <2>1, <2>3, ZenonT(60) DEF SafeAt, Loose, LooseIn
<1>2. OneCleanupPerNode
  <2> SUFFICES ASSUME Calm, NEW n \in Node
               PROVE  Cardinality({k \in Attempt : UnderWay(cleanup[n][k])}) <= 1
    BY ZenonT(60) DEF OneCleanupPerNode, Calm
  <2> DEFINE K == {k \in Attempt : UnderWay(cleanup[n][k])}
  <2>1. \A j, k \in K : j = k
    BY ZenonT(60) DEF IInv, PodsOK, OneIn
  <2> HIDE DEF K
  <2>2. CASE K = {}
    <3>1. Cardinality(K) = 0
      BY <2>2, FS_EmptySet, ZenonT(60)
    <3> QED BY <3>1 DEF K
  <2>3. CASE K # {}
    <3>0. PICK k \in K : TRUE
      BY <2>3
    <3>1. K = {k}
      BY <2>1, <3>0, ZenonT(60)
    <3>2. Cardinality(K) = 1
      BY <3>1, FS_Singleton
    <3> QED BY <3>2 DEF K
  <2> QED BY <2>2, <2>3, ZenonT(60)
<1> QED BY <1>1, <1>2 DEF CleanupSafe

(* Cleanups are safe, whatever moves between two calls of a reconcile      *)
(* (reconcileLMCacheNodeLocalCleanupPods): as long as no list trailed      *)
(* there is one at a time on a node, and none runs under an engine unless  *)
(* a delete of a server was refused after its cleanup had been asked for.  *)
THEOREM CleanupTheorem == Spec => []CleanupSafe
<1>1. Init => Inv
  BY Start
<1>2. Inv /\ [Next]_vars => Inv'
  BY Preserved
<1>3. Inv => CleanupSafe
  BY InvariantSafe DEF Inv
<1> QED BY <1>1, <1>2, <1>3, PTL DEF Spec

(* When the finalizer lets the backend go (finalizeLMCacheNodeLocal) no    *)
(* server that is up and no engine past its gate is left, even if the      *)
(* lists of its pods trail; and if they did not trail, there is no server, *)
(* no cleanup and no such engine from then on.                             *)
THEOREM GoneTheorem == Spec => GoneMeansGone
<1> DEFINE Left == /\ backend.released = "no" /\ backend'.released # "no" => \A n \in Node : Unused(n)
                   /\ backend'.released = "current" => \A n \in Node : NothingLeft(n)'
<1>1. Init => Inv
  BY Start
<1>2. Inv /\ [Next]_vars => Inv'
  BY Preserved
<1>3. Inv /\ [Next]_vars => [Left]_vars
  <2> SUFFICES ASSUME Inv, Next PROVE Left
    BY ZenonT(60)
  <2>1. ASSUME backend.released = "no", backend'.released # "no" PROVE \A n \in Node : Unused(n)
    BY <2>1, OnlyFinalize, FinalizeGone, ZenonT(60) DEF Inv
  <2>2. ASSUME backend'.released = "current" PROVE \A n \in Node : NothingLeft(n)'
    <3>1. GoneOK'
      BY Preserved, ZenonT(60) DEF Inv
    <3> QED BY <2>2, <3>1, ZenonT(60) DEF GoneOK, Clear, NothingLeft, Unused
  <2> QED BY <2>1, <2>2, ZenonT(60)
<1> QED BY <1>1, <1>2, <1>3, PTL DEF Spec, GoneMeansGone
=============================================================================
