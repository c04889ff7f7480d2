--------------------------- MODULE LookupContract ---------------------------
(***************************************************************************)
(* What LookupRoute promises a gateway, without how it is computed: every  *)
(* call gets exactly one answer, a hint always names a replica and a miss  *)
(* never does, and the only side effect of the read path, the LFU access   *)
(* counts, moves in the step that delivers the answer, once for each entry *)
(* behind a delivered score.                                               *)
(***************************************************************************)
EXTENDS Naturals

CONSTANTS
  Handler,     \* the gRPC handlers
  Entry        \* index entries, dead or alive

Hint == {"PREFIX_MATCH", "TENANT_HOT", "AFFINITY_HINT"}
Miss == {"NO_HINT", "TIMEOUT", "POLICY_REQUIRES_CHAIN",
         "UNKNOWN_TENANT", "UNKNOWN_MODEL", "UNKNOWN_HASH_SCHEME"}

VARIABLES
  asked,       \* per handler: the call it serves (a set with its request), or none
  answer,      \* per handler: the answer it gave (a set), or none yet
  access       \* per entry: its access count

vars == <<asked, answer, access>>

Init ==
  /\ asked = [h \in Handler |-> {}]
  /\ answer = [h \in Handler |-> {}]
  /\ access = [e \in Entry |-> 0]

Legal(r, a) ==
  /\ a.reason \in Hint \cup Miss
  /\ a.reason \in Hint <=> a.replicas # {}
  /\ a.reason = "AFFINITY_HINT" => \E one \in a.replicas : a.replicas = {one}
  /\ a.entries # {} => a.reason = "PREFIX_MATCH"
  /\ a.echo => r.text
  /\ r.textOnly /\ a.reason \in Hint => a.echo

Ask(h) ==
  /\ asked[h] = {} /\ asked'[h] # {}
  /\ \A g \in Handler \ {h} : asked'[g] = asked[g]
  /\ UNCHANGED <<answer, access>>

Answer(h) ==
  /\ answer[h] = {}
  /\ \E r \in asked[h] : \E a \in answer'[h] :
       /\ Legal(r, a)
       /\ access' = [e \in Entry |-> access[e] + IF e \in a.entries THEN 1 ELSE 0]
  /\ \A g \in Handler \ {h} : answer'[g] = answer[g]
  /\ UNCHANGED asked

Close(h) ==
  /\ answer[h] # {}
  /\ asked' = [asked EXCEPT ![h] = {}]
  /\ answer' = [answer EXCEPT ![h] = {}]
  /\ UNCHANGED access

Next == \E h \in Handler : Ask(h) \/ Answer(h) \/ Close(h)

EveryCallAnswered == \A h \in Handler : asked[h] # {} ~> answer[h] # {}

Spec == Init /\ [][Next]_vars /\ EveryCallAnswered
=============================================================================
