----------------------------- MODULE NodeLocal ------------------------------
(***************************************************************************)
(* NodeLocal LMCache servers: the controller follows the engines of one    *)
(* CacheBackend onto their nodes, keeps one server pod per node that hosts *)
(* one, and reclaims the node's shared-memory directory with a one-shot    *)
(* cleanup pod that is gated until nobody uses the directory.  A finalizer *)
(* holds the backend until the servers, the cleanups and the consumers are *)
(* gone.                                                                   *)
(*                                                                         *)
(* A reconcile is a list of passes over the nodes; every API call of a     *)
(* pass can fail and everything else moves between two calls.  Servers and *)
(* cleanups are listed from the controller's informer, which may stall and *)
(* show them as they were; engines and consumers are read from the API     *)
(* server.  A pod is a set with at most one element, its object.           *)
(***************************************************************************)
EXTENDS Integers, Sequences, FiniteSets, FiniteSetsExt

CONSTANTS
  Node, Engine,
  NoNode,          \* a pod that is not scheduled
  MaxRetryAttempts,\* nodeLocalShmCleanupMaxRetryAttempts
  MaxGPUWorkers,   \* engines one server may serve
  Retention,       \* TRUE when an idle server is kept for a while
  Kinds,           \* what the spec may be changed to
  MaxGen,          \* bound: generations of the backend
  MaxChanges,      \* bound: engines admitted, ended, and port conflicts
  MaxFaults,       \* bound: calls and cleanups that fail, stalls of the informer
  FaultKinds       \* what may fail: a pass ("api"), the delete that follows
                   \* the request for a cleanup ("delete"), a cleanup ("cleanup"),
                   \* the delivery of pod events to the informer ("lag")

ASSUME NodeAssumption ==
  /\ Node # {} /\ NoNode \notin Node
  /\ MaxRetryAttempts \in Nat
  /\ Kinds \subseteq {"nodelocal", "podlocal", "events"}

VARIABLES
  backend,  \* kind, generation, finalizer, whether it is being deleted or gone;
            \* released: whether the finalizer went, and on lists that were current
  engine, server, cleanup,
  seen,     \* the servers and cleanups as a stalled informer shows them
  dirt,     \* nodes whose directory has something in it
  rec,      \* the reconcile under way
  cond,     \* the connector status it reports
  changes, faults  \* how often what has changed and failed

envVars == <<engine, dirt, changes>>
vars == <<backend, engine, server, cleanup, seen, dirt, rec, cond, changes, faults>>

The(x) == CHOOSE e \in x : TRUE
Attempt == 0..MaxRetryAttempts
SumFaults == MapThenSumSet(LAMBDA k : faults[k], FaultKinds)
fault(kind) ==
  /\ kind \in FaultKinds /\ SumFaults < MaxFaults
  /\ faults' = [faults EXCEPT ![kind] = @ + 1]
change == changes < MaxChanges /\ changes' = changes + 1

-----------------------------------------------------------------------------
(* Who is on a node.                                                       *)

NoEngine == [st |-> "none", node |-> NoNode, gen |-> 0, shm |-> FALSE]

Active(e) == engine[e].st \in {"pending", "gate", "run"}

(* Engines this backend injected, of whatever generation.                  *)
nodeLocalEngineDemand ==
  {n \in Node : \E e \in Engine : Active(e) /\ engine[e].node = n /\ engine[e].gen > 0}

(* Mutant: a pod that is being deleted no longer counts. *)
ConsumingStatesActive == {"gate", "run"}

(* Pods that have ended do not use the directory; those on their way out   *)
(* do.                                                                     *)
ConsumingStates == {"gate", "run", "leaving"}

(* Pods that mount the node's directory, whoever they belong to.           *)
nodeLocalShmConsumers(n) ==
  {e \in Engine : engine[e].node = n /\ engine[e].shm /\ engine[e].st \in ConsumingStates}
    \cup {s \in server[n] : s.up}

(* What a list of the controller's own pods shows.                         *)
ListedServers == IF seen = {} THEN server ELSE The(seen).server
ListedCleanups == IF seen = {} THEN cleanup ELSE The(seen).cleanup

-----------------------------------------------------------------------------
(* The pods the controller writes.                                         *)

RenderLMCacheNodeLocalServerPod(gen) ==
  [gen |-> gen, current |-> TRUE, up |-> FALSE, conflict |-> FALSE, idle |-> "no", del |-> FALSE]

RenderLMCacheNodeLocalCleanupPod == [gated |-> TRUE, phase |-> "pending", del |-> FALSE]

RenderLMCacheNodeLocalCleanupRetryPod == RenderLMCacheNodeLocalCleanupPod

(* A pod that runs goes when its grace period is over, any other at once.  *)
Deleted(pod, running(_)) == {[p EXCEPT !.del = TRUE] : p \in {q \in pod : running(q)}}

DeletedServer(pod) == Deleted(pod, LAMBDA q : q.up)

DeletedCleanup(pod) == Deleted(pod, LAMBDA q : q.phase = "running")

LMCacheNodeLocalCleanupSucceeded(pod) == \E p \in pod : p.phase = "ok"

LMCacheNodeLocalCleanupIsGated(pod) == \E p \in pod : p.gated

Failed(pod) == \E p \in pod : p.phase = "failed"

Unfinished(pod) == \E p \in pod : p.phase \in {"pending", "running"}

UnderWay(pod) == Unfinished(pod) /\ \E p \in pod : ~p.del

(* What asking for a cleanup of a node may come to: an intent that is      *)
(* listed and gated is enough, one that is not gated is deleted and        *)
(* reported as an error, and so is a name that is taken by a pod that is   *)
(* not listed.                                                             *)
ensureLMCacheNodeLocalCleanupForNode(n) ==
  LET known == {k \in Attempt : ListedCleanups[n][k] # {}}
  IN IF known # {}
     THEN {IF LMCacheNodeLocalCleanupIsGated(ListedCleanups[n][k])
           THEN [cleanup |-> cleanup[n], ok |-> TRUE]
           ELSE [cleanup |-> [cleanup[n] EXCEPT ![k] = DeletedCleanup(@)], ok |-> FALSE] : k \in known}
     ELSE IF cleanup[n][0] = {}
     THEN {[cleanup |-> [cleanup[n] EXCEPT ![0] = {RenderLMCacheNodeLocalCleanupPod}], ok |-> TRUE]}
     ELSE {[cleanup |-> cleanup[n], ok |-> FALSE]}

-----------------------------------------------------------------------------
(* A reconcile.                                                            *)

Idle == [ops |-> <<>>, todo |-> Node, demand |-> {}, gen |-> 0, servers |-> [n \in Node |-> {}],
         blocked |-> {}, live |-> {}, release |-> {}, listed |-> {}]

(* Mutant: only a spec that is not NodeLocal has passes over its servers. *)
dispatchKeepsServers(b) ==
  IF b.kind = "nodelocal" THEN <<"cleanups", "release", "status">> ELSE <<"shed", "cleanups", "release">>

(* The passes of a dispatch: a spec that is not NodeLocal sheds its        *)
(* servers, and once more, with the consumers of a backend that was        *)
(* NodeLocal before, where an adapter is found.                            *)
dispatch(b) ==
  CASE b.kind = "nodelocal" -> <<"cleanups", "release", "servers", "create", "status">>
    [] b.kind = "podlocal" /\ b.finalizer ->
         <<"shed", "cleanups", "release", "consumers", "shed", "cleanups", "release">>
    [] b.kind = "podlocal" /\ ~b.finalizer -> <<"shed", "cleanups", "release", "shed", "cleanups", "release">>
    [] b.kind = "events" -> <<"shed", "cleanups", "release">>

finalizeLMCacheNodeLocal == <<"consumers", "shed", "cleanups", "release", "cleanups", "release", "check">>

(* The demand, the servers and the outcome of the cleanups matter to the   *)
(* passes of a NodeLocal spec alone; what no later pass reads is dropped.  *)
Kept(r) ==
  LET left(op) == \E i \in DOMAIN r.ops : r.ops[i] = op
      until(op, x) == IF left(op) THEN x ELSE {}
  IN IF r.ops = <<>> THEN Idle ELSE
     [r EXCEPT !.servers = [n \in Node |-> until("servers", @[n])], !.demand = until("create", @),
               !.live = until("create", @), !.blocked = until("create", @)]

Begin(ops) ==
  rec' = Kept([Idle EXCEPT !.ops = ops, !.gen = backend.gen, !.servers = ListedServers,
                           !.demand = nodeLocalEngineDemand])

Reconcile ==
  /\ rec.ops = <<>> /\ backend.exists
  /\ \/ /\ backend.deleting
        /\ Begin(finalizeLMCacheNodeLocal)
        /\ UNCHANGED <<backend, faults>>
     \/ /\ ~backend.deleting
        /\ backend' = [backend EXCEPT !.finalizer = @ \/ backend.kind = "nodelocal"]
        /\ Begin(dispatch(backend))
        /\ UNCHANGED faults
     \/ ~backend.deleting /\ backend.kind = "nodelocal" /\ ~backend.finalizer
        /\ fault("api") /\ UNCHANGED <<backend, rec>>
  /\ UNCHANGED <<envVars, server, cleanup, cond, seen>>

At(op) == rec.ops # <<>> /\ Head(rec.ops) = op

Turn == CHOOSE n \in rec.todo : TRUE

(* On to the next node, or the next pass.                                  *)
Advanced(r) ==
  LET left == r.todo \ {Turn}
  IN IF left # {} THEN [r EXCEPT !.todo = left] ELSE Kept([r EXCEPT !.ops = Tail(@), !.todo = Node])

(* An error ends the dispatch; the status is refreshed all the same.       *)
Aborted ==
  Kept([rec EXCEPT !.ops = IF \E i \in DOMAIN @ : @[i] = "status" THEN <<"status">> ELSE <<>>,
                   !.todo = Node, !.release = {}, !.listed = {}])

ApiFails ==
  /\ rec.ops # <<>> /\ fault("api")
  /\ rec' = IF At("status") THEN Idle ELSE Aborted
  /\ UNCHANGED <<backend, envVars, server, cleanup, cond, seen>>

(* Ask for a cleanup, then delete the server; the second call may fail.    *)
CleanThenDelete(r) ==
  \E o \in ensureLMCacheNodeLocalCleanupForNode(Turn) :
    /\ cleanup' = [cleanup EXCEPT ![Turn] = o.cleanup]
    /\ \/ o.ok /\ server' = [server EXCEPT ![Turn] = DeletedServer(@)] /\ rec' = Advanced(r)
          /\ UNCHANGED faults
       \/ o.ok /\ fault("delete") /\ rec' = Aborted /\ UNCHANGED server
       \/ ~o.ok /\ rec' = Aborted /\ UNCHANGED <<server, faults>>

cleanupLMCacheNodeLocalServerPods ==
  /\ At("shed")
  /\ IF \E s \in ListedServers[Turn] : ~s.del THEN CleanThenDelete(rec)
     ELSE rec' = Advanced(rec) /\ UNCHANGED <<server, cleanup, faults>>
  /\ UNCHANGED <<backend, envVars, cond, seen>>

(* Every injected pod object that mounts the directory asks for a cleanup, *)
(* whatever its phase.                                                     *)
ensureLMCacheNodeLocalCleanupForConsumers ==
  /\ At("consumers")
  /\ IF \E e \in Engine : engine[e].node = Turn /\ engine[e].shm
     THEN \E o \in ensureLMCacheNodeLocalCleanupForNode(Turn) :
            /\ cleanup' = [cleanup EXCEPT ![Turn] = o.cleanup]
            /\ rec' = IF o.ok THEN Advanced(rec) ELSE Aborted
     ELSE rec' = Advanced(rec) /\ UNCHANGED cleanup
  /\ UNCHANGED <<backend, envVars, server, cond, faults, seen>>

(* Demand that returns cancels a cleanup that is still gated.              *)
Cancelled(pods, wanted) == {k \in Attempt : wanted /\ LMCacheNodeLocalCleanupIsGated(pods[k])}

(* The pods that are done with: a success, a failure that is followed by a *)
(* retry or a success, a cancelled intent.                                 *)
Finished(pods, wanted) ==
  {k \in Attempt : \/ LMCacheNodeLocalCleanupSucceeded(pods[k])
                   \/ Failed(pods[k]) /\ (k < MaxRetryAttempts \/ \E j \in Attempt : LMCacheNodeLocalCleanupSucceeded(pods[j]))}
    \cup Cancelled(pods, wanted)

(* The failures that ask for a retry: none while another attempt is under  *)
(* way or done.                                                            *)
Retriable(pods) ==
  IF \E k \in Attempt : LMCacheNodeLocalCleanupSucceeded(pods[k]) \/ UnderWay(pods[k])
  THEN {} ELSE {k \in Attempt : k < MaxRetryAttempts /\ Failed(pods[k])}

(* One failure is retried before any is deleted.  A retry that exists      *)
(* already will do when it is listed, and is an error when it is not.      *)
RetryCleanup ==
  /\ At("cleanups") /\ rec.listed = {}
  /\ \E pods \in {ListedCleanups[Turn]} : \E k \in Retriable(pods) :
       \/ /\ cleanup[Turn][k + 1] = {}
          /\ cleanup' = [cleanup EXCEPT ![Turn][k + 1] = {RenderLMCacheNodeLocalCleanupRetryPod}]
          /\ rec' = [rec EXCEPT !.listed = {pods}]
       \/ /\ cleanup[Turn][k + 1] # {}
          /\ rec' = IF pods[k + 1] # {} THEN [rec EXCEPT !.listed = {pods}] ELSE Aborted
          /\ UNCHANGED cleanup
  /\ UNCHANGED <<backend, envVars, server, seen, cond, faults>>

reconcileLMCacheNodeLocalCleanupPods ==
  /\ At("cleanups")
  /\ \E pods \in IF rec.listed # {} THEN rec.listed ELSE {ListedCleanups[Turn]} :
     \E wanted \in {Turn \in rec.demand} :
       LET waiting == {k \in Attempt \ Cancelled(pods, wanted) : LMCacheNodeLocalCleanupIsGated(pods[k])}
           holds == \E k \in Attempt : Failed(pods[k]) \/ (Unfinished(pods[k]) /\ k \notin Cancelled(pods, wanted))
       IN /\ rec.listed # {} \/ Retriable(pods) = {}
          /\ cleanup' = [cleanup EXCEPT ![Turn] = [k \in Attempt |->
                           IF k \in Finished(pods, wanted) THEN DeletedCleanup(@[k]) ELSE @[k]]]
          /\ rec' = Advanced([rec EXCEPT
                      !.listed = {},
                      !.blocked = IF holds THEN @ \cup {Turn} ELSE @,
                      !.release = IF nodeLocalShmConsumers(Turn) = {} THEN @ \cup ({Turn} \X waiting) ELSE @])
  /\ UNCHANGED <<backend, envVars, server, seen, cond, faults>>

(* The gates of the cleanups whose node had no consumer when it was        *)
(* looked at; a pod that is gone by now is an error.                       *)
Release ==
  /\ At("release")
  /\ \E ks \in {{k \in Attempt : <<Turn, k>> \in rec.release}} :
       IF \E k \in ks : cleanup[Turn][k] = {}
       THEN rec' = Aborted /\ UNCHANGED cleanup
       ELSE /\ cleanup' = [cleanup EXCEPT ![Turn] = [k \in Attempt |->
                            IF k \in ks THEN {[p EXCEPT !.gated = FALSE] : p \in @[k]} ELSE @[k]]]
            /\ rec' = Advanced([rec EXCEPT !.release = @ \ ({Turn} \X Attempt)])
  /\ UNCHANGED <<backend, envVars, server, cond, faults, seen>>

Current(s) == s.gen = rec.gen /\ s.current

Patched(f(_)) == server' = [server EXCEPT ![Turn] = {f(s) : s \in @}]

(* Keep, mark, revive or delete the server of a node.                      *)
reconcileServer(s) ==
  \E wanted \in {Turn \in rec.demand} :
    \/ /\ ~Current(s) /\ ~s.del /\ (~s.current \/ ~wanted)
       /\ CleanThenDelete([rec EXCEPT !.blocked = @ \cup {Turn}])
    \/ /\ ~Current(s) /\ ~s.del /\ s.current /\ wanted
       /\ server' = [server EXCEPT ![Turn] = DeletedServer(@)]
       /\ rec' = Advanced(rec) /\ UNCHANGED <<cleanup, faults>>
    \/ /\ ~Current(s) /\ s.del
       /\ rec' = Advanced(rec) /\ UNCHANGED <<server, cleanup, faults>>
    \/ /\ Current(s) /\ ~wanted /\ ~s.del /\ (~Retention \/ s.idle = "expired")
       /\ CleanThenDelete(rec)
    \/ /\ Current(s) /\ ~wanted /\ Retention /\ s.idle = "no"
       /\ IF server[Turn] = {} THEN rec' = Aborted /\ UNCHANGED server
          ELSE Patched(LAMBDA x : [x EXCEPT !.idle = "marked"]) /\ rec' = Advanced(rec)
       /\ UNCHANGED <<cleanup, faults>>
    \/ /\ Current(s) /\ ~wanted
       /\ IF Retention THEN s.idle = "marked" \/ (s.idle = "expired" /\ s.del) ELSE s.del
       /\ rec' = Advanced(rec) /\ UNCHANGED <<server, cleanup, faults>>
    \/ /\ Current(s) /\ wanted
       /\ IF s.idle = "no" THEN UNCHANGED server ELSE Patched(LAMBDA x : [x EXCEPT !.idle = "no"])
       /\ rec' = IF s.idle # "no" /\ server[Turn] = {} THEN Aborted
                 ELSE Advanced([rec EXCEPT !.live = @ \cup {Turn}])
       /\ UNCHANGED <<cleanup, faults>>

reconcileLMCacheNodeLocalServerPods ==
  /\ At("servers")
  /\ \/ \E s \in rec.servers[Turn] : reconcileServer(s)
     \/ rec.servers[Turn] = {} /\ rec' = Advanced(rec) /\ UNCHANGED <<server, cleanup, faults>>
  /\ UNCHANGED <<backend, envVars, cond, seen>>

MayCreate(n) == n \in rec.demand \ (rec.live \cup rec.blocked)

(* A name that is still taken by the pod on its way out is left for later. *)
CreateServers ==
  /\ At("create")
  /\ \/ /\ MayCreate(Turn) /\ server[Turn] = {}
        /\ server' = [server EXCEPT ![Turn] = {RenderLMCacheNodeLocalServerPod(rec.gen)}]
        /\ rec' = Advanced(rec)
     \/ /\ MayCreate(Turn) /\ server[Turn] # {}
        /\ rec' = IF \E s \in ListedServers[Turn] : s.del THEN Advanced(rec) ELSE Aborted
        /\ UNCHANGED server
     \/ ~MayCreate(Turn) /\ rec' = Advanced(rec) /\ UNCHANGED server
  /\ UNCHANGED <<backend, envVars, cleanup, cond, faults, seen>>

NoPodListed ==
  \A n \in Node : ListedServers[n] = {} /\ \A k \in Attempt : ListedCleanups[n][k] = {}

(* Mutant: the consumers are not asked for. *)
DrainedOfPods == NoPodListed

Drained == NoPodListed /\ \A n \in Node : nodeLocalShmConsumers(n) = {}

(* The finalizer goes when no server, no cleanup and no consumer is left.  *)
Finalize ==
  /\ At("check")
  /\ rec' = Idle
  /\ backend' = IF ~Drained THEN backend
                ELSE [backend EXCEPT !.finalizer = FALSE, !.exists = FALSE,
                                     !.released = IF seen = {} THEN "current" ELSE "behind"]
  /\ UNCHANGED <<envVars, server, cleanup, seen, cond, faults>>

-----------------------------------------------------------------------------
(* The connector status.                                                   *)

ReadyOn(n) == \E s \in server[n] : s.up /\ ~s.del /\ s.gen = rec.gen /\ s.current

Injected(e) == engine[e].gen = rec.gen

OwnedOn(n) == {e \in Engine : Active(e) /\ engine[e].node = n /\ engine[e].gen > 0}

WithinWorkers(n) == OwnedOn(n) # {} /\ Cardinality(OwnedOn(n)) <= MaxGPUWorkers

Covered(e) ==
  Injected(e) /\ engine[e].node # NoNode /\ WithinWorkers(engine[e].node) /\ ReadyOn(engine[e].node)

ConnectorStatus ==
  LET matched == {e \in Engine : Active(e)}
      desired == {n \in Node : OwnedOn(n) # {}}
  IN    CASE matched = {} -> "NoEnginePods"
          [] \E e \in matched : ~Injected(e) -> "Unverified"
          [] desired = {} -> "PoolPending"
          [] \E n \in desired : \E s \in server[n] :
               s.conflict /\ ~s.del /\ s.gen = rec.gen /\ s.current -> "HostPortConflict"
          [] \E e \in matched : engine[e].node # NoNode /\ ~WithinWorkers(engine[e].node) -> "WorkerCapacity"
          [] (\A n \in desired : ReadyOn(n)) /\ \A e \in matched : Covered(e) /\ engine[e].st = "run" -> "Ready"
          [] OTHER -> "PoolPending"

refreshLMCacheNodeLocalConnectorStatus ==
  /\ At("status")
  /\ cond' = ConnectorStatus
  /\ rec' = Idle
  /\ UNCHANGED <<backend, envVars, server, cleanup, faults, seen>>

Step ==
  \/ cleanupLMCacheNodeLocalServerPods \/ ensureLMCacheNodeLocalCleanupForConsumers
  \/ RetryCleanup \/ reconcileLMCacheNodeLocalCleanupPods \/ Release \/ reconcileLMCacheNodeLocalServerPods
  \/ CreateServers \/ Finalize \/ refreshLMCacheNodeLocalConnectorStatus

-----------------------------------------------------------------------------
(* The cluster.                                                            *)

ctrlVars == <<backend, rec, cond>>

(* An engine is admitted, injected unless the webhook is away.             *)
Admit ==
  /\ change
  /\ \E e \in Engine :
       /\ engine[e].st = "none"
       /\ \E g \in IF backend.exists THEN {0, backend.gen} ELSE {0} :
            engine' = [engine EXCEPT ![e] = [st |-> "pending", node |-> NoNode, gen |-> g,
                                             shm |-> g > 0 /\ backend.kind = "nodelocal"]]
  /\ UNCHANGED <<ctrlVars, server, cleanup, dirt, faults, seen>>

Schedule ==
  /\ \E e \in Engine, n \in Node :
       /\ engine[e].st = "pending"
       /\ engine' = [engine EXCEPT ![e].node = n, ![e].st = IF engine[e].shm THEN "gate" ELSE "run"]
  /\ UNCHANGED <<ctrlVars, server, cleanup, dirt, changes, faults, seen>>

(* The startup gate opens for the healthy server of the generation the     *)
(* engine was injected for.                                                *)
GateOpens ==
  /\ \E e \in Engine :
       /\ engine[e].st = "gate"
       /\ \E s \in server[engine[e].node] : s.up /\ s.gen = engine[e].gen
       /\ engine' = [engine EXCEPT ![e].st = "run"]
       /\ dirt' = dirt \cup {engine[e].node}
  /\ UNCHANGED <<ctrlVars, server, cleanup, changes, faults, seen>>

(* An engine ends, is asked to leave, or is removed.                       *)
EngineLeaves ==
  /\ \E e \in Engine :
       \/ engine[e].st \in {"gate", "run"} /\ change
          /\ \E st \in {"ended"} \cup (IF engine[e].st = "run" THEN {"leaving"} ELSE {}) :
               engine' = [engine EXCEPT ![e].st = st]
       \/ engine[e].st \in {"leaving", "ended"} /\ UNCHANGED changes
          /\ engine' = [engine EXCEPT ![e] = NoEngine]
  /\ UNCHANGED <<ctrlVars, server, cleanup, dirt, faults, seen>>

ServerStarts ==
  /\ \E n \in Node : \E s \in server[n] :
       /\ ~s.up /\ ~s.del
       /\ \/ server' = [server EXCEPT ![n] = {[s EXCEPT !.up = TRUE, !.conflict = FALSE]}]
             /\ dirt' = dirt \cup {n} /\ UNCHANGED changes
          \/ ~s.conflict /\ change /\ server' = [server EXCEPT ![n] = {[s EXCEPT !.conflict = TRUE]}]
             /\ UNCHANGED dirt
  /\ UNCHANGED <<ctrlVars, engine, cleanup, faults, seen>>

(* A deleted pod goes, and so does what a gone backend owned.              *)
PodGone ==
  /\ \E n \in Node :
       \/ (\E s \in server[n] : s.del \/ ~backend.exists) /\ server' = [server EXCEPT ![n] = {}] /\ UNCHANGED cleanup
       \/ \E k \in Attempt : (\E p \in cleanup[n][k] : p.del \/ ~backend.exists) /\ cleanup' = [cleanup EXCEPT ![n][k] = {}]
            /\ UNCHANGED server
  /\ UNCHANGED <<ctrlVars, envVars, faults, seen>>

(* A released cleanup starts, and empties the directory or fails.          *)
CleanupRuns ==
  /\ \E n \in Node, k \in Attempt : \E p \in cleanup[n][k] :
       \/ /\ ~p.gated /\ p.phase = "pending"
          /\ cleanup' = [cleanup EXCEPT ![n][k] = {[p EXCEPT !.phase = "running"]}]
          /\ UNCHANGED <<dirt, faults>>
       \/ /\ p.phase = "running" /\ ~p.del
          /\ cleanup' = [cleanup EXCEPT ![n][k] = {[p EXCEPT !.phase = "ok"]}]
          /\ dirt' = dirt \ {n} /\ UNCHANGED faults
       \/ /\ p.phase = "running" /\ ~p.del /\ fault("cleanup")
          /\ cleanup' = [cleanup EXCEPT ![n][k] = {[p EXCEPT !.phase = "failed"]}]
          /\ UNCHANGED dirt
  /\ UNCHANGED <<ctrlVars, engine, server, changes, seen>>

RetentionExpires ==
  /\ \E n \in Node : \E s \in server[n] :
       s.idle = "marked" /\ server' = [server EXCEPT ![n] = {[s EXCEPT !.idle = "expired"]}]
  /\ UNCHANGED <<ctrlVars, envVars, cleanup, faults, seen>>

(* The informer stops showing what changes, and catches up.                *)
InformerStalls ==
  /\ seen = {} /\ fault("lag")
  /\ seen' = {[server |-> server, cleanup |-> cleanup]}
  /\ UNCHANGED <<ctrlVars, envVars, server, cleanup>>

InformerCatchesUp ==
  /\ seen # {} /\ seen' = {}
  /\ UNCHANGED <<ctrlVars, envVars, server, cleanup, faults>>

(* The operator changes the spec or deletes the backend.                   *)
Operate ==
  /\ backend.exists /\ ~backend.deleting
  /\ \/ /\ backend.gen < MaxGen
        /\ \E k \in Kinds : backend' = [backend EXCEPT !.kind = k, !.gen = @ + 1]
     \/ backend' = [backend EXCEPT !.deleting = TRUE, !.exists = backend.finalizer]
  /\ UNCHANGED <<rec, cond, envVars, server, cleanup, faults, seen>>

(* At the start there may be servers an earlier version of the controller  *)
(* left behind.                                                            *)
Init ==
  /\ backend = [kind |-> "nodelocal", gen |-> 1, finalizer |-> FALSE, deleting |-> FALSE, exists |-> TRUE,
                released |-> "no"]
  /\ engine = [e \in Engine |-> NoEngine]
  /\ dirt \in SUBSET Node
  /\ server = [n \in Node |-> {[RenderLMCacheNodeLocalServerPod(1) EXCEPT !.current = FALSE, !.up = TRUE] : x \in dirt \cap {n}}]
  /\ cleanup = [n \in Node |-> [k \in Attempt |-> {}]]
  /\ seen = {} /\ rec = Idle /\ cond = "NoEnginePods"
  /\ changes = 0 /\ faults = [k \in FaultKinds |-> 0]

Cluster == Schedule \/ GateOpens \/ ServerStarts \/ PodGone \/ CleanupRuns \/ RetentionExpires
             \/ InformerCatchesUp

Next == Reconcile \/ Step \/ ApiFails \/ Admit \/ EngineLeaves \/ Cluster \/ InformerStalls \/ Operate

(* Pod events, engine events and requeues bring the reconcile back; the    *)
(* kubelet and the scheduler do their part, and the informer catches up;   *)
(* the operator and whoever ends engines owe nothing.                      *)
Fairness ==
  /\ WF_vars(Reconcile) /\ WF_vars(Step)
  /\ WF_vars(Schedule) /\ WF_vars(ServerStarts /\ UNCHANGED changes) /\ WF_vars(PodGone)
  /\ WF_vars(CleanupRuns /\ UNCHANGED faults) /\ WF_vars(RetentionExpires)
  /\ WF_vars(EngineLeaves /\ UNCHANGED changes) /\ WF_vars(GateOpens) /\ WF_vars(InformerCatchesUp)

Spec == Init /\ [][Next]_vars /\ Fairness

-----------------------------------------------------------------------------
(* No engine of the node is past its gate while a cleanup of it runs: "A   *)
(* managed Engine admitted after this snapshot cannot use the UID          *)
(* directory while cleanup runs" (reconcileLMCacheNodeLocalCleanupPods).   *)
NeverWiped ==
  \A n \in Node, k \in Attempt : \A p \in cleanup[n][k] : p.phase = "running" =>
    \A e \in Engine : engine[e].node = n /\ engine[e].shm => engine[e].st \notin {"run", "leaving"}

(* A cleanup never empties a directory under an engine                     *)
(* (reconcileLMCacheNodeLocalCleanupPods), as long as no delete of a       *)
(* server was refused after its cleanup had been asked for, and no list    *)
(* showed a cleanup as gated that had been released.                       *)
Spared(kind) == kind \in FaultKinds => faults[kind] = 0

NoWipeUnderUse == Spared("delete") /\ Spared("lag") => NeverWiped

Unused(n) ==
  /\ \A s \in server[n] : ~s.up
  /\ \A e \in Engine : engine[e].node = n /\ engine[e].shm => engine[e].st \notin {"run", "leaving"}

NothingLeft(n) == Unused(n) /\ server[n] = {} /\ \A k \in Attempt : cleanup[n][k] = {}

(* When the finalizer lets the backend go nobody uses its directories any  *)
(* more, however far the informer trails; and unless the lists it went by  *)
(* trailed, nothing of the backend is left, then or ever after: no server, *)
(* no cleanup, no engine past its gate (finalizeLMCacheNodeLocal).  On     *)
(* lists that trail, a cleanup that the same reconcile asked for may be    *)
(* left to the garbage collector.                                          *)
GoneMeansGone ==
  [][/\ backend.released = "no" /\ backend'.released # "no" => \A n \in Node : Unused(n)
     /\ backend'.released = "current" => \A n \in Node : NothingLeft(n)']_vars

(* One cleanup at a time (Retriable): never two attempts under way on one  *)
(* node, as long as no list trailed.                                       *)
OneCleanupPerNode == Spared("lag") =>
  \A n \in Node : Cardinality({k \in Attempt : UnderWay(cleanup[n][k])}) <= 1

Exhausted == \E n \in Node : Failed(cleanup[n][MaxRetryAttempts])

(* No engine waits at its gate for ever (CreateServers): its node gets a   *)
(* server unless the engine is of an older generation, the backend goes,   *)
(* or the node's cleanup has used up its retries.                          *)
GateEventuallyOpens ==
  []<>(\A e \in Engine : engine[e].st = "gate" /\ engine[e].gen = backend.gen => backend.deleting \/ Exhausted)

(* A backend that is being deleted goes once no engine is left that mounts *)
(* its directory and the cleanups have not used up their retries           *)
(* (finalizeLMCacheNodeLocal).                                             *)
FinalizerReleased ==
  <>[](backend.deleting /\ (\A e \in Engine : ~engine[e].shm) /\ ~Exhausted) => <>(~backend.exists)

(* Once nothing moves any more the connector status is right               *)
(* (refreshLMCacheNodeLocalConnectorStatus): it says Ready exactly when    *)
(* there are engines and each was injected for this generation, runs, and  *)
(* shares an up-to-date server with no more engines than it has workers.   *)
StatusSettles ==
  <>[](backend.exists /\ ~backend.deleting /\ backend.kind = "nodelocal" =>
         (cond = "Ready" <=>
            LET all == {e \in Engine : Active(e)}
            IN all # {} /\ \A e \in all :
                 /\ engine[e].st = "run" /\ engine[e].gen = backend.gen
                 /\ \E s \in server[engine[e].node] : s.up /\ ~s.del /\ s.current /\ s.gen = backend.gen
                 /\ Cardinality({x \in all : engine[x].node = engine[e].node}) <= MaxGPUWorkers))

(* Cleanups are safe (reconcileLMCacheNodeLocalCleanupPods) as long as no  *)
(* list trailed: never under an engine unless a delete of a server was     *)
(* refused, and never two at a time on one node.                           *)
CleanupSafe == NoWipeUnderUse /\ OneCleanupPerNode

(* Nobody waits for ever (reconcileLMCacheNodeLocal): neither the engines  *)
(* at their gates, nor a backend that is deleted, nor who reads the status *)
(* for it to become right.                                                 *)
NodesSettle == GateEventuallyOpens /\ FinalizerReleased /\ StatusSettles
=============================================================================
