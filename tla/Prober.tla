------------------------------- MODULE Prober -------------------------------
(***************************************************************************)
(* The functional self-test of the server (internal/server/probe.go): an   *)
(* authenticated POST /probe writes an entry of the reserved tenant into   *)
(* the live index, looks it up, routes to it, tries the second tier, and   *)
(* clears what it wrote.                                                   *)
(*                                                                         *)
(* A prober is an HTTP handler: it passes the Authenticator, and its       *)
(* Ingest and ApplyEvent are calls of PrefixIndex that it makes as a       *)
(* worker there, step by step beside the other writers and the sweep.  A   *)
(* controller that gave up waiting asks again, so runs for one backend may *)
(* overlap; runMu serialises them per (backend, model).                    *)
(***************************************************************************)
EXTENDS PrefixIndex

CONSTANTS
  Probers,             \* the workers that are handlers of /probe
  Requests,            \* the bodies they may be sent
  ProbeTenantID,
  ProbeReplicaID(_),   \* of a backend
  ProbeHash(_, _, _),  \* of a backend, a model and a scheme
  T2,                  \* a tier-2 prober is configured
  Token, NoToken, CacheMax, CacheTTL

VARIABLES authCache, call, accepted, confirmed,
          runMu,       \* runMuMap: the locks that are held, by key
          probe        \* per prober: [at, req, start, result]

INSTANCE Authenticator WITH Handler <- Probers

probeVars == <<runMu, probe>>
authState == <<authCache, call, accepted, confirmed>>
indexVars == vars
allVars == <<indexVars, authState, probeVars>>

Stages == {"ingest", "routing", "t2"}
Untested == [s \in Stages |-> "none"]
Resting == [at |-> "none", req |-> NoRequest, start |-> ZeroTime, result |-> Untested]

(* Mutant: runs for two schemes of a backend do not exclude each other. *)
lockForRunByScheme(q) == <<q.backend, q.model, q.hashScheme>>

lockForRun(q) == <<q.backend, q.model>>

probeUpdate(q) ==
  [tenant |-> ProbeTenantID, model |-> q.model, replica |-> ProbeReplicaID(q.backend),
   hashScheme |-> q.hashScheme, adapter |-> NoAdapter, timestamp |-> clock,
   prefixes |-> {[adapter |-> NoAdapter, prefixHash |-> EmptyHash, blockTokenCounts |-> 1,
                  blockHashes |-> {ProbeHash(q.backend, q.model, q.hashScheme)}]},
   stats |-> TRUE]

cleanup(q) ==
  [type |-> "cleared", tenant |-> ProbeTenantID, model |-> q.model,
   replica |-> ProbeReplicaID(q.backend), prefixHash |-> EmptyHash, adapter |-> NoAdapter,
   timestamp |-> clock]

(* The replicas a lookup of the probe's hash scores: those whose entry is  *)
(* not past the reserved tenant's TTL.                                     *)
Scored(q) ==
  {x[2] : x \in {x \in DOMAIN entries :
     /\ x[1] = [tenant |-> ProbeTenantID, model |-> q.model, hashScheme |-> q.hashScheme,
                adapter |-> NoAdapter, prefixHash |-> ProbeHash(q.backend, q.model, q.hashScheme)]
     /\ clock - entries[x].lastSeen < ttlFor(ProbeTenantID)}}

replicaInScores(q) == ProbeReplicaID(q.backend) \in Scored(q)

Goto(w, label, result) == probe' = [probe EXCEPT ![w].at = label, ![w].result = result]

-----------------------------------------------------------------------------
(* probeHandler and Run.                                                   *)

(* A body without a backend, a model or a scheme is refused.               *)
probeHandler(w) ==
  /\ call[w].at = "admitted" /\ probe[w].at = "none"
  /\ \E q \in Requests :
       IF q.hashScheme = NoScheme
       THEN call' = [call EXCEPT ![w] = Waiting] /\ UNCHANGED probe
       ELSE probe' = [probe EXCEPT ![w] = [Resting EXCEPT !.at = "wait", !.req = q]] /\ UNCHANGED call
  /\ UNCHANGED <<indexVars, authCache, accepted, confirmed, runMu>>

(* Run takes the lock and starts Stage A's Ingest.                         *)
RunBegin(w) ==
  LET q == probe[w].req IN
  /\ probe[w].at = "wait"
  /\ lockForRun(q) \notin runMu
  /\ runMu' = runMu \cup {lockForRun(q)}
  /\ probe' = [probe EXCEPT ![w].at = "ingest", ![w].start = clock]
  /\ IngestBegin(w) /\ request'[w] = probeUpdate(q)
  /\ UNCHANGED authState

(* Stage A's direct Lookup, when the Ingest has returned.                  *)
StageA(w) ==
  /\ probe[w].at = "ingest" /\ pc[w] = "idle" /\ mu = NoWorker
  /\ IF replicaInScores(probe[w].req)
     THEN Goto(w, "route", [Untested EXCEPT !["ingest"] = "ok"])
     ELSE Goto(w, "cleanup", [s \in Stages |-> IF s = "ingest" THEN "failed" ELSE "skipped"])
  /\ UNCHANGED <<indexVars, authState, runMu>>

(* Stage B: LookupRoute finds a match that names the replica.              *)
StageB(w) ==
  /\ probe[w].at = "route" /\ mu = NoWorker
  /\ IF replicaInScores(probe[w].req)
     THEN Goto(w, "t2", [probe[w].result EXCEPT !["routing"] = "ok"])
     ELSE Goto(w, "cleanup", [probe[w].result EXCEPT !["routing"] = "failed", !["t2"] = "skipped"])
  /\ UNCHANGED <<indexVars, authState, runMu>>

(* Mutant: a failed second tier returns without the cleanup. *)
StageCReturns(w) ==
  /\ probe[w].at = "t2"
  /\ \E r \in {"ok", "failed"} :
       Goto(w, IF r = "ok" THEN "cleanup" ELSE "none", [probe[w].result EXCEPT !["t2"] = r])
  /\ UNCHANGED <<indexVars, authState, runMu>>

(* Stage C, for LMCache backends where a tier-2 prober is configured.      *)
StageC(w) ==
  /\ probe[w].at = "t2"
  /\ \E r \in IF T2 /\ probe[w].req.backendType \in {"LMCache", ""} THEN {"ok", "failed"} ELSE {"skipped"} :
       Goto(w, "cleanup", [probe[w].result EXCEPT !["t2"] = r])
  /\ UNCHANGED <<indexVars, authState, runMu>>

(* Mutant: the lock is released before the entries are cleared. *)
CleanupUnlocked(w) ==
  /\ probe[w].at = "cleanup"
  /\ EventBegin(w) /\ request'[w] = cleanup(probe[w].req)
  /\ Goto(w, "clearing", probe[w].result)
  /\ runMu' = runMu \ {lockForRun(probe[w].req)}
  /\ UNCHANGED authState

(* The deferred cleanup, on every way out.                                 *)
Cleanup(w) ==
  /\ probe[w].at = "cleanup"
  /\ EventBegin(w) /\ request'[w] = cleanup(probe[w].req)
  /\ Goto(w, "clearing", probe[w].result)
  /\ UNCHANGED <<authState, runMu>>

(* The lock is released and the answer written.                            *)
RunReturn(w) ==
  /\ probe[w].at = "clearing" /\ pc[w] = "idle"
  /\ runMu' = runMu \ {lockForRun(probe[w].req)}
  /\ probe' = [probe EXCEPT ![w] = Resting]
  /\ call' = [call EXCEPT ![w] = Waiting]
  /\ UNCHANGED <<indexVars, authCache, accepted, confirmed>>

Run(w) ==
  \/ probeHandler(w) \/ RunBegin(w) \/ StageA(w) \/ StageB(w) \/ StageC(w)
  \/ Cleanup(w) \/ RunReturn(w)

Middleware(w) ==
  /\ (\E tok \in Token \cup {NoToken} : Arrive(w, tok)) \/ Review(w) \/ Put(w)
  /\ UNCHANGED <<indexVars, probeVars>>

(* The RPC handlers drop messages for the reserved tenant.                 *)
Writers(w) ==
  /\ \/ (IngestBegin(w) \/ EventBegin(w)) /\ request'[w].tenant # ProbeTenantID
     \/ SweepBegin(w)
  /\ UNCHANGED <<authState, probeVars>>

IndexStep(w) == Step(w) /\ UNCHANGED <<authState, probeVars>>

Environment ==
  \/ (CreditHits \/ ReplaceSnapshot \/ Tick) /\ UNCHANGED <<authState, probeVars>>
  \/ (\E tok \in Token : Revoke(tok)) /\ UNCHANGED <<indexVars, probeVars>>

AtRest == runMu = {} /\ probe = [w \in Probers |-> Resting]

ProbeInit == Init /\ AuthInit /\ AtRest

ProbeNext ==
  \/ \E w \in Worker \ Probers : Writers(w)
  \/ \E w \in Worker : IndexStep(w)
  \/ \E w \in Probers : Middleware(w) \/ Run(w)
  \/ Environment

(* Goroutines run; a handler that waits for a mutex obtains it when it is  *)
(* released again and again.                                               *)
ProbeFairness ==
  /\ \A w \in Probers : SF_allVars(IndexStep(w) \/ Run(w))
  /\ \A w \in Worker \ Probers : WF_allVars(IndexStep(w))

ProbeSpec == ProbeInit /\ [][ProbeNext]_allVars /\ ProbeFairness

ASSUME ProbeAssumption ==
  /\ Probers \subseteq Worker \ {Sweeper}
  /\ ProbeTenantID \in ReservedTenants

(* ProbeReplicaID is a prefix put before the backend's name.  The reserved *)
(* tenant id cannot be the name of a namespace, so no policy sets its TTL; *)
(* TenantQuota exempts it.                                                 *)
ASSUME ReservedAssumption ==
  /\ \A q, r \in Requests : ProbeReplicaID(q.backend) = ProbeReplicaID(r.backend) => q.backend = r.backend
  /\ \A p \in Policies : p.ttl[ProbeTenantID] = 0 /\ p.quota[ProbeTenantID] = NoQuota

\* NewAuthenticator replaces a bound or a lifetime that is not positive.
ASSUME CacheAssumption == CacheMax \in Nat \ {0} /\ CacheTTL \in Nat \ {0}

-----------------------------------------------------------------------------
(* Properties                                                              *)

(* No false alarm.  A stage that tests the index fails only when so much   *)
(* time went by that the entry it wrote has expired: neither an overlapping *)
(* run of the same backend and its cleanup, nor the sweep, nor real        *)
(* tenants under cap and quota take the entry away (Run: "one's cleanup    *)
(* wiping the other's just-ingested entry").                               *)
NoFalseAlarm ==
  [][\A w \in Probers : probe'[w] # probe[w] /\ "failed" \in {probe'[w].result[s] : s \in {"ingest", "routing"}}
                          /\ "failed" \notin {probe[w].result[s] : s \in {"ingest", "routing"}}
       => clock - probe[w].start >= ttlFor(ProbeTenantID)]_allVars

(* Nothing is left behind.  While no run holds the lock of a backend and a *)
(* model, the index has neither entries nor statistics of that probe       *)
(* (cleanup "leaves no residue", across hash schemes).                     *)
NoResidue ==
  \A q \in Requests : lockForRun(q) \notin runMu =>
    /\ \A x \in DOMAIN entries :
         ~(x[1].tenant = ProbeTenantID /\ x[1].model = q.model /\ x[2] = ProbeReplicaID(q.backend))
    /\ <<ProbeTenantID, q.model, ProbeReplicaID(q.backend)>> \notin DOMAIN stats

(* Every probe is answered, failing stages and waits for the lock of the   *)
(* backend included.                                                       *)
ProbesAnswered == []<>(\A w \in Probers : probe[w].at = "none")
=============================================================================
