---------------------------- MODULE ProberProofs ----------------------------
(* Proofs about Prober and the Authenticator in front of it, for every set *)
(* of workers, probers, requests and tokens, every cache bound and every   *)
(* lifetime: the token cache, the index under self-tests, and what the     *)
(* self-tests promise.                                                     *)
EXTENDS Prober, PrefixIndexProofs

-----------------------------------------------------------------------------
(* The token cache.  An entry expires CacheTTL after the confirmation it   *)
(* stands for, because only a Put writes one; a handler that is about to   *)
(* put a token has a real one.                                             *)

CallLabel == {"idle", "review", "put", "admitted"}

AuthInv ==
  /\ clock \in Nat /\ clock > 0
  /\ confirmed \in [Token -> Nat]
  /\ call \in [Probers -> [at : CallLabel, token : Token \cup {NoToken}]]
  /\ \A h \in Probers : call[h].at \in {"review", "put"} => call[h].token \in Token
  /\ DOMAIN authCache \subseteq Token /\ IsFiniteSet(DOMAIN authCache)
  /\ \A t \in DOMAIN authCache : authCache[t] = confirmed[t] + CacheTTL /\ confirmed[t] > 0
  /\ CacheBounded

LEMMA AuthInvInit == ProbeInit => AuthInv
<1> SUFFICES ASSUME ProbeInit PROVE AuthInv
  OBVIOUS
<1>1. clock = 1 /\ confirmed = [t \in Token |-> 0] /\ call = [h \in Probers |-> Waiting]
  BY ZenonT(60) DEF ProbeInit, Init, AuthInit
<1>2. DOMAIN authCache = {}
  BY ZenonT(60) DEF ProbeInit, AuthInit
<1>3. IsFiniteSet(DOMAIN authCache) /\ Cardinality(DOMAIN authCache) = 0
  BY <1>2, FS_EmptySet, ZenonT(60)
<1>4. Waiting \in [at : CallLabel, token : Token \cup {NoToken}] /\ Waiting.at = "idle"
  BY DEF Waiting, CallLabel
<1>5. CacheBounded
  BY <1>3, CacheAssumption DEF CacheBounded
<1> QED BY <1>1, <1>2, <1>3, <1>4, <1>5 DEF AuthInv

(* Entries that leave the cache leave its invariant alone.                 *)
LEMMA DroppingKeeps ==
  ASSUME AuthInv, NEW S, authCache' = Dropping(S), UNCHANGED confirmed
  PROVE  /\ DOMAIN authCache' \subseteq Token /\ IsFiniteSet(DOMAIN authCache')
         /\ \A t \in DOMAIN authCache' : authCache'[t] = confirmed'[t] + CacheTTL /\ confirmed'[t] > 0
         /\ CacheBounded'
<1>1. /\ DOMAIN authCache' = DOMAIN authCache \ S
      /\ \A t \in DOMAIN authCache' : authCache'[t] = authCache[t]
  BY ZenonT(60) DEF Dropping
<1>2. IsFiniteSet(DOMAIN authCache') /\ Cardinality(DOMAIN authCache') <= Cardinality(DOMAIN authCache)
  BY <1>1, FS_Subset, ZenonT(60) DEF AuthInv
<1>3. Cardinality(DOMAIN authCache) \in Nat /\ Cardinality(DOMAIN authCache') \in Nat
  BY <1>2, FS_CardinalityType DEF AuthInv
<1>4. CacheBounded'
  BY <1>2, <1>3, CacheAssumption DEF AuthInv, CacheBounded
<1> QED BY <1>1, <1>2, <1>4, ZenonT(60) DEF AuthInv

(* cachePut keeps the cache within its bound: it makes room first.         *)
LEMMA PutKeeps ==
  ASSUME AuthInv, NEW tok \in Token, cachePut(tok), confirmed' = [confirmed EXCEPT ![tok] = clock]
  PROVE  /\ DOMAIN authCache' \subseteq Token /\ IsFiniteSet(DOMAIN authCache')
         /\ \A t \in DOMAIN authCache' : authCache'[t] = confirmed'[t] + CacheTTL /\ confirmed'[t] > 0
         /\ CacheBounded'
<1> DEFINE D == DOMAIN authCache
           full(s) == Cardinality(s) >= CacheMax
           fresh == IF full(D) THEN {t \in D : Live(t)} ELSE D
           soonest == {t \in fresh : \A u \in fresh : authCache[t] <= authCache[u]}
<1>1. PICK victims \in IF full(fresh) THEN {{t} : t \in soonest} ELSE {{}} :
        authCache' = [t \in (fresh \ victims) \cup {tok} |-> IF t = tok THEN clock + CacheTTL ELSE authCache[t]]
  BY ZenonT(60) DEF cachePut
<1> DEFINE rest == fresh \ victims
<1>2. IsFiniteSet(D) /\ Cardinality(D) \in Nat /\ Cardinality(D) <= CacheMax /\ D \subseteq Token
  BY FS_CardinalityType DEF AuthInv, CacheBounded
<1>3. fresh \subseteq D
  BY ZenonT(60)
<1>4. /\ IsFiniteSet(fresh) /\ Cardinality(fresh) \in Nat
      /\ Cardinality(fresh) <= Cardinality(D)
  BY <1>2, <1>3, FS_Subset, FS_CardinalityType, ZenonT(60)
<1> HIDE DEF fresh
<1>5. IsFiniteSet(rest) /\ Cardinality(rest) \in Nat /\ Cardinality(rest) < CacheMax
  <2>1. CASE full(fresh)
    <3>1. PICK t \in soonest : victims = {t}
      BY <1>1, <2>1, ZenonT(60)
    <3>2. IsFiniteSet(rest) /\ Cardinality(rest) = Cardinality(fresh) - 1
      BY <1>4, <3>1, FS_RemoveElement, ZenonT(60)
    <3>3. Cardinality(rest) \in Nat
      BY <3>2, FS_CardinalityType, ZenonT(60)
    <3> HIDE DEF rest
    <3> QED BY <1>2, <1>4, <3>2, <3>3, CacheAssumption
  <2>2. CASE ~full(fresh)
    <3>1. victims = {}
      BY <1>1, <2>2, ZenonT(60)
    <3>2. rest = fresh
      BY <3>1, ZenonT(60)
    <3> HIDE DEF rest
    <3> QED BY <1>4, <2>2, <3>2, CacheAssumption
  <2> QED BY <2>1, <2>2
<1>6. DOMAIN authCache' = rest \cup {tok} /\ rest \subseteq D
  BY <1>1, <1>3, ZenonT(60)
<1>7. \A t \in DOMAIN authCache' : authCache'[t] = IF t = tok THEN clock + CacheTTL ELSE authCache[t]
  BY <1>1, ZenonT(60)
<1> HIDE DEF rest
<1>8. IsFiniteSet(rest \cup {tok}) /\ Cardinality(rest \cup {tok}) <= Cardinality(rest) + 1
  <2>1. CASE tok \in rest
    <3>1. rest \cup {tok} = rest
      BY <2>1, ZenonT(60)
    <3>2. Cardinality(rest) <= Cardinality(rest) + 1
      BY <1>5
    <3> QED BY <1>5, <3>1, <3>2, ZenonT(60)
  <2>2. CASE tok \notin rest
    <3>1. IsFiniteSet(rest \cup {tok}) /\ Cardinality(rest \cup {tok}) = Cardinality(rest) + 1
      BY <1>5, <2>2, FS_AddElement, ZenonT(60)
    <3> QED BY <1>5, <3>1
  <2> QED BY <2>1, <2>2
<1>9. Cardinality(rest \cup {tok}) \in Nat
  BY <1>8, FS_CardinalityType, ZenonT(60)
<1>10. CacheBounded'
  <2>1. Cardinality(DOMAIN authCache') = Cardinality(rest \cup {tok})
    BY <1>6, ZenonT(60)
  <2> QED BY <1>5, <1>8, <1>9, <2>1, CacheAssumption DEF CacheBounded
<1>11. ASSUME NEW t \in DOMAIN authCache'
       PROVE  authCache'[t] = confirmed'[t] + CacheTTL /\ confirmed'[t] > 0
  <2>1. CASE t = tok
    <3>1. authCache'[t] = clock + CacheTTL /\ confirmed'[t] = clock
      BY <1>7, <1>11, <2>1, ZenonT(60) DEF AuthInv
    <3> QED BY <3>1 DEF AuthInv
  <2>2. CASE t # tok
    <3>1. t \in D /\ t \in Token
      BY <1>2, <1>6, <1>11, <2>2, ZenonT(60)
    <3>2. authCache'[t] = authCache[t] /\ confirmed'[t] = confirmed[t]
      BY <1>7, <1>11, <2>2, <3>1, ZenonT(60) DEF AuthInv
    <3> QED BY <3>1, <3>2, ZenonT(60) DEF AuthInv
  <2> QED BY <2>1, <2>2
<1> QED BY <1>2, <1>6, <1>8, <1>10, <1>11, ZenonT(60)

LEMMA AuthStep == AuthInv /\ [ProbeNext]_allVars => AuthInv'
<1> SUFFICES ASSUME AuthInv, [ProbeNext]_allVars PROVE AuthInv'
  OBVIOUS
<1>0. Waiting \in [at : CallLabel, token : Token \cup {NoToken}] /\ Waiting.at = "idle"
  BY DEF Waiting, CallLabel
<1> DEFINE Calls == /\ call' \in [Probers -> [at : CallLabel, token : Token \cup {NoToken}]]
                    /\ \A h \in Probers : call'[h].at \in {"review", "put"} => call'[h].token \in Token
           Cache == /\ DOMAIN authCache' \subseteq Token /\ IsFiniteSet(DOMAIN authCache')
                    /\ \A t \in DOMAIN authCache' : authCache'[t] = confirmed'[t] + CacheTTL /\ confirmed'[t] > 0
                    /\ CacheBounded'
           Clock == clock' \in Nat /\ clock' > 0
<1>1. ASSUME UNCHANGED call PROVE Calls
  BY <1>1, ZenonT(60) DEF AuthInv
<1>2. ASSUME UNCHANGED <<authCache, confirmed>> PROVE Cache
  BY <1>2, ZenonT(60) DEF AuthInv, CacheBounded
<1>3. Clock
  <2>1. CASE UNCHANGED clock
    BY <2>1 DEF AuthInv
  <2>2. CASE clock' = clock + 1
    BY <2>2 DEF AuthInv
  <2>3. UNCHANGED clock \/ clock' = clock + 1
    BY ZenonT(60) DEF ProbeNext, Writers, IndexStep, Middleware, Run, Environment, probeHandler, RunBegin,
         StageA, StageB, StageC, Cleanup, RunReturn, allVars, indexVars, vars, envVars, IngestBegin, EventBegin,
         SweepBegin, Step, IngestLock, IngestUpsert, IngestStats, evictOldestForTenantLocked, QuotaDone,
         enforceCapLocked, IngestUnlock, EventLock, SweepLock, RemoveDoomed, RemoveUnlock, ReportLock,
         ReportCount, ReportPublish, CreditHits, ReplaceSnapshot, Tick
  <2> QED BY <2>1, <2>2, <2>3
<1>4. ASSUME Calls, Cache, confirmed' \in [Token -> Nat] PROVE AuthInv'
  BY <1>3, <1>4, ZenonT(60) DEF AuthInv
<1>5. ASSUME NEW w \in Probers, NEW tok \in Token \cup {NoToken}, Arrive(w, tok) PROVE AuthInv'
  <2>1. CASE tok = NoToken
    BY <1>1, <1>2, <1>4, <1>5, <2>1, ZenonT(60) DEF Arrive, AuthInv
  <2>2. CASE tok # NoToken
    <3>1. tok \in Token /\ UNCHANGED confirmed /\ cacheHit(tok)
      BY <1>5, <2>2, ZenonT(60) DEF Arrive
    <3>2. PICK a \in {"admitted", "review"} : call' = [call EXCEPT ![w] = [at |-> a, token |-> tok]]
      BY <1>5, <2>2, ZenonT(60) DEF Arrive
    <3>3. Calls
      BY <3>1, <3>2 DEF AuthInv, CallLabel
    <3>4. Cache
      <4>1. CASE authCache' = authCache
        BY <1>2, <3>1, <4>1, ZenonT(60)
      <4>2. CASE authCache' = Dropping({tok})
        BY <3>1, <4>2, DroppingKeeps, ZenonT(60)
      <4> QED BY <3>1, <4>1, <4>2, ZenonT(60) DEF cacheHit
    <3> QED BY <1>4, <3>1, <3>3, <3>4, ZenonT(60) DEF AuthInv
  <2> QED BY <2>1, <2>2
<1>6. ASSUME NEW w \in Probers, Review(w) PROVE AuthInv'
  <2>1. UNCHANGED <<authCache, confirmed>> /\ call[w].token \in Token
    BY <1>6, ZenonT(60) DEF Review, AuthInv
  <2>2. CASE call' = [call EXCEPT ![w] = Waiting]
    <3>1. Calls
      BY <1>0, <2>2, ZenonT(60) DEF AuthInv
    <3> QED BY <1>2, <1>4, <2>1, <3>1, ZenonT(60) DEF AuthInv
  <2>3. CASE call' = [call EXCEPT ![w].at = "put"]
    <3>1. Calls
      BY <2>1, <2>3 DEF AuthInv, CallLabel
    <3> QED BY <1>2, <1>4, <2>1, <3>1, ZenonT(60) DEF AuthInv
  <2> QED BY <1>6, <2>2, <2>3, ZenonT(60) DEF Review
<1>7. ASSUME NEW w \in Probers, Put(w) PROVE AuthInv'
  <2>1. /\ call[w].token \in Token /\ cachePut(call[w].token)
        /\ confirmed' = [confirmed EXCEPT ![call[w].token] = clock]
        /\ call' = [call EXCEPT ![w].at = "admitted"]
    BY <1>7, ZenonT(60) DEF Put, AuthInv
  <2>2. Cache
    BY <2>1, PutKeeps, ZenonT(60)
  <2>3. Calls
    BY <2>1 DEF AuthInv, CallLabel
  <2>4. confirmed' \in [Token -> Nat]
    BY <2>1 DEF AuthInv
  <2> QED BY <1>4, <2>2, <2>3, <2>4
<1>8. ASSUME NEW w \in Probers, probeHandler(w) \/ RunReturn(w) PROVE AuthInv'
  <2>1. UNCHANGED <<authCache, confirmed>> /\ (UNCHANGED call \/ call' = [call EXCEPT ![w] = Waiting])
    BY <1>8, ZenonT(60) DEF probeHandler, RunReturn
  <2>2. Calls
    BY <1>0, <1>1, <2>1 DEF AuthInv
  <2> QED BY <1>2, <1>4, <2>1, <2>2, ZenonT(60) DEF AuthInv
<1>9. ASSUME UNCHANGED <<authCache, call, confirmed>> PROVE AuthInv'
  BY <1>1, <1>2, <1>4, <1>9, ZenonT(60) DEF AuthInv
<1> QED BY <1>5, <1>6, <1>7, <1>8, <1>9, ZenonT(60) DEF ProbeNext, Writers, IndexStep, Middleware, Run, Environment,
         RunBegin, StageA, StageB, StageC, Cleanup, Revoke, allVars, authState

(* The token cache stays within its bound and admits nothing on a          *)
(* confirmation that has run out (cachePut, cacheHit), whatever handlers   *)
(* race for it.                                                            *)
THEOREM CacheTheorem == ProbeSpec => CachedAdmission
<1>1. AuthInv => CacheBounded
  BY DEF AuthInv
<1>2. AuthInv /\ [ProbeNext]_allVars
        => [\A h \in Probers : call[h].at = "idle" /\ call'[h].at = "admitted"
              => clock - confirmed[call'[h].token] < CacheTTL /\ confirmed[call'[h].token] > 0]_<<call, clock>>
  <2> SUFFICES ASSUME AuthInv, [ProbeNext]_allVars, NEW h \in Probers, call[h].at = "idle", call'[h].at = "admitted"
               PROVE  clock - confirmed[call'[h].token] < CacheTTL /\ confirmed[call'[h].token] > 0
    BY ZenonT(60)
  <2>1. PICK w \in Probers : \/ \E tok \in Token \cup {NoToken} : Arrive(w, tok)
                             \/ Review(w) \/ Put(w) \/ probeHandler(w) \/ RunReturn(w)
    BY ZenonT(60) DEF ProbeNext, Writers, IndexStep, Middleware, Run, Environment,
         RunBegin, StageA, StageB, StageC, Cleanup, Revoke, allVars, authState
  <2>2. Waiting.at = "idle"
    BY ZenonT(60) DEF Waiting
  <2>3. ~(Review(w) \/ Put(w) \/ probeHandler(w) \/ RunReturn(w))
    BY <2>2, ZenonT(60) DEF Review, Put, probeHandler, RunReturn, AuthInv
  <2>4. PICK tok \in Token : Live(tok) /\ call' = [call EXCEPT ![w] = [at |-> "admitted", token |-> tok]]
    BY <2>1, <2>3 DEF Arrive, AuthInv
  <2>5. call'[h].token = tok
    BY <2>4 DEF AuthInv
  <2>6. tok \in DOMAIN authCache /\ clock < authCache[tok]
    BY <2>4, ZenonT(60) DEF Live
  <2>7. confirmed[tok] \in Nat /\ authCache[tok] = confirmed[tok] + CacheTTL /\ confirmed[tok] > 0
    BY <2>6, ZenonT(60) DEF AuthInv
  <2>8. clock \in Nat
    BY DEF AuthInv
  <2> QED BY <2>5, <2>6, <2>7, <2>8, CacheAssumption
<1> QED BY <1>1, <1>2, AuthInvInit, AuthStep, PTL DEF ProbeSpec, CachedAdmission, AdmissionFresh

-----------------------------------------------------------------------------
(* The index under self-tests.  Every step of the server with its probe    *)
(* handlers is a step of the index or leaves it alone, so what is proved   *)
(* of the index holds while it tests itself.                               *)

LEMMA ProbeStepsIndex == [ProbeNext]_allVars => [Next]_vars
BY ProbeAssumption, ZenonT(60) DEF ProbeNext, Writers, IndexStep, Middleware, Run, Environment, probeHandler,
     RunBegin, StageA, StageB, StageC, Cleanup, RunReturn, allVars, indexVars, Next

(* The prober's use of the index is a use of the index: RunBegin is an     *)
(* Ingest, Cleanup an ApplyEvent, and the stages only read.                *)
THEOREM ProbeUsesIndex == ProbeSpec => Spec
<1>1. ProbeInit => Init
  BY DEF ProbeInit
<1> QED BY <1>1, ProbeStepsIndex, PTL DEF ProbeSpec, Spec

(* The entry gauge is right whenever every handler has returned, self-tests *)
(* included: their entries are never counted (reportEntries).              *)
THEOREM ProbeGaugeTheorem == ProbeSpec => []GaugeAtRest
BY ProbeUsesIndex, GaugeTheorem, PTL

-----------------------------------------------------------------------------
(* What a self-test relies on.  A run holds the lock of its backend and    *)
(* model from RunBegin to RunReturn; its index call serves its own request *)
(* and nobody else's call touches the reserved tenant, except the sweep.   *)

ProbeLabel == {"none", "wait", "ingest", "route", "t2", "cleanup", "clearing"}
Running(w) == probe[w].at \in {"ingest", "route", "t2", "cleanup", "clearing"}

ProbeKey(q) ==
  [tenant |-> ProbeTenantID, model |-> q.model, hashScheme |-> q.hashScheme,
   adapter |-> NoAdapter, prefixHash |-> ProbeHash(q.backend, q.model, q.hashScheme)]
ProbeRef(q) == <<ProbeKey(q), ProbeReplicaID(q.backend)>>

Outcome == {"none", "ok", "failed", "skipped"}

ProbeTyped ==
  /\ probe \in [Probers -> [at : ProbeLabel, req : Requests \cup {NoRequest}, start : Time,
                            result : [Stages -> Outcome]]]
  /\ \A w \in Probers : probe[w].at # "none" => probe[w].req \in Requests /\ probe[w].req.hashScheme # NoScheme

RunLocks ==
  /\ \A w \in Probers : Running(w) => lockForRun(probe[w].req) \in runMu
  /\ \A w, v \in Probers : Running(w) /\ Running(v) /\ lockForRun(probe[w].req) = lockForRun(probe[v].req) => w = v

Ingesting == {"ingest", "upsert", "quota", "cap"}
Clearing == {"event", "remove"}
Returning == {"idle", "report", "count", "publish"}

Serves(w) ==
  /\ request[w].tenant = ProbeTenantID /\ request[w].model = probe[w].req.model
  /\ request[w].replica = ProbeReplicaID(probe[w].req.backend)

ProberCall(w) ==
  /\ pc[w] # "idle" => probe[w].at \in {"ingest", "clearing"}
  /\ probe[w].at = "ingest" => pc[w] \in Ingesting \cup Returning
  /\ probe[w].at = "clearing" => pc[w] \in Clearing \cup Returning
  /\ pc[w] \in Ingesting => /\ Serves(w) /\ keysOf(request[w]) = {ProbeKey(probe[w].req)}
                            /\ now[w] = probe[w].start /\ quota[w] = NoQuota
  /\ pc[w] \in Clearing => Serves(w) /\ request[w].type = "cleared"

OtherCall(w) ==
  pc[w] \in Ingesting \cup {"event"} \/ (pc[w] = "remove" /\ w # Sweeper) => request[w].tenant # ProbeTenantID

CallsOK ==
  /\ \A w \in Probers : ProberCall(w)
  /\ \A w \in Worker \ Probers : OtherCall(w)
  /\ \A w \in Worker : pc[w] = "upsert" => todo \subseteq keysOf(request[w])
  /\ clock > 0 /\ now[Sweeper] <= clock

RunInv == Books /\ DoomInv /\ ProbeTyped /\ RunLocks /\ CallsOK

(* How one step inside a call moves its worker, and what it leaves alone.  *)
LEMMA StepMoves ==
  ASSUME Books, NEW w \in Worker, Step(w)
  PROVE  /\ \A v \in Worker \ {w} : /\ pc'[v] = pc[v] /\ request'[v] = request[v]
                                    /\ now'[v] = now[v] /\ quota'[v] = quota[v]
         /\ UNCHANGED envVars
         /\ \/ /\ request'[w] = request[w] /\ now'[w] = now[w] /\ quota'[w] = quota[w]
               /\ \/ pc[w] \in Ingesting /\ pc'[w] \in {"upsert", "quota", "cap"}
                  \/ pc[w] \in Clearing \cup {"sweep"} /\ pc'[w] = "remove"
                  \/ pc[w] \in Returning \ {"idle"} /\ pc'[w] \in Returning
            \/ pc[w] \in {"cap", "remove"} /\ pc'[w] = "report" /\ now'[w] = ZeroTime
<1>0. /\ pc \in [Worker -> Label] /\ now \in [Worker -> Time] /\ quota \in [Worker -> Nat \cup {NoQuota}]
      /\ request \in [Worker -> Updates \cup Events \cup {NoRequest}]
  BY ZenonT(60) DEF Books, TypeOK, ControlTypeOK
<1>1. UNCHANGED envVars
  BY ZenonT(60) DEF Step, IngestLock, IngestUpsert, IngestStats, evictOldestForTenantLocked, QuotaDone,
       enforceCapLocked, IngestUnlock, EventLock, SweepLock, RemoveDoomed, RemoveUnlock, ReportLock,
       ReportCount, ReportPublish, envVars
<1>2. CASE IngestUpsert(w) \/ evictOldestForTenantLocked(w) \/ enforceCapLocked(w) \/ RemoveDoomed(w)
  <2>1. UNCHANGED <<pc, request, now, quota>> /\ pc[w] \in {"upsert", "quota", "cap", "remove"}
    BY <1>2, ZenonT(60) DEF IngestUpsert, evictOldestForTenantLocked, enforceCapLocked, RemoveDoomed, localVars
  <2> QED BY <1>1, <2>1, ZenonT(60) DEF Ingesting, Clearing
<1>3. CASE IngestLock(w) \/ IngestStats(w) \/ QuotaDone(w)
  <2>1. PICK to \in {"upsert", "quota", "cap"} : pc' = [pc EXCEPT ![w] = to]
    BY <1>3, ZenonT(60) DEF IngestLock, IngestStats, QuotaDone, lock, goto
  <2>2. UNCHANGED <<request, now, quota>> /\ pc[w] \in {"ingest", "upsert", "quota"}
    BY <1>3, ZenonT(60) DEF IngestLock, IngestStats, QuotaDone, lock, localVars
  <2> QED BY <1>0, <1>1, <2>1, <2>2, ZenonT(60) DEF Ingesting
<1>4. CASE EventLock(w) \/ SweepLock(w)
  <2>1. pc' = [pc EXCEPT ![w] = "remove"] /\ UNCHANGED <<request, now, quota>> /\ pc[w] \in {"event", "sweep"}
    BY <1>4, ZenonT(60) DEF EventLock, SweepLock, lock, goto, localVars
  <2> QED BY <1>0, <1>1, <2>1, ZenonT(60) DEF Clearing
<1>5. CASE ReportLock(w) \/ ReportCount(w) \/ ReportPublish(w)
  <2>1. PICK to \in {"count", "publish", "idle"} : pc' = [pc EXCEPT ![w] = to]
    BY <1>5, ZenonT(60) DEF ReportLock, ReportCount, ReportPublish, goto
  <2>2. UNCHANGED <<request, now, quota>> /\ pc[w] \in {"report", "count", "publish"}
    BY <1>5, ZenonT(60) DEF ReportLock, ReportCount, ReportPublish, localVars
  <2>3. pc[w] \in Returning \ {"idle"} /\ to \in Returning
    BY <2>1, <2>2 DEF Returning
  <2> QED BY <1>0, <1>1, <2>1, <2>2, <2>3, ZenonT(60)
<1>6. CASE IngestUnlock(w) \/ RemoveUnlock(w)
  <2>1. unlock(w) /\ pc[w] \in {"cap", "remove"}
    BY <1>6, ZenonT(60) DEF IngestUnlock, RemoveUnlock
  <2> QED BY <1>0, <1>1, <2>1, ZenonT(60) DEF unlock, goto
<1> QED BY <1>2, <1>3, <1>4, <1>5, <1>6, ZenonT(60) DEF Step

(* The sets the holder of the index lock works on are nobody else's.       *)
LEMMA SetsAreHolders ==
  ASSUME Books, NEW w \in Worker, Step(w), NEW v \in Worker \ {w}, pc[v] \in Critical
  PROVE  UNCHANGED <<todo, doomed, entries, stats>>
<1>1. mu = v /\ v # NoWorker /\ pc[w] \notin Critical
  BY ZenonT(60), WorkerAssumption DEF Books, TypeOK, LocksOK
<1>2. ReportLock(w) \/ ReportCount(w) \/ ReportPublish(w)
  BY <1>1, ZenonT(60) DEF Step, IngestLock, IngestUpsert, IngestStats, evictOldestForTenantLocked, QuotaDone,
       enforceCapLocked, IngestUnlock, EventLock, SweepLock, RemoveDoomed, RemoveUnlock, lock, Critical
<1> QED BY <1>2, ZenonT(60) DEF ReportLock, ReportCount, ReportPublish, dataVars, statsVars

(* Who writes an entry: the upsert of a key that was still to do.          *)
LEMMA StepWrites ==
  ASSUME Books, NEW w \in Worker, Step(w), NEW x \in DOMAIN entries'
  PROVE  \/ x \in DOMAIN entries /\ entries'[x].lastSeen = entries[x].lastSeen
         \/ /\ pc[w] = "upsert" /\ x[1] \in todo /\ x[2] = request[w].replica
            /\ entries'[x].lastSeen = now[w]
<1>1. CASE IngestUpsert(w)
  <2>1. PICK k \in todo : upsertReplicaLocked(k, request[w].replica, now[w])
    BY <1>1, ZenonT(60) DEF IngestUpsert
  <2>2. pc[w] = "upsert"
    BY <1>1 DEF IngestUpsert
  <2>3. CASE x = <<k, request[w].replica>>
    <3>1. entries'[x].lastSeen = now[w]
      BY <2>1, <2>3 DEF upsertReplicaLocked
    <3>2. x[1] = k /\ x[2] = request[w].replica
      BY <2>3
    <3> QED BY <2>2, <3>1, <3>2, ZenonT(60)
  <2>4. CASE x # <<k, request[w].replica>>
    BY <2>1, <2>4, ZenonT(60) DEF upsertReplicaLocked
  <2> QED BY <2>3, <2>4
<1>2. ASSUME NEW y, removeReplicaLocked(y) PROVE x \in DOMAIN entries /\ entries'[x] = entries[x]
  BY <1>2, RemovalKeepsAges
<1>3. CASE evictOldestForTenantLocked(w) \/ enforceCapLocked(w) \/ RemoveDoomed(w)
  BY <1>2, <1>3, ZenonT(60) DEF evictOldestForTenantLocked, enforceCapLocked, RemoveDoomed
<1>4. CASE UNCHANGED entries
  BY <1>4, ZenonT(60)
<1> QED BY <1>1, <1>3, <1>4, ZenonT(60) DEF Step, IngestLock, IngestStats, QuotaDone, IngestUnlock, EventLock,
         SweepLock, RemoveUnlock, ReportLock, ReportCount, ReportPublish, dataVars

(* A key that is no longer to do has its entry.                            *)
LEMMA UpsertWrites ==
  ASSUME NEW w \in Worker, IngestUpsert(w), NEW k \in todo \ todo'
  PROVE  /\ <<k, request[w].replica>> \in DOMAIN entries'
         /\ entries'[<<k, request[w].replica>>].lastSeen = now[w]
<1>1. PICK l \in todo : upsertReplicaLocked(l, request[w].replica, now[w]) /\ todo' = todo \ {l}
  BY ZenonT(60) DEF IngestUpsert
<1>2. k = l
  BY <1>1
<1> QED BY <1>1, <1>2 DEF upsertReplicaLocked

(* Who takes an entry away.                                                *)
LEMMA StepRemoves ==
  ASSUME Books, NEW w \in Worker, Step(w), NEW x \in DOMAIN entries \ DOMAIN entries'
  PROVE  \/ pc[w] = "remove" /\ x \in doomed
         \/ pc[w] = "quota" /\ x[1].tenant = request[w].tenant /\ quota[w] >= 0
         \/ pc[w] = "cap" /\ x[1].tenant \notin ReservedTenants
<1>1. ASSUME NEW y, removeReplicaLocked(y) PROVE x = y
  BY <1>1, ZenonT(60) DEF removeReplicaLocked, dataVars
<1>2. CASE evictOldestForTenantLocked(w)
  <2>1. PICK y \in DOMAIN entries : removeReplicaLocked(y) /\ y[1].tenant = request[w].tenant
    BY <1>2, ZenonT(60) DEF evictOldestForTenantLocked, Holders
  <2>2. x = y /\ pc[w] = "quota" /\ quota[w] >= 0
    BY <1>1, <1>2, <2>1, ZenonT(60) DEF evictOldestForTenantLocked, overQuota
  <2> QED BY <2>1, <2>2
<1>3. CASE enforceCapLocked(w)
  <2>1. PICK y \in capCandidates : removeReplicaLocked(y)
    BY <1>3, ZenonT(60) DEF enforceCapLocked
  <2>2. x = y /\ pc[w] = "cap"
    BY <1>1, <1>3, <2>1, ZenonT(60) DEF enforceCapLocked
  <2> QED BY <2>1, <2>2, ZenonT(60) DEF capCandidates, isReservedTenant
<1>4. CASE RemoveDoomed(w)
  <2>1. PICK y \in doomed : removeReplicaLocked(y)
    BY <1>4, ZenonT(60) DEF RemoveDoomed
  <2> QED BY <1>1, <1>4, <2>1, ZenonT(60) DEF RemoveDoomed
<1>5. ~(DOMAIN entries \subseteq DOMAIN entries')
  OBVIOUS
<1>6. ~IngestUpsert(w)
  BY <1>5, ZenonT(60) DEF IngestUpsert, upsertReplicaLocked
<1> QED BY <1>2, <1>3, <1>4, <1>5, <1>6, ZenonT(60) DEF Step, IngestLock, IngestStats, QuotaDone, IngestUnlock,
         EventLock, SweepLock, RemoveUnlock, ReportLock, ReportCount, ReportPublish, dataVars

-----------------------------------------------------------------------------
(* The steps of a self-test.                                               *)

LEMMA GotoFacts ==
  ASSUME ProbeTyped, NEW w \in Probers, NEW l, NEW r, Goto(w, l, r)
  PROVE  /\ probe'[w].at = l /\ probe'[w].req = probe[w].req
         /\ probe'[w].start = probe[w].start /\ probe'[w].result = r
         /\ \A v \in Probers \ {w} : probe'[v] = probe[v]
         /\ l \in ProbeLabel \ {"none"} /\ r \in [Stages -> Outcome] /\ probe[w].at # "none" => ProbeTyped'
<1>1. probe' = [probe EXCEPT ![w] = [@ EXCEPT !.at = l, !.result = r]]
  BY ZenonT(60) DEF Goto, ProbeTyped
<1>2. /\ probe'[w] = [probe[w] EXCEPT !.at = l, !.result = r]
      /\ \A v \in Probers \ {w} : probe'[v] = probe[v]
  BY <1>1, ZenonT(60) DEF ProbeTyped
<1>3. /\ probe'[w].at = l /\ probe'[w].req = probe[w].req
      /\ probe'[w].start = probe[w].start /\ probe'[w].result = r
  BY <1>2 DEF ProbeTyped
<1>4. ASSUME l \in ProbeLabel \ {"none"}, r \in [Stages -> Outcome], probe[w].at # "none" PROVE ProbeTyped'
  <2>1. probe' \in [Probers -> [at : ProbeLabel, req : Requests \cup {NoRequest}, start : Time,
                                result : [Stages -> Outcome]]]
    BY <1>1, <1>4, ZenonT(60) DEF ProbeTyped
  <2>2. ASSUME NEW v \in Probers, probe'[v].at # "none"
        PROVE  probe'[v].req \in Requests /\ probe'[v].req.hashScheme # NoScheme
    <3>1. CASE v = w
      BY <1>3, <1>4, <3>1 DEF ProbeTyped
    <3>2. CASE v # w
      BY <1>2, <2>2, <3>2 DEF ProbeTyped
    <3> QED BY <3>1, <3>2
  <2> QED BY <2>1, <2>2, ZenonT(60) DEF ProbeTyped
<1> QED BY <1>2, <1>3, <1>4

(* The stages before the cleanup: where each leads.                        *)
LEMMA StageMoves ==
  ASSUME ProbeTyped, NEW w \in Probers, StageA(w) \/ StageB(w) \/ StageC(w)
  PROVE  /\ UNCHANGED <<vars, runMu>>
         /\ \/ probe[w].at = "ingest" /\ pc[w] = "idle" /\ probe'[w].at \in {"route", "cleanup"}
            \/ probe[w].at = "route" /\ probe'[w].at \in {"t2", "cleanup"}
            \/ probe[w].at = "t2" /\ probe'[w].at = "cleanup"
         /\ probe'[w].req = probe[w].req /\ probe'[w].start = probe[w].start
         /\ \A v \in Probers \ {w} : probe'[v] = probe[v]
         /\ ProbeTyped'
<1>0. probe[w].result \in [Stages -> Outcome]
  BY DEF ProbeTyped
<1>1. UNCHANGED <<vars, runMu>>
  BY ZenonT(60) DEF StageA, StageB, StageC, indexVars
<1>2. PICK l \in {"route", "t2", "cleanup"}, r \in [Stages -> Outcome] :
        /\ Goto(w, l, r)
        /\ \/ probe[w].at = "ingest" /\ pc[w] = "idle" /\ l \in {"route", "cleanup"}
           \/ probe[w].at = "route" /\ l \in {"t2", "cleanup"}
           \/ probe[w].at = "t2" /\ l = "cleanup"
  <2>1. CASE StageA(w)
    <3>1. /\ [Untested EXCEPT !["ingest"] = "ok"] \in [Stages -> Outcome]
          /\ [s \in Stages |-> IF s = "ingest" THEN "failed" ELSE "skipped"] \in [Stages -> Outcome]
      BY DEF Untested, Stages, Outcome
    <3> QED BY <2>1, <3>1, ZenonT(60) DEF StageA
  <2>2. CASE StageB(w)
    <3>1. /\ [probe[w].result EXCEPT !["routing"] = "ok"] \in [Stages -> Outcome]
          /\ [probe[w].result EXCEPT !["routing"] = "failed", !["t2"] = "skipped"] \in [Stages -> Outcome]
      BY <1>0 DEF Stages, Outcome
    <3> QED BY <2>2, <3>1, ZenonT(60) DEF StageB
  <2>3. CASE StageC(w)
    <3>1. \A r \in Outcome : [probe[w].result EXCEPT !["t2"] = r] \in [Stages -> Outcome]
      BY <1>0, ZenonT(60) DEF Stages, Outcome
    <3>2. PICK r \in Outcome : Goto(w, "cleanup", [probe[w].result EXCEPT !["t2"] = r])
      BY <2>3, ZenonT(60) DEF StageC, Outcome
    <3>3. probe[w].at = "t2"
      BY <2>3, ZenonT(60) DEF StageC
    <3> QED BY <3>1, <3>2, <3>3, ZenonT(60)
  <2> QED BY <2>1, <2>2, <2>3, ZenonT(60)
<1>3. l \in ProbeLabel \ {"none"} /\ probe[w].at # "none"
  BY <1>2 DEF ProbeLabel
<1>4. /\ probe'[w].at = l /\ probe'[w].req = probe[w].req /\ probe'[w].start = probe[w].start
      /\ \A v \in Probers \ {w} : probe'[v] = probe[v]
      /\ ProbeTyped'
  BY <1>2, <1>3, GotoFacts, ZenonT(60)
<1> QED BY <1>1, <1>2, <1>4, ZenonT(60)

LEMMA BeginMoves ==
  ASSUME ProbeTyped, clock \in Time, NEW w \in Probers, RunBegin(w)
  PROVE  /\ probe[w].at = "wait" /\ probe'[w].at = "ingest"
         /\ probe'[w].req = probe[w].req /\ probe'[w].start = clock
         /\ \A v \in Probers \ {w} : probe'[v] = probe[v]
         /\ ProbeTyped'
<1>1. probe[w].at = "wait" /\ probe' = [probe EXCEPT ![w] = [@ EXCEPT !.at = "ingest", !.start = clock]]
  BY ZenonT(60) DEF RunBegin, ProbeTyped
<1>2. /\ probe'[w] = [probe[w] EXCEPT !.at = "ingest", !.start = clock]
      /\ \A v \in Probers \ {w} : probe'[v] = probe[v]
  BY <1>1, ZenonT(60) DEF ProbeTyped
<1>3. probe'[w].at = "ingest" /\ probe'[w].req = probe[w].req /\ probe'[w].start = clock
  BY <1>2 DEF ProbeTyped
<1>4. probe' \in [Probers -> [at : ProbeLabel, req : Requests \cup {NoRequest}, start : Time,
                              result : [Stages -> Outcome]]]
  BY <1>1, ZenonT(60) DEF ProbeTyped, ProbeLabel
<1>5. ASSUME NEW v \in Probers, probe'[v].at # "none"
      PROVE  probe'[v].req \in Requests /\ probe'[v].req.hashScheme # NoScheme
  <2>1. CASE v = w
    BY <1>1, <1>3, <2>1 DEF ProbeTyped
  <2>2. CASE v # w
    BY <1>2, <1>5, <2>2 DEF ProbeTyped
  <2> QED BY <2>1, <2>2
<1> QED BY <1>1, <1>2, <1>3, <1>4, <1>5, ZenonT(60) DEF ProbeTyped

LEMMA CleanupMoves ==
  ASSUME ProbeTyped, NEW w \in Probers, Cleanup(w)
  PROVE  /\ probe[w].at = "cleanup" /\ probe'[w].at = "clearing"
         /\ probe'[w].req = probe[w].req /\ probe'[w].start = probe[w].start
         /\ \A v \in Probers \ {w} : probe'[v] = probe[v]
         /\ ProbeTyped' /\ UNCHANGED runMu
<1>1. Goto(w, "clearing", probe[w].result) /\ probe[w].at = "cleanup" /\ UNCHANGED runMu
  BY DEF Cleanup
<1>2. probe[w].result \in [Stages -> Outcome] /\ "clearing" \in ProbeLabel \ {"none"}
  BY ZenonT(60) DEF ProbeTyped, ProbeLabel
<1> QED BY <1>1, <1>2, GotoFacts, ZenonT(60)

(* A body is taken, or a run returns: the prober's record starts anew.     *)
LEMMA RestMoves ==
  ASSUME ProbeTyped, NEW w \in Probers, probeHandler(w) \/ RunReturn(w)
  PROVE  /\ UNCHANGED vars
         /\ \/ /\ UNCHANGED <<probe, runMu>>
            \/ /\ probe[w].at = "none" /\ probe'[w].at = "wait" /\ UNCHANGED runMu
               /\ \A v \in Probers \ {w} : probe'[v] = probe[v]
            \/ /\ probe[w].at = "clearing" /\ pc[w] = "idle" /\ probe'[w].at = "none"
               /\ runMu' = runMu \ {lockForRun(probe[w].req)}
               /\ \A v \in Probers \ {w} : probe'[v] = probe[v]
         /\ ProbeTyped'
<1>0. /\ Resting.at = "none" /\ Resting.req = NoRequest /\ Resting.start = 0
      /\ Resting.result \in [Stages -> Outcome]
      /\ DOMAIN Resting = {"at", "req", "start", "result"}
  BY DEF Outcome, Resting, Untested, ZeroTime
<1>1. UNCHANGED vars
  BY ZenonT(60) DEF probeHandler, RunReturn, indexVars
<1>2. CASE UNCHANGED <<probe, runMu>>
  BY <1>1, <1>2, ZenonT(60) DEF ProbeTyped
<1>3. ASSUME NEW q \in Requests, q.hashScheme # NoScheme, probe[w].at = "none", UNCHANGED runMu,
             probe' = [probe EXCEPT ![w] = [Resting EXCEPT !.at = "wait", !.req = q]]
      PROVE  /\ probe'[w].at = "wait" /\ \A v \in Probers \ {w} : probe'[v] = probe[v]
             /\ ProbeTyped'
  <2> DEFINE new == [Resting EXCEPT !.at = "wait", !.req = q]
  <2>1. /\ new.at = "wait" /\ new.req = q
        /\ new \in [at : ProbeLabel, req : Requests \cup {NoRequest}, start : Time,
                    result : [Stages -> Outcome]]
    BY <1>3, ZenonT(60) DEF Outcome, Resting, Untested, ZeroTime, ProbeLabel, Time
  <2> HIDE DEF new
  <2>2. probe'[w] = new /\ \A v \in Probers \ {w} : probe'[v] = probe[v]
    BY <1>3, ZenonT(60) DEF ProbeTyped, new
  <2>3. probe' \in [Probers -> [at : ProbeLabel, req : Requests \cup {NoRequest}, start : Time,
                                result : [Stages -> Outcome]]]
    BY <1>3, <2>1, ZenonT(60) DEF ProbeTyped, new
  <2>4. ASSUME NEW v \in Probers, probe'[v].at # "none"
        PROVE  probe'[v].req \in Requests /\ probe'[v].req.hashScheme # NoScheme
    <3>1. CASE v = w
      BY <1>3, <2>1, <2>2, <3>1, ZenonT(60)
    <3>2. CASE v # w
      BY <2>2, <2>4, <3>2, ZenonT(60) DEF ProbeTyped
    <3> QED BY <3>1, <3>2
  <2> QED BY <2>1, <2>2, <2>3, <2>4, ZenonT(60) DEF ProbeTyped
<1>4. CASE RunReturn(w)
  <2>1. /\ probe[w].at = "clearing" /\ pc[w] = "idle" /\ runMu' = runMu \ {lockForRun(probe[w].req)}
        /\ probe' = [probe EXCEPT ![w] = Resting]
    BY <1>4 DEF RunReturn
  <2>2. probe'[w] = Resting /\ \A v \in Probers \ {w} : probe'[v] = probe[v]
    BY <2>1, ZenonT(60) DEF ProbeTyped
  <2>3. Resting \in [at : ProbeLabel, req : Requests \cup {NoRequest}, start : Time,
                     result : [Stages -> Outcome]]
    BY DEF Outcome, Resting, Untested, ZeroTime, ProbeLabel, Time
  <2>4. probe' \in [Probers -> [at : ProbeLabel, req : Requests \cup {NoRequest}, start : Time,
                                result : [Stages -> Outcome]]]
    BY <2>1, <2>3, ZenonT(60) DEF ProbeTyped
  <2>5. ASSUME NEW v \in Probers, probe'[v].at # "none"
        PROVE  probe'[v].req \in Requests /\ probe'[v].req.hashScheme # NoScheme
    <3>1. v # w
      BY <1>0, <2>2, <2>5, ZenonT(60)
    <3> QED BY <2>2, <2>5, <3>1, ZenonT(60) DEF ProbeTyped
  <2>6. ProbeTyped'
    BY <2>4, <2>5, ZenonT(60) DEF ProbeTyped
  <2> QED BY <1>0, <1>1, <2>1, <2>2, <2>6, ZenonT(60)
<1>5. CASE probeHandler(w)
  <2>1. PICK q \in Requests :
          IF q.hashScheme = NoScheme
          THEN call' = [call EXCEPT ![w] = Waiting] /\ UNCHANGED probe
          ELSE probe' = [probe EXCEPT ![w] = [Resting EXCEPT !.at = "wait", !.req = q]] /\ UNCHANGED call
    BY <1>5, ZenonT(60) DEF probeHandler
  <2>2. probe[w].at = "none" /\ UNCHANGED runMu
    BY <1>5, ZenonT(60) DEF probeHandler
  <2>3. CASE q.hashScheme = NoScheme
    BY <1>2, <1>1, <2>1, <2>2, <2>3, ZenonT(60)
  <2>4. CASE q.hashScheme # NoScheme
    <3>1. /\ probe'[w].at = "wait" /\ \A v \in Probers \ {w} : probe'[v] = probe[v]
          /\ ProbeTyped'
      BY <1>3, <2>1, <2>2, <2>4, ZenonT(60)
    <3> QED BY <1>1, <2>2, <3>1, ZenonT(60)
  <2> QED BY <2>3, <2>4, ZenonT(60)
<1> QED BY <1>4, <1>5, ZenonT(60)

(* The kinds of step there are.                                            *)
LEMMA StepKinds ==
  ASSUME [ProbeNext]_allVars
  PROVE  \/ \E w \in Worker \ Probers : Writers(w)
         \/ \E w \in Worker : IndexStep(w)
         \/ \E w \in Probers : \/ StageA(w) \/ StageB(w) \/ StageC(w)
                               \/ RunBegin(w) \/ Cleanup(w) \/ probeHandler(w) \/ RunReturn(w)
         \/ UNCHANGED <<vars, probe, runMu>>
         \/ (CreditHits \/ ReplaceSnapshot \/ Tick) /\ UNCHANGED <<probe, runMu>>
BY ZenonT(60) DEF ProbeNext, Run, Middleware, Environment, allVars, indexVars, probeVars

LEMMA ProbeTypedStep == ProbeTyped /\ clock \in Time /\ [ProbeNext]_allVars => ProbeTyped'
<1> SUFFICES ASSUME ProbeTyped, clock \in Time, [ProbeNext]_allVars PROVE ProbeTyped'
  OBVIOUS
<1>1. ASSUME UNCHANGED probe PROVE ProbeTyped'
  BY <1>1, ZenonT(60) DEF ProbeTyped
<1>2. ASSUME NEW w \in Probers, \/ StageA(w) \/ StageB(w) \/ StageC(w)
                                \/ RunBegin(w) \/ Cleanup(w) \/ probeHandler(w) \/ RunReturn(w)
      PROVE  ProbeTyped'
  BY <1>2, StageMoves, BeginMoves, CleanupMoves, RestMoves, ZenonT(60)
<1> QED BY <1>1, <1>2, StepKinds, ZenonT(60) DEF Writers, IndexStep, probeVars

(* runMu serialises the runs of a backend and a model.                     *)
LEMMA RunLocksStep == ProbeTyped /\ clock \in Time /\ RunLocks /\ [ProbeNext]_allVars => RunLocks'
<1> SUFFICES ASSUME ProbeTyped, clock \in Time, RunLocks, [ProbeNext]_allVars PROVE RunLocks'
  OBVIOUS
<1>1. ASSUME UNCHANGED <<probe, runMu>> PROVE RunLocks'
  BY <1>1, ZenonT(60) DEF RunLocks, Running, lockForRun
<1>2. ASSUME NEW w \in Probers, UNCHANGED runMu, Running(w)' => Running(w), probe'[w].req = probe[w].req \/ ~Running(w)',
             \A v \in Probers \ {w} : probe'[v] = probe[v]
      PROVE  RunLocks'
  <2>1. \A v \in Probers : Running(v)' => Running(v) /\ probe'[v].req = probe[v].req
    BY <1>2, ZenonT(60) DEF Running
  <2> QED BY <1>2, <2>1, ZenonT(60) DEF RunLocks, lockForRun
<1>3. ASSUME NEW w \in Probers, StageA(w) \/ StageB(w) \/ StageC(w) PROVE RunLocks'
  <2>1. /\ UNCHANGED runMu /\ probe'[w].req = probe[w].req /\ \A v \in Probers \ {w} : probe'[v] = probe[v]
        /\ probe[w].at \in {"ingest", "route", "t2"}
    BY <1>3, StageMoves, ZenonT(60)
  <2> QED BY <1>2, <2>1, ZenonT(60) DEF Running
<1>4. ASSUME NEW w \in Probers, Cleanup(w) PROVE RunLocks'
  <2>1. /\ UNCHANGED runMu /\ probe'[w].req = probe[w].req /\ \A v \in Probers \ {w} : probe'[v] = probe[v]
        /\ probe[w].at = "cleanup"
    BY <1>4, CleanupMoves, ZenonT(60)
  <2> QED BY <1>2, <2>1, ZenonT(60) DEF Running
<1>5. ASSUME NEW w \in Probers, RunBegin(w) PROVE RunLocks'
  <2>1. /\ probe'[w].req = probe[w].req /\ \A v \in Probers \ {w} : probe'[v] = probe[v]
        /\ probe[w].at = "wait"
    BY <1>5, BeginMoves, ZenonT(60)
  <2>2. lockForRun(probe[w].req) \notin runMu /\ runMu' = runMu \cup {lockForRun(probe[w].req)}
    BY <1>5, ZenonT(60) DEF RunBegin
  <2>3. ASSUME NEW v \in Probers, Running(v)', v # w
        PROVE  /\ Running(v) /\ probe'[v] = probe[v] /\ lockForRun(probe[v].req) \in runMu
               /\ lockForRun(probe[v].req) # lockForRun(probe[w].req)
    BY <2>1, <2>2, <2>3, ZenonT(60) DEF RunLocks, Running
  <2>4. ASSUME NEW v \in Probers, Running(v)' PROVE lockForRun(probe'[v].req) \in runMu'
    BY <2>1, <2>2, <2>3, <2>4, ZenonT(60)
  <2>5. ASSUME NEW v \in Probers, NEW u \in Probers, Running(v)', Running(u)',
               lockForRun(probe'[v].req) = lockForRun(probe'[u].req)
        PROVE  u = v
    BY <2>1, <2>3, <2>5, ZenonT(60) DEF RunLocks
  <2> QED BY <2>4, <2>5, ZenonT(60) DEF RunLocks, lockForRun
<1>6. ASSUME NEW w \in Probers, probeHandler(w) \/ RunReturn(w) PROVE RunLocks'
  <2>1. CASE UNCHANGED <<probe, runMu>>
    BY <1>1, <2>1, ZenonT(60)
  <2>2. CASE /\ probe'[w].at = "wait" /\ UNCHANGED runMu /\ \A v \in Probers \ {w} : probe'[v] = probe[v]
    <3>1. ~Running(w)'
      BY <2>2, ZenonT(60) DEF Running
    <3> QED BY <1>2, <2>2, <3>1, ZenonT(60)
  <2>3. CASE /\ probe[w].at = "clearing" /\ probe'[w].at = "none"
             /\ runMu' = runMu \ {lockForRun(probe[w].req)}
             /\ \A v \in Probers \ {w} : probe'[v] = probe[v]
    <3>1. ~Running(w)' /\ Running(w)
      BY <2>3, ZenonT(60) DEF Running
    <3>2. ASSUME NEW v \in Probers, Running(v)'
          PROVE  v # w /\ Running(v) /\ probe'[v] = probe[v] /\ lockForRun(probe[v].req) # lockForRun(probe[w].req)
      BY <2>3, <3>1, <3>2, ZenonT(60) DEF RunLocks, Running
    <3>3. \A v \in Probers : Running(v)' => lockForRun(probe'[v].req) \in runMu'
      BY <2>3, <3>2, ZenonT(60) DEF RunLocks
    <3>4. ASSUME NEW v \in Probers, NEW u \in Probers, Running(v)', Running(u)',
                 lockForRun(probe'[v].req) = lockForRun(probe'[u].req)
          PROVE  v = u
      BY <3>2, <3>4, ZenonT(60) DEF RunLocks
    <3> QED BY <3>3, <3>4, ZenonT(60) DEF RunLocks, lockForRun
  <2> QED BY <1>6, <2>1, <2>2, <2>3, RestMoves, ZenonT(60)
<1> QED BY <1>1, <1>3, <1>4, <1>5, <1>6, StepKinds, ZenonT(60) DEF Writers, IndexStep, probeVars

(* The update a self-test ingests expands to its one key.                  *)
LEMMA ProbeKeys ==
  ASSUME NEW q, q.hashScheme # NoScheme
  PROVE  keysOf(probeUpdate(q)) = {ProbeKey(q)}
<1> DEFINE h == ProbeHash(q.backend, q.model, q.hashScheme)
           p == [adapter |-> NoAdapter, prefixHash |-> EmptyHash, blockTokenCounts |-> 1, blockHashes |-> {h}]
           u == probeUpdate(q)
<1>1. /\ u.prefixes = {p} /\ u.tenant = ProbeTenantID /\ u.model = q.model
      /\ u.hashScheme = q.hashScheme /\ u.adapter = NoAdapter
  BY DEF probeUpdate
<1>2. Cardinality({h}) = 1
  BY FS_Singleton, ZenonT(60)
<1>3. /\ p.adapter = NoAdapter /\ p.prefixHash = EmptyHash /\ p.blockTokenCounts = 1 /\ p.blockHashes = {h}
  BY ZenonT(60)
<1>4. expand(p) = {h}
  <2>1. expand(p) = {h} \cup ({EmptyHash} \ {EmptyHash})
    BY <1>2, <1>3, ZenonT(60) DEF expand
  <2> QED BY <2>1
<1>5. partition(u, p) = NoAdapter
  BY <1>1, <1>3, ZenonT(60) DEF partition
<1> HIDE DEF p, u, h
<1>6. keysOf(u) = UNION {{[tenant |-> u.tenant, model |-> u.model, hashScheme |-> u.hashScheme,
                           adapter |-> partition(u, y), prefixHash |-> g] : g \in expand(y)} : y \in {p}}
  BY <1>1, ZenonT(60) DEF keysOf
<1>7. keysOf(u) = {[tenant |-> u.tenant, model |-> u.model, hashScheme |-> u.hashScheme,
                    adapter |-> partition(u, p), prefixHash |-> h]}
  BY <1>4, <1>6
<1> QED BY <1>1, <1>5, <1>7, ZenonT(60) DEF ProbeKey, u, h

(* What the two calls of a run ask for. *)
LEMMA RequestFields ==
  ASSUME NEW q
  PROVE  /\ probeUpdate(q).tenant = ProbeTenantID /\ probeUpdate(q).model = q.model
         /\ probeUpdate(q).replica = ProbeReplicaID(q.backend)
         /\ cleanup(q).tenant = ProbeTenantID /\ cleanup(q).model = q.model
         /\ cleanup(q).replica = ProbeReplicaID(q.backend) /\ cleanup(q).type = "cleared"
<1>1. /\ probeUpdate(q).tenant = ProbeTenantID /\ probeUpdate(q).model = q.model
      /\ probeUpdate(q).replica = ProbeReplicaID(q.backend)
  BY ZenonT(60) DEF probeUpdate
<1>2. /\ cleanup(q).tenant = ProbeTenantID /\ cleanup(q).model = q.model
      /\ cleanup(q).replica = ProbeReplicaID(q.backend) /\ cleanup(q).type = "cleared"
  BY ZenonT(60) DEF cleanup
<1> QED BY <1>1, <1>2, ZenonT(60)

LEMMA DefaultNat == DefaultTTL \in Nat
BY BoundAssumption

(* What a run asks of the index.                                           *)
LEMMA BeginAsks ==
  ASSUME Books, ProbeTyped, NEW w \in Probers, RunBegin(w)
  PROVE  /\ pc[w] = "idle" /\ pc'[w] = "ingest"
         /\ \A v \in Worker \ {w} : pc'[v] = pc[v] /\ request'[v] = request[v] /\ now'[v] = now[v] /\ quota'[v] = quota[v]
         /\ request'[w] = probeUpdate(probe[w].req) /\ now'[w] = clock /\ quota'[w] = NoQuota
         /\ UNCHANGED <<entries, stats, todo, doomed, clock, policy>>
<1>0. /\ pc \in [Worker -> Label] /\ now \in [Worker -> Time] /\ quota \in [Worker -> Nat \cup {NoQuota}]
      /\ request \in [Worker -> Updates \cup Events \cup {NoRequest}] /\ policy \in Policies /\ w \in Worker
  BY ProbeAssumption, ZenonT(60) DEF Books, TypeOK, ControlTypeOK
<1>1. IngestBegin(w) /\ request'[w] = probeUpdate(probe[w].req)
  BY DEF RunBegin
<1>2. PICK u \in Updates : /\ request' = [request EXCEPT ![w] = u]
                           /\ now' = [now EXCEPT ![w] = orNow(u.timestamp)]
                           /\ quota' = [quota EXCEPT ![w] = tenantQuotaFor(u.tenant)]
  BY <1>1, ZenonT(60) DEF IngestBegin
<1>3. u = probeUpdate(probe[w].req)
  BY <1>0, <1>1, <1>2, ZenonT(60)
<1>4. u.timestamp = clock /\ u.tenant = ProbeTenantID
  BY <1>3 DEF probeUpdate
<1>5. now'[w] = clock
  BY <1>0, <1>2, <1>4, ZenonT(60) DEF orNow
<1>6. quota'[w] = NoQuota
  BY <1>0, <1>2, <1>4, ReservedAssumption, ZenonT(60) DEF tenantQuotaFor
<1>7. /\ pc[w] = "idle" /\ pc' = [pc EXCEPT ![w] = "ingest"]
      /\ UNCHANGED <<entries, stats, todo, doomed, clock, policy>>
  BY <1>1, ZenonT(60) DEF IngestBegin, goto, dataVars, statsVars, envVars
<1> QED BY <1>0, <1>1, <1>2, <1>5, <1>6, <1>7, ZenonT(60)

LEMMA CleanupAsks ==
  ASSUME Books, ProbeTyped, NEW w \in Probers, Cleanup(w)
  PROVE  /\ pc[w] = "idle" /\ pc'[w] = "event"
         /\ \A v \in Worker \ {w} : pc'[v] = pc[v] /\ request'[v] = request[v] /\ now'[v] = now[v] /\ quota'[v] = quota[v]
         /\ request'[w] = cleanup(probe[w].req)
         /\ UNCHANGED <<entries, stats, todo, doomed, clock, policy>>
<1>0. /\ pc \in [Worker -> Label] /\ now \in [Worker -> Time]
      /\ request \in [Worker -> Updates \cup Events \cup {NoRequest}] /\ w \in Worker
  BY ProbeAssumption, ZenonT(60) DEF Books, TypeOK, ControlTypeOK
<1>1. EventBegin(w) /\ request'[w] = cleanup(probe[w].req)
  BY DEF Cleanup
<1>2. PICK u \in Events : request' = [request EXCEPT ![w] = u] /\ now' = [now EXCEPT ![w] = orNow(u.timestamp)]
  BY <1>1, ZenonT(60) DEF EventBegin
<1>3. /\ pc[w] = "idle" /\ pc' = [pc EXCEPT ![w] = "event"]
      /\ UNCHANGED <<entries, stats, todo, doomed, clock, policy, quota>>
  BY <1>1, ZenonT(60) DEF EventBegin, goto, dataVars, statsVars, envVars
<1> QED BY <1>0, <1>1, <1>2, <1>3, ZenonT(60)

LEMMA WriterAsks ==
  ASSUME Books, NEW w \in Worker \ Probers, Writers(w)
  PROVE  /\ pc[w] = "idle" /\ pc'[w] \in {"ingest", "event", "sweep"}
         /\ \A v \in Worker \ {w} : pc'[v] = pc[v] /\ request'[v] = request[v] /\ now'[v] = now[v] /\ quota'[v] = quota[v]
         /\ pc'[w] # "sweep" => request'[w].tenant # ProbeTenantID /\ w # Sweeper
         /\ w = Sweeper => now'[w] = clock
         /\ UNCHANGED <<entries, stats, todo, doomed, clock, policy, probe, runMu>>
<1>0. /\ pc \in [Worker -> Label] /\ now \in [Worker -> Time] /\ quota \in [Worker -> Nat \cup {NoQuota}]
      /\ request \in [Worker -> Updates \cup Events \cup {NoRequest}]
  BY ZenonT(60) DEF Books, TypeOK, ControlTypeOK
<1>1. UNCHANGED <<probe, runMu>>
  BY DEF Writers, probeVars
<1>2. UNCHANGED <<entries, stats, todo, doomed, clock, policy>>
  BY ZenonT(60) DEF Writers, IngestBegin, EventBegin, SweepBegin, dataVars, statsVars, envVars
<1>3. CASE IngestBegin(w) /\ request'[w].tenant # ProbeTenantID
  <2>1. PICK u \in Updates : /\ request' = [request EXCEPT ![w] = u]
                             /\ now' = [now EXCEPT ![w] = orNow(u.timestamp)]
                             /\ quota' = [quota EXCEPT ![w] = tenantQuotaFor(u.tenant)]
    BY <1>3, ZenonT(60) DEF IngestBegin
  <2>2. w # Sweeper /\ pc[w] = "idle" /\ pc' = [pc EXCEPT ![w] = "ingest"]
    BY <1>3, ZenonT(60) DEF IngestBegin, goto
  <2> QED BY <1>0, <1>1, <1>2, <1>3, <2>1, <2>2, ZenonT(60)
<1>4. CASE EventBegin(w) /\ request'[w].tenant # ProbeTenantID
  <2>1. PICK u \in Events : request' = [request EXCEPT ![w] = u] /\ now' = [now EXCEPT ![w] = orNow(u.timestamp)]
    BY <1>4, ZenonT(60) DEF EventBegin
  <2>2. w # Sweeper /\ pc[w] = "idle" /\ pc' = [pc EXCEPT ![w] = "event"] /\ UNCHANGED quota
    BY <1>4, ZenonT(60) DEF EventBegin, goto
  <2> QED BY <1>0, <1>1, <1>2, <1>4, <2>1, <2>2, ZenonT(60)
<1>5. CASE SweepBegin(w)
  <2>1. /\ pc[w] = "idle" /\ pc' = [pc EXCEPT ![w] = "sweep"] /\ now' = [now EXCEPT ![w] = clock]
        /\ UNCHANGED <<request, quota>>
    BY <1>5, ZenonT(60) DEF SweepBegin, goto
  <2> QED BY <1>0, <1>1, <1>2, <2>1, ZenonT(60)
<1> QED BY <1>3, <1>4, <1>5, ZenonT(60) DEF Writers

LEMMA CallsInit == ProbeInit => ProbeTyped /\ RunLocks /\ CallsOK
<1> SUFFICES ASSUME ProbeInit PROVE ProbeTyped /\ RunLocks /\ CallsOK
  OBVIOUS
<1>1. /\ probe = [w \in Probers |-> Resting] /\ pc = [w \in Worker |-> "idle"] /\ clock = 1
      /\ now = [w \in Worker |-> ZeroTime]
  BY ZenonT(60) DEF ProbeInit, AtRest, Init
<1>2. Resting \in [at : ProbeLabel, req : Requests \cup {NoRequest}, start : Time,
                   result : [Stages -> Outcome]] /\ Resting.at = "none"
  BY DEF Outcome, Resting, Untested, ZeroTime, ProbeLabel, Time
<1>3. ProbeTyped
  BY <1>1, <1>2, ZenonT(60) DEF ProbeTyped
<1>4. \A w \in Probers : probe[w].at = "none" /\ pc[w] = "idle"
  BY <1>1, <1>2, ProbeAssumption, ZenonT(60)
<1>5. RunLocks
  BY <1>4, ZenonT(60) DEF RunLocks, Running
<1>6. clock > 0 /\ now[Sweeper] <= clock
  BY <1>1, WorkerAssumption DEF ZeroTime
<1>7. \A w \in Probers : ProberCall(w)
  BY <1>4 DEF ProberCall, Ingesting, Clearing
<1>8. \A w \in Worker : pc[w] = "idle"
  BY <1>1, ZenonT(60)
<1>9. \A w \in Worker \ Probers : OtherCall(w)
  BY <1>8, ZenonT(60) DEF OtherCall, Ingesting
<1> QED BY <1>3, <1>5, <1>6, <1>7, <1>8, <1>9, ZenonT(60) DEF CallsOK

(* Every prober's call serves its own run; nobody else's names the         *)
(* reserved tenant.                                                        *)
LEMMA CallsStep == RunInv /\ [ProbeNext]_allVars => CallsOK'
<1> SUFFICES ASSUME RunInv, [ProbeNext]_allVars PROVE CallsOK'
  OBVIOUS
<1>0. /\ Books /\ DoomInv /\ ProbeTyped /\ CallsOK /\ clock \in Nat /\ Probers \subseteq Worker
      /\ now \in [Worker -> Nat] /\ Sweeper \in Worker /\ Sweeper \notin Probers
  BY ProbeAssumption, WorkerAssumption, ZenonT(60) DEF RunInv, Books, TypeOK, ControlTypeOK, Time
<1> DEFINE Timely == clock' > 0 /\ now'[Sweeper] <= clock'
           Doing == \A w \in Worker : pc'[w] = "upsert" => todo' \subseteq keysOf(request'[w])
<1>1. ASSUME \A v \in Probers : ProberCall(v)', \A v \in Worker \ Probers : OtherCall(v)', Doing, Timely PROVE CallsOK'
  BY <1>1, ZenonT(60) DEF CallsOK, keysOf
<1>2. ASSUME NEW v \in Probers, UNCHANGED <<pc[v], request[v], now[v], quota[v], probe[v]>> PROVE ProberCall(v)'
  <2>1. keysOf(request[v])' = keysOf(request'[v]) /\ ProbeKey(probe[v].req)' = ProbeKey(probe'[v].req)
    BY ZenonT(60) DEF keysOf, ProbeKey
  <2>2. keysOf(request[v])' = keysOf(request[v]) /\ ProbeKey(probe[v].req)' = ProbeKey(probe[v].req)
    BY <1>2, <2>1, ZenonT(60)
  <2> QED BY <1>0, <1>2, <2>2, ZenonT(60) DEF CallsOK, ProberCall, Serves
<1>3. ASSUME NEW v \in Worker \ Probers, UNCHANGED <<pc[v], request[v]>> PROVE OtherCall(v)'
  BY <1>0, <1>3, ZenonT(60) DEF CallsOK, OtherCall
<1>4. ASSUME NEW v \in Worker, UNCHANGED <<pc[v], request[v], todo>>, pc'[v] = "upsert"
      PROVE  todo' \subseteq keysOf(request'[v])
  BY <1>0, <1>4, ZenonT(60) DEF CallsOK
<1>5. ASSUME NEW w \in Worker, IndexStep(w) PROVE CallsOK'
  <2>1. Step(w) /\ UNCHANGED <<probe, runMu>>
    BY <1>5, ZenonT(60) DEF IndexStep, probeVars
  <2>2. /\ \A v \in Worker \ {w} : /\ pc'[v] = pc[v] /\ request'[v] = request[v]
                                   /\ now'[v] = now[v] /\ quota'[v] = quota[v]
        /\ UNCHANGED envVars
        /\ \/ /\ request'[w] = request[w] /\ now'[w] = now[w] /\ quota'[w] = quota[w]
              /\ \/ pc[w] \in Ingesting /\ pc'[w] \in {"upsert", "quota", "cap"}
                 \/ pc[w] \in Clearing \cup {"sweep"} /\ pc'[w] = "remove"
                 \/ pc[w] \in Returning \ {"idle"} /\ pc'[w] \in Returning
           \/ pc[w] \in {"cap", "remove"} /\ pc'[w] = "report" /\ now'[w] = ZeroTime
    BY <1>0, <2>1, StepMoves, ZenonT(60)
  <2>3. Timely
    <3>1. now'[Sweeper] = now[Sweeper] \/ now'[Sweeper] = 0
      BY <1>0, <2>2, ZenonT(60) DEF ZeroTime
    <3>2. clock' = clock
      BY <2>2, ZenonT(60) DEF envVars
    <3> QED BY <1>0, <3>1, <3>2 DEF CallsOK
  <2>4. Doing
    <3> SUFFICES ASSUME NEW v \in Worker, pc'[v] = "upsert" PROVE todo' \subseteq keysOf(request'[v])
      BY ZenonT(60)
    <3>1. CASE v # w
      <4>1. pc[v] = "upsert" /\ request'[v] = request[v]
        BY <2>2, <3>1, ZenonT(60)
      <4>2. UNCHANGED todo
        BY <1>0, <2>1, <3>1, <4>1, SetsAreHolders, ZenonT(60) DEF Critical
      <4> QED BY <1>0, <4>1, <4>2, ZenonT(60) DEF CallsOK
    <3>2. CASE v = w
      <4>1. CASE IngestLock(w)
        BY <3>2, <4>1, ZenonT(60) DEF IngestLock, localVars
      <4>2. CASE IngestUpsert(w)
        <5>1. todo' \subseteq todo /\ request' = request /\ pc[w] = "upsert"
          BY <4>2, ZenonT(60) DEF IngestUpsert, localVars
        <5> QED BY <1>0, <3>2, <5>1, ZenonT(60) DEF CallsOK
      <4>3. CASE ~IngestLock(w) /\ ~IngestUpsert(w)
        <5>1. pc'[w] # "upsert"
          BY <1>0, <2>1, <4>3, ZenonT(60) DEF Step, IngestStats, evictOldestForTenantLocked, QuotaDone,
               enforceCapLocked, IngestUnlock, EventLock, SweepLock, RemoveDoomed, RemoveUnlock, ReportLock,
               ReportCount, ReportPublish, lock, unlock, goto, Books, TypeOK, ControlTypeOK
        <5> QED BY <3>2, <5>1, ZenonT(60)
      <4> QED BY <4>1, <4>2, <4>3, ZenonT(60)
    <3> QED BY <3>1, <3>2
  <2>5. ASSUME NEW v \in Probers PROVE ProberCall(v)'
    <3>1. CASE v # w
      BY <1>0, <1>2, <2>1, <2>2, <3>1, ZenonT(60)
    <3>2. CASE v = w
      <4>1. pc[v] # "idle" /\ pc[v] # "sweep"
        BY <1>0, <2>2, <3>2, ZenonT(60) DEF DoomInv, Ingesting, Clearing, Returning
      <4>2. ProberCall(v) /\ probe' = probe
        BY <1>0, <2>1, ZenonT(60) DEF CallsOK
      <4>3. CASE pc'[v] \in Returning
        <5>1. pc'[v] \notin Ingesting /\ pc'[v] \notin Clearing
          BY <4>3, ZenonT(60) DEF Ingesting, Clearing, Returning
        <5> QED BY <4>1, <4>2, <4>3, <5>1, ZenonT(60) DEF ProberCall
      <4>4. CASE pc[v] \in Ingesting /\ pc'[v] \in {"upsert", "quota", "cap"} /\ request'[v] = request[v]
                   /\ now'[v] = now[v] /\ quota'[v] = quota[v]
        <5>1. /\ Serves(v) /\ keysOf(request[v]) = {ProbeKey(probe[v].req)} /\ now[v] = probe[v].start
              /\ quota[v] = NoQuota /\ probe[v].at \in {"ingest", "clearing"} /\ pc[v] \notin Clearing \cup Returning
              /\ pc'[v] \in Ingesting /\ pc'[v] \notin Clearing
          BY <4>2, <4>4, ZenonT(60) DEF ProberCall, Ingesting, Clearing, Returning
        <5>2. probe[v].at = "ingest"
          BY <4>2, <5>1, ZenonT(60) DEF ProberCall
        <5>3. keysOf(request[v])' = keysOf(request'[v]) /\ ProbeKey(probe[v].req)' = ProbeKey(probe'[v].req)
          BY ZenonT(60) DEF keysOf, ProbeKey
        <5>4. keysOf(request[v])' = keysOf(request[v]) /\ ProbeKey(probe[v].req)' = ProbeKey(probe[v].req)
          BY <4>2, <4>4, <5>3, ZenonT(60)
        <5> QED BY <4>2, <4>4, <5>1, <5>2, <5>4, ZenonT(60) DEF ProberCall, Serves
      <4>5. CASE pc[v] \in Clearing /\ pc'[v] = "remove" /\ request'[v] = request[v]
        <5>1. /\ Serves(v) /\ request[v].type = "cleared" /\ probe[v].at \in {"ingest", "clearing"}
              /\ pc[v] \notin Ingesting \cup Returning /\ pc'[v] \in Clearing /\ pc'[v] \notin Ingesting
          BY <4>2, <4>5, ZenonT(60) DEF ProberCall, Ingesting, Clearing, Returning
        <5>2. probe[v].at = "clearing"
          BY <4>2, <5>1, ZenonT(60) DEF ProberCall
        <5> QED BY <4>2, <4>5, <5>1, <5>2, ZenonT(60) DEF ProberCall, Serves
      <4>6. "report" \in Returning
        BY DEF Returning
      <4> QED BY <2>2, <3>2, <4>1, <4>3, <4>4, <4>5, <4>6, ZenonT(60)
    <3> QED BY <3>1, <3>2
  <2>6. ASSUME NEW v \in Worker \ Probers PROVE OtherCall(v)'
    <3>1. CASE v # w
      BY <1>3, <2>2, <3>1, ZenonT(60)
    <3>2. CASE v = w
      <4>1. OtherCall(v) /\ (pc[v] = "sweep" => v = Sweeper)
        BY <1>0, ZenonT(60) DEF CallsOK, DoomInv
      <4>2. CASE pc'[v] \in Returning
        BY <4>2, ZenonT(60) DEF OtherCall, Ingesting, Returning
      <4>3. CASE /\ request'[v] = request[v]
                 /\ \/ pc[v] \in Ingesting /\ pc'[v] \in {"upsert", "quota", "cap"}
                    \/ pc[v] \in Clearing \cup {"sweep"} /\ pc'[v] = "remove"
        BY <4>1, <4>3, ZenonT(60) DEF OtherCall, Ingesting, Clearing
      <4>4. "report" \in Returning
        BY ZenonT(60) DEF Returning
      <4> QED BY <2>2, <3>2, <4>2, <4>3, <4>4, ZenonT(60)
    <3> QED BY <3>1, <3>2, ZenonT(60)
  <2> QED BY <1>1, <2>3, <2>4, <2>5, <2>6, ZenonT(60)
<1>6. ASSUME NEW w \in Worker \ Probers, Writers(w) PROVE CallsOK'
  <2>1. /\ pc[w] = "idle" /\ pc'[w] \in {"ingest", "event", "sweep"}
        /\ \A v \in Worker \ {w} : pc'[v] = pc[v] /\ request'[v] = request[v] /\ now'[v] = now[v] /\ quota'[v] = quota[v]
        /\ pc'[w] # "sweep" => request'[w].tenant # ProbeTenantID /\ w # Sweeper
        /\ w = Sweeper => now'[w] = clock
        /\ UNCHANGED <<todo, clock, probe>>
    BY <1>0, <1>6, WriterAsks, ZenonT(60)
  <2>2. Timely
    <3>1. now'[Sweeper] = now[Sweeper] \/ now'[Sweeper] = clock
      BY <1>0, <2>1, ZenonT(60)
    <3> QED BY <1>0, <2>1, <3>1 DEF CallsOK
  <2>3. Doing
    BY <1>4, <2>1, ZenonT(60)
  <2>4. \A v \in Probers : ProberCall(v)'
    BY <1>0, <1>2, <1>6, <2>1, ZenonT(60)
  <2>5. OtherCall(w)'
    BY <2>1, ZenonT(60) DEF OtherCall, Ingesting
  <2>6. \A v \in Worker \ Probers : OtherCall(v)'
    BY <1>3, <2>1, <2>5, ZenonT(60)
  <2> QED BY <1>1, <2>2, <2>3, <2>4, <2>6, ZenonT(60)
<1>7. ASSUME NEW w \in Probers, RunBegin(w) PROVE CallsOK'
  <2>1. /\ pc[w] = "idle" /\ pc'[w] = "ingest"
        /\ \A v \in Worker \ {w} : pc'[v] = pc[v] /\ request'[v] = request[v] /\ now'[v] = now[v] /\ quota'[v] = quota[v]
        /\ request'[w] = probeUpdate(probe[w].req) /\ now'[w] = clock /\ quota'[w] = NoQuota
        /\ UNCHANGED <<todo, clock>>
    BY <1>0, <1>7, BeginAsks, ZenonT(60)
  <2>2. /\ probe[w].at = "wait" /\ probe'[w].at = "ingest"
        /\ probe'[w].req = probe[w].req /\ probe'[w].start = clock
        /\ \A v \in Probers \ {w} : probe'[v] = probe[v]
    BY <1>0, <1>7, BeginMoves, ZenonT(60) DEF Time
  <2>3. Timely
    <3>1. now'[Sweeper] = now[Sweeper]
      BY <1>0, <2>1, ZenonT(60)
    <3> QED BY <1>0, <2>1, <3>1, ZenonT(60) DEF CallsOK
  <2>4. Doing
    BY <1>4, <2>1, ZenonT(60)
  <2>5. ProberCall(w)'
    <3>1. probe[w].req.hashScheme # NoScheme
      BY <1>0, <2>2, ZenonT(60) DEF ProbeTyped
    <3>2. keysOf(request'[w]) = {ProbeKey(probe'[w].req)}
      BY <2>1, <2>2, <3>1, ProbeKeys, ZenonT(60)
    <3>3. Serves(w)'
      <4>1. /\ request'[w].tenant = ProbeTenantID /\ request'[w].model = probe[w].req.model
            /\ request'[w].replica = ProbeReplicaID(probe[w].req.backend)
        BY <2>1, RequestFields, ZenonT(60)
      <4> QED BY <2>2, <4>1, ZenonT(60) DEF Serves
    <3>4. pc'[w] \in Ingesting /\ pc'[w] \notin Clearing
      BY <2>1 DEF Ingesting, Clearing
    <3> QED BY <2>1, <2>2, <3>2, <3>3, <3>4, ZenonT(60) DEF ProberCall, keysOf, ProbeKey, expand, partition
  <2>6. \A v \in Probers : ProberCall(v)'
    BY <1>0, <1>2, <2>1, <2>2, <2>5, ZenonT(60)
  <2>7. \A v \in Worker \ Probers : OtherCall(v)'
    BY <1>3, <2>1, ZenonT(60)
  <2> QED BY <1>1, <2>3, <2>4, <2>6, <2>7, ZenonT(60)
<1>8. ASSUME NEW w \in Probers, Cleanup(w) PROVE CallsOK'
  <2>1. /\ pc[w] = "idle" /\ pc'[w] = "event"
        /\ \A v \in Worker \ {w} : pc'[v] = pc[v] /\ request'[v] = request[v] /\ now'[v] = now[v] /\ quota'[v] = quota[v]
        /\ request'[w] = cleanup(probe[w].req)
        /\ UNCHANGED <<todo, clock>>
    BY <1>0, <1>8, CleanupAsks, ZenonT(60)
  <2>2. /\ probe'[w].at = "clearing" /\ probe'[w].req = probe[w].req
        /\ \A v \in Probers \ {w} : probe'[v] = probe[v]
    BY <1>0, <1>8, CleanupMoves, ZenonT(60)
  <2>3. Timely
    <3>1. now'[Sweeper] = now[Sweeper]
      BY <1>0, <2>1, ZenonT(60)
    <3> QED BY <1>0, <2>1, <3>1, ZenonT(60) DEF CallsOK
  <2>4. Doing
    BY <1>4, <2>1, ZenonT(60)
  <2>5. ProberCall(w)'
    <3>1. Serves(w)' /\ request'[w].type = "cleared"
      <4>1. /\ request'[w].tenant = ProbeTenantID /\ request'[w].model = probe[w].req.model
            /\ request'[w].replica = ProbeReplicaID(probe[w].req.backend) /\ request'[w].type = "cleared"
        BY <2>1, RequestFields, ZenonT(60)
      <4> QED BY <2>2, <4>1, ZenonT(60) DEF Serves
    <3>2. pc'[w] \in Clearing /\ pc'[w] \notin Ingesting
      BY <2>1 DEF Ingesting, Clearing
    <3> QED BY <2>2, <3>1, <3>2, ZenonT(60) DEF ProberCall
  <2>6. \A v \in Probers : ProberCall(v)'
    BY <1>0, <1>2, <2>1, <2>2, <2>5, ZenonT(60)
  <2>7. \A v \in Worker \ Probers : OtherCall(v)'
    BY <1>3, <2>1, ZenonT(60)
  <2> QED BY <1>1, <2>3, <2>4, <2>6, <2>7
<1>9. ASSUME UNCHANGED <<pc, request, now, quota, todo>>, clock' = clock \/ clock' = clock + 1,
             \A v \in Probers : probe'[v] = probe[v] \/ (pc[v] = "idle" /\ probe'[v].at \notin {"ingest", "clearing"})
      PROVE  CallsOK'
  <2>1. Timely
    BY <1>0, <1>9 DEF CallsOK
  <2>2. ASSUME NEW v \in Probers PROVE ProberCall(v)'
    <3>1. CASE probe'[v] = probe[v]
      BY <1>2, <1>9, <3>1, ZenonT(60)
    <3>2. CASE pc[v] = "idle" /\ probe'[v].at \notin {"ingest", "clearing"}
      BY <1>9, <3>2, ZenonT(60) DEF ProberCall, Ingesting, Clearing
    <3> QED BY <1>9, <3>1, <3>2, ZenonT(60)
  <2>3. Doing
    BY <1>4, <1>9, ZenonT(60)
  <2>4. \A v \in Worker \ Probers : OtherCall(v)'
    BY <1>3, <1>9, ZenonT(60)
  <2> QED BY <1>1, <2>1, <2>2, <2>3, <2>4, ZenonT(60)
<1>10. ASSUME NEW w \in Probers, StageA(w) \/ StageB(w) \/ StageC(w) \/ probeHandler(w) \/ RunReturn(w)
       PROVE  CallsOK'
  <2>1. UNCHANGED vars
    BY <1>0, <1>10, StageMoves, RestMoves, ZenonT(60)
  <2>2. ASSUME NEW v \in Probers
        PROVE  probe'[v] = probe[v] \/ (pc[v] = "idle" /\ probe'[v].at \notin {"ingest", "clearing"})
    <3>1. CASE v # w
      BY <1>0, <1>10, <3>1, StageMoves, RestMoves, ZenonT(60)
    <3>2. CASE v = w
      <4>1. ProberCall(v)
        BY <1>0, ZenonT(60) DEF CallsOK
      <4>2. CASE StageA(w) \/ StageB(w) \/ StageC(w)
        <5>1. /\ probe'[w].at \in {"route", "t2", "cleanup"}
              /\ probe[w].at \in {"route", "t2"} \/ pc[w] = "idle"
          BY <1>0, <4>2, StageMoves, ZenonT(60)
        <5> QED BY <3>2, <4>1, <5>1, ZenonT(60) DEF ProberCall
      <4>3. CASE probeHandler(w) \/ RunReturn(w)
        <5>1. \/ probe' = probe
              \/ probe'[w].at \in {"wait", "none"} /\ (probe[w].at = "none" \/ pc[w] = "idle")
          BY <1>0, <4>3, RestMoves, ZenonT(60)
        <5> QED BY <3>2, <4>1, <5>1, ZenonT(60) DEF ProberCall
      <4> QED BY <1>10, <4>2, <4>3, ZenonT(60)
    <3> QED BY <3>1, <3>2, ZenonT(60)
  <2> QED BY <1>9, <2>1, <2>2, ZenonT(60) DEF vars, localVars, envVars
<1>11. CASE UNCHANGED <<vars, probe, runMu>>
  BY <1>9, <1>11, ZenonT(60) DEF vars, localVars, envVars
<1>12. CASE (CreditHits \/ ReplaceSnapshot \/ Tick) /\ UNCHANGED <<probe, runMu>>
  BY <1>9, <1>12, ZenonT(60) DEF CreditHits, ReplaceSnapshot, Tick, localVars, envVars
<1> QED BY <1>5, <1>6, <1>7, <1>8, <1>10, <1>11, <1>12, StepKinds, ZenonT(60)

LEMMA RunInvInit == ProbeInit => RunInv
<1>1. ProbeInit => Books
  BY BooksInit, ZenonT(60) DEF ProbeInit
<1>2. ProbeInit => DoomInv
  BY DEF ProbeInit, Init, DoomInv
<1> QED BY <1>1, <1>2, CallsInit, ZenonT(60) DEF RunInv

LEMMA RunInvStep == RunInv /\ [ProbeNext]_allVars => RunInv'
<1> SUFFICES ASSUME RunInv, [ProbeNext]_allVars PROVE RunInv'
  OBVIOUS
<1>1. clock \in Time
  BY DEF RunInv, Books, TypeOK, ControlTypeOK
<1>2. Books' /\ DoomInv'
  BY ProbeStepsIndex, BooksStep, DoomStep, ZenonT(60) DEF RunInv
<1>3. ProbeTyped' /\ RunLocks' /\ CallsOK'
  BY <1>1, ProbeTypedStep, RunLocksStep, CallsStep, ZenonT(60) DEF RunInv
<1> QED BY <1>2, <1>3, ZenonT(60) DEF RunInv

-----------------------------------------------------------------------------
(* Who may touch the entries of a run.                                     *)

(* Two runs that share model and replica share backend, model and lock:    *)
(* they are one.                                                           *)
LEMMA SameRun ==
  ASSUME RunInv, NEW w \in Probers, NEW v \in Probers, Running(w), Running(v),
         probe[w].req.model = probe[v].req.model,
         ProbeReplicaID(probe[w].req.backend) = ProbeReplicaID(probe[v].req.backend)
  PROVE  w = v
<1>1. probe[w].req \in Requests /\ probe[v].req \in Requests
  BY DEF RunInv, ProbeTyped, Running
<1>2. probe[w].req.backend = probe[v].req.backend
  BY <1>1, ReservedAssumption, ZenonT(60)
<1>3. lockForRun(probe[w].req) = lockForRun(probe[v].req)
  BY <1>2, ZenonT(60) DEF lockForRun
<1> QED BY <1>3, ZenonT(60) DEF RunInv, RunLocks

(* A call that names the reserved tenant is a prober's, for its own run.   *)
LEMMA ReservedCall ==
  ASSUME RunInv, NEW w \in Worker, request[w].tenant = ProbeTenantID,
         pc[w] \in Ingesting \cup {"event"} \/ (pc[w] = "remove" /\ w # Sweeper)
  PROVE  /\ w \in Probers /\ Running(w) /\ Serves(w)
         /\ pc[w] \in Ingesting => /\ probe[w].at = "ingest" /\ keysOf(request[w]) = {ProbeKey(probe[w].req)}
                                   /\ now[w] = probe[w].start /\ quota[w] = NoQuota
         /\ pc[w] \in Clearing => probe[w].at = "clearing" /\ request[w].type = "cleared"
<1>1. w \in Probers
  BY ZenonT(60) DEF RunInv, CallsOK, OtherCall
<1>2. ProberCall(w)
  BY <1>1, ZenonT(60) DEF RunInv, CallsOK
<1>3. pc[w] # "idle" /\ pc[w] \in Ingesting \cup Clearing /\ pc[w] \notin Returning
      /\ ~(pc[w] \in Ingesting /\ pc[w] \in Clearing)
  BY DEF Ingesting, Clearing, Returning
<1>4. probe[w].at \in {"ingest", "clearing"}
  BY <1>2, <1>3, ZenonT(60) DEF ProberCall
<1>5. Running(w)
  BY <1>4, ZenonT(60) DEF Running
<1> QED BY <1>1, <1>2, <1>3, <1>4, <1>5, ZenonT(60) DEF ProberCall

(* An upsert under the reserved tenant is the one of the prober's key.     *)
LEMMA ReservedUpsert ==
  ASSUME RunInv, NEW w \in Worker, pc[w] = "upsert", NEW k \in todo, k.tenant = ProbeTenantID
  PROVE  /\ w \in Probers /\ Running(w) /\ Serves(w) /\ probe[w].at = "ingest"
         /\ k = ProbeKey(probe[w].req) /\ k.model = probe[w].req.model /\ now[w] = probe[w].start
<1>1. request[w] \in Updates /\ k \in keysOf(request[w])
  BY ZenonT(60) DEF RunInv, Books, TypeOK, ControlTypeOK, CallsOK
<1>2. request[w].tenant = ProbeTenantID
  BY <1>1, KeysOfUpdate, ZenonT(60)
<1>3. pc[w] \in Ingesting
  BY DEF Ingesting
<1>4. /\ w \in Probers /\ Running(w) /\ Serves(w) /\ probe[w].at = "ingest"
      /\ keysOf(request[w]) = {ProbeKey(probe[w].req)} /\ now[w] = probe[w].start
  BY <1>2, <1>3, ReservedCall, ZenonT(60)
<1>5. k = ProbeKey(probe[w].req)
  BY <1>1, <1>4, ZenonT(60)
<1>6. k.model = probe[w].req.model
  BY <1>5 DEF ProbeKey
<1> QED BY <1>4, <1>5, <1>6, ZenonT(60)

-----------------------------------------------------------------------------
(* No false alarm.  From the upsert to the lookups of Stage A and B the    *)
(* entry a run wrote is there, as old as the run, unless the reserved      *)
(* tenant's TTL has gone by: only the sweep could have taken it.           *)

Written(w) ==
  \/ probe[w].at = "route"
  \/ probe[w].at = "ingest" /\ pc[w] # "ingest" /\ (pc[w] = "upsert" => ProbeKey(probe[w].req) \notin todo)

StillThere(w) ==
  /\ ProbeRef(probe[w].req) \in DOMAIN entries
  /\ entries[ProbeRef(probe[w].req)].lastSeen = probe[w].start

AlarmInv == \A w \in Probers : Written(w) => StillThere(w) \/ clock - probe[w].start >= DefaultTTL

LEMMA ReservedTTL ==
  ASSUME NEW p \in Policies PROVE ttlUnder(p, ProbeTenantID) = DefaultTTL
<1>1. p.ttl[ProbeTenantID] = 0
  BY ReservedAssumption, ZenonT(60)
<1> QED BY <1>1 DEF ttlUnder

(* One step inside an index call. *)
LEMMA AlarmIndexStep ==
  ASSUME RunInv, AlarmInv, NEW w \in Worker, Step(w), UNCHANGED probe, NEW v \in Probers, Written(v)'
  PROVE  StillThere(v)' \/ clock' - probe'[v].start >= DefaultTTL
<1> DEFINE q == probe[v].req
           x == ProbeRef(probe[v].req)
<1>0. /\ Books /\ DoomInv /\ CallsOK /\ clock \in Nat /\ now \in [Worker -> Nat] /\ v \in Worker
      /\ probe[v].start \in Nat /\ v # Sweeper /\ Sweeper \in Worker
  BY ProbeAssumption, WorkerAssumption, ZenonT(60) DEF RunInv, Books, TypeOK, ControlTypeOK, Time, ProbeTyped
<1>1. clock' = clock
  BY <1>0, StepMoves, ZenonT(60) DEF envVars
<1>2. /\ x = <<x[1], x[2]>> /\ x[1] = ProbeKey(q) /\ x[2] = ProbeReplicaID(q.backend)
      /\ x[1].tenant = ProbeTenantID /\ x[1].model = q.model
  BY DEF ProbeRef, ProbeKey
<1>3. Running(v)
  BY ZenonT(60) DEF Written, Running
<1> DEFINE Goal == (x \in DOMAIN entries' /\ entries'[x].lastSeen = probe[v].start) \/ clock - probe[v].start >= DefaultTTL
<1>4. SUFFICES Goal
  BY <1>1, ZenonT(60) DEF StillThere, ProbeRef, ProbeKey
<1> HIDE DEF x, q
<1>5. CASE Written(v)
  <2>1. CASE clock - probe[v].start >= DefaultTTL
    BY <2>1, ZenonT(60)
  <2>2. CASE StillThere(v)
    <3>0. x \in DOMAIN entries /\ entries[x].lastSeen = probe[v].start
      BY <2>2 DEF StillThere, x
    <3>1. CASE x \in DOMAIN entries'
      <4>1. CASE entries'[x].lastSeen = entries[x].lastSeen
        BY <3>0, <3>1, <4>1, ZenonT(60)
      <4>2. CASE pc[w] = "upsert" /\ x[1] \in todo /\ x[2] = request[w].replica /\ entries'[x].lastSeen = now[w]
        <5>1. /\ w \in Probers /\ Running(w) /\ Serves(w) /\ x[1].model = probe[w].req.model
              /\ now[w] = probe[w].start
          BY <1>2, <4>2, ReservedUpsert, ZenonT(60)
        <5>2. probe[w].req.model = probe[v].req.model
              /\ ProbeReplicaID(probe[w].req.backend) = ProbeReplicaID(probe[v].req.backend)
          BY <1>2, <4>2, <5>1, ZenonT(60) DEF Serves, q
        <5>3. w = v
          BY <1>3, <5>1, <5>2, SameRun, ZenonT(60)
        <5> QED BY <3>1, <4>2, <5>1, <5>3, ZenonT(60)
      <4> QED BY <1>0, <3>1, <4>1, <4>2, StepWrites, ZenonT(60)
    <3>2. CASE x \notin DOMAIN entries'
      <4>0. x \in DOMAIN entries \ DOMAIN entries'
        BY <3>0, <3>2, ZenonT(60)
      <4>1. CASE pc[w] = "remove" /\ x \in doomed
        <5>1. Cause(w, x)
          BY <1>0, <4>1, ZenonT(60) DEF DoomInv
        <5>2. CASE w = Sweeper
          <6>1. PICK p \in Policies : now[w] - entries[x].lastSeen >= ttlUnder(p, x[1].tenant)
            BY <3>0, <5>1, <5>2, ZenonT(60) DEF Cause
          <6>2. now[w] - probe[v].start >= DefaultTTL
            BY <1>2, <3>0, <6>1, ReservedTTL, ZenonT(60)
          <6>3. now[w] \in Nat /\ now[w] <= clock
            BY <1>0, <5>2, ZenonT(60) DEF CallsOK
          <6> QED BY <1>0, <6>2, <6>3, BoundAssumption
        <5>3. CASE w # Sweeper
          <6>1. x[2] = request[w].replica /\ x[1].tenant = request[w].tenant /\ x[1].model = request[w].model
            BY <5>1, <5>3, ZenonT(60) DEF Cause
          <6>2. pc[w] \in Clearing
            BY <4>1 DEF Clearing
          <6>3. w \in Probers /\ Running(w) /\ Serves(w) /\ probe[w].at = "clearing"
            BY <1>2, <4>1, <5>3, <6>1, <6>2, ReservedCall, ZenonT(60)
          <6>4. probe[w].req.model = probe[v].req.model
                /\ ProbeReplicaID(probe[w].req.backend) = ProbeReplicaID(probe[v].req.backend)
            BY <1>2, <6>1, <6>3, ZenonT(60) DEF Serves, q
          <6>5. w = v
            BY <1>3, <6>3, <6>4, SameRun, ZenonT(60)
          <6> QED BY <1>5, <6>3, <6>5, ZenonT(60) DEF Written
        <5> QED BY <5>2, <5>3, ZenonT(60)
      <4>2. CASE pc[w] = "quota" /\ x[1].tenant = request[w].tenant /\ quota[w] >= 0
        <5>1. pc[w] \in Ingesting
          BY <4>2, ZenonT(60) DEF Ingesting
        <5>2. quota[w] = NoQuota
          BY <1>2, <4>2, <5>1, ReservedCall, ZenonT(60)
        <5> QED BY <4>2, <5>2 DEF NoQuota
      <4>3. CASE pc[w] = "cap" /\ x[1].tenant \notin ReservedTenants
        BY <1>2, <4>3, ProbeAssumption, ZenonT(60)
      <4> QED BY <1>0, <4>0, <4>1, <4>2, <4>3, StepRemoves, ZenonT(60)
    <3> QED BY <3>1, <3>2, ZenonT(60)
  <2> QED BY <1>5, <2>1, <2>2, ZenonT(60) DEF AlarmInv
<1>6. CASE ~Written(v)
  <2>0. ProberCall(v)
    BY <1>0, ZenonT(60) DEF CallsOK
  <2>1. /\ probe[v].at = "ingest" /\ pc'[v] # "ingest" /\ (pc'[v] = "upsert" => ProbeKey(q) \notin todo')
        /\ pc[v] = "ingest" \/ (pc[v] = "upsert" /\ ProbeKey(q) \in todo)
    BY <1>6, ZenonT(60) DEF Written, q, ProbeKey
  <2>2. CASE v # w
    <3>1. pc'[v] = pc[v]
      BY <1>0, <2>2, StepMoves, ZenonT(60)
    <3>2. pc[v] = "upsert" /\ ProbeKey(q) \in todo /\ pc[v] \in Critical
      BY <2>1, <3>1, ZenonT(60) DEF Critical
    <3>3. UNCHANGED todo
      BY <1>0, <2>2, <3>2, SetsAreHolders, ZenonT(60)
    <3> QED BY <2>1, <3>1, <3>2, <3>3, ZenonT(60)
  <2>3. CASE v = w
    <3>0. /\ pc[v] \in Ingesting /\ keysOf(request[v]) = {ProbeKey(q)} /\ now[v] = probe[v].start /\ Serves(v)
      <4>1. pc[v] \in Ingesting
        BY <2>1 DEF Ingesting
      <4> QED BY <2>0, <4>1, ZenonT(60) DEF ProberCall, q
    <3>1. CASE pc[v] = "ingest"
      <4>1. IngestLock(v)
        BY <2>3, <3>1, ZenonT(60) DEF Step, IngestLock, IngestUpsert, IngestStats, evictOldestForTenantLocked, QuotaDone,
             enforceCapLocked, IngestUnlock, EventLock, SweepLock, RemoveDoomed, RemoveUnlock, ReportLock,
             ReportCount, ReportPublish, lock
      <4>2. todo' = keysOf(request[v]) /\ pc'[v] = "upsert"
        BY <1>0, <4>1, ZenonT(60) DEF IngestLock, lock, goto, Books, TypeOK, ControlTypeOK
      <4> QED BY <2>1, <3>0, <4>2, ZenonT(60)
    <3>2. CASE pc[v] = "upsert" /\ ProbeKey(q) \in todo
      <4>1. IngestUpsert(v)
        BY <2>3, <3>2, ZenonT(60) DEF Step, IngestLock, IngestUpsert, IngestStats, evictOldestForTenantLocked, QuotaDone,
             enforceCapLocked, IngestUnlock, EventLock, SweepLock, RemoveDoomed, RemoveUnlock, ReportLock,
             ReportCount, ReportPublish, lock
      <4>2. pc'[v] = "upsert"
        BY <3>2, <4>1, ZenonT(60) DEF IngestUpsert
      <4>3. ProbeKey(q) \in todo \ todo'
        BY <2>1, <3>2, <4>2, ZenonT(60)
      <4>4. /\ <<ProbeKey(q), request[v].replica>> \in DOMAIN entries'
            /\ entries'[<<ProbeKey(q), request[v].replica>>].lastSeen = now[v]
        BY <1>0, <4>1, <4>3, UpsertWrites, ZenonT(60)
      <4>5. x = <<ProbeKey(q), request[v].replica>>
        BY <3>0, ZenonT(60) DEF Serves, x, q, ProbeRef
      <4> QED BY <3>0, <4>4, <4>5, ZenonT(60)
    <3> QED BY <2>1, <3>1, <3>2, ZenonT(60)
  <2> QED BY <2>2, <2>3, ZenonT(60)
<1> QED BY <1>5, <1>6, ZenonT(60)

LEMMA AlarmStep == RunInv /\ AlarmInv /\ [ProbeNext]_allVars => AlarmInv'
<1> SUFFICES ASSUME RunInv, AlarmInv, [ProbeNext]_allVars, NEW v \in Probers, Written(v)'
             PROVE  StillThere(v)' \/ clock' - probe'[v].start >= DefaultTTL
  BY ZenonT(60) DEF AlarmInv
<1> DEFINE Goal == StillThere(v)' \/ clock' - probe'[v].start >= DefaultTTL
<1>0. /\ Books /\ ProbeTyped /\ clock \in Nat /\ v \in Worker /\ probe[v].start \in Nat
  BY ProbeAssumption, ZenonT(60) DEF RunInv, Books, TypeOK, ControlTypeOK, Time, ProbeTyped
<1>1. ASSUME Written(v), probe'[v].req = probe[v].req, probe'[v].start = probe[v].start,
             clock' = clock \/ clock' = clock + 1, DOMAIN entries' = DOMAIN entries,
             \A x \in DOMAIN entries : entries'[x].lastSeen = entries[x].lastSeen
      PROVE  Goal
  <2>1. CASE StillThere(v)
    BY <1>1, <2>1, ZenonT(60) DEF StillThere, ProbeRef, ProbeKey
  <2>2. CASE clock - probe[v].start >= DefaultTTL
    BY <1>0, <1>1, <2>2, BoundAssumption
  <2> QED BY <1>1, <2>1, <2>2, ZenonT(60) DEF AlarmInv
<1>2. ASSUME UNCHANGED <<pc[v], probe[v], todo>> PROVE Written(v)
  BY <1>2, ZenonT(60) DEF Written, ProbeKey
<1>3. ASSUME NEW w \in Worker, IndexStep(w) PROVE Goal
  BY <1>3, AlarmIndexStep, ZenonT(60) DEF IndexStep, probeVars
<1>4. ASSUME NEW w \in Worker \ Probers, Writers(w) PROVE Goal
  <2>1. pc'[v] = pc[v] /\ UNCHANGED <<entries, todo, clock, probe>>
    BY <1>0, <1>4, WriterAsks, ZenonT(60)
  <2> QED BY <1>1, <1>2, <2>1, ZenonT(60)
<1>5. ASSUME NEW w \in Probers, RunBegin(w) PROVE Goal
  <2>1. /\ pc'[w] = "ingest" /\ \A u \in Worker \ {w} : pc'[u] = pc[u]
        /\ UNCHANGED <<entries, todo, clock>>
    BY <1>0, <1>5, BeginAsks, ZenonT(60)
  <2>2. probe'[w].at = "ingest" /\ \A u \in Probers \ {w} : probe'[u] = probe[u]
    BY <1>0, <1>5, BeginMoves, ZenonT(60) DEF Time
  <2>3. v # w
    BY <2>1, <2>2, ZenonT(60) DEF Written
  <2>4. pc'[v] = pc[v] /\ probe'[v] = probe[v]
    BY <1>0, <2>1, <2>2, <2>3, ZenonT(60)
  <2> QED BY <1>1, <1>2, <2>1, <2>4, ZenonT(60)
<1>6. ASSUME NEW w \in Probers, Cleanup(w) PROVE Goal
  <2>1. /\ \A u \in Worker \ {w} : pc'[u] = pc[u]
        /\ UNCHANGED <<entries, todo, clock>>
    BY <1>0, <1>6, CleanupAsks, ZenonT(60)
  <2>2. probe'[w].at = "clearing" /\ \A u \in Probers \ {w} : probe'[u] = probe[u]
    BY <1>0, <1>6, CleanupMoves, ZenonT(60)
  <2>3. v # w
    BY <2>2, ZenonT(60) DEF Written
  <2>4. pc'[v] = pc[v] /\ probe'[v] = probe[v]
    BY <1>0, <2>1, <2>2, <2>3, ZenonT(60)
  <2> QED BY <1>1, <1>2, <2>1, <2>4, ZenonT(60)
<1>7. ASSUME NEW w \in Probers, StageA(w) \/ StageB(w) \/ StageC(w) PROVE Goal
  <2>1. /\ UNCHANGED vars
        /\ \/ probe[w].at = "ingest" /\ pc[w] = "idle" /\ probe'[w].at \in {"route", "cleanup"}
           \/ probe[w].at = "route" /\ probe'[w].at \in {"t2", "cleanup"}
           \/ probe[w].at = "t2" /\ probe'[w].at = "cleanup"
        /\ probe'[w].req = probe[w].req /\ probe'[w].start = probe[w].start
        /\ \A u \in Probers \ {w} : probe'[u] = probe[u]
    BY <1>0, <1>7, StageMoves, ZenonT(60)
  <2>2. UNCHANGED <<pc, entries, todo, clock>>
    BY <2>1, ZenonT(60) DEF vars, dataVars, envVars
  <2>3. CASE v # w
    BY <1>1, <1>2, <2>1, <2>2, <2>3, ZenonT(60)
  <2>4. CASE v = w
    <3>1. Written(v)
      BY <2>1, <2>4, ZenonT(60) DEF Written
    <3> QED BY <1>1, <2>1, <2>2, <2>4, <3>1, ZenonT(60)
  <2> QED BY <2>3, <2>4, ZenonT(60)
<1>8. ASSUME NEW w \in Probers, probeHandler(w) \/ RunReturn(w) PROVE Goal
  <2>1. /\ UNCHANGED vars
        /\ UNCHANGED probe \/ (probe'[w].at \in {"wait", "none"} /\ \A u \in Probers \ {w} : probe'[u] = probe[u])
    BY <1>0, <1>8, RestMoves, ZenonT(60)
  <2>2. UNCHANGED <<pc, entries, todo, clock>>
    BY <2>1, ZenonT(60) DEF vars, dataVars, envVars
  <2>3. probe'[v] = probe[v]
    BY <2>1, ZenonT(60) DEF Written
  <2> QED BY <1>1, <1>2, <2>2, <2>3, ZenonT(60)
<1>9. CASE UNCHANGED <<vars, probe, runMu>>
  <2>1. UNCHANGED <<pc, entries, todo, clock, probe>>
    BY <1>9, ZenonT(60) DEF vars, dataVars, envVars
  <2> QED BY <1>1, <1>2, <2>1, ZenonT(60)
<1>10. CASE (CreditHits \/ ReplaceSnapshot \/ Tick) /\ UNCHANGED <<probe, runMu>>
  <2>1. UNCHANGED <<pc, todo, probe>> /\ (clock' = clock \/ clock' = clock + 1)
    BY <1>10, ZenonT(60) DEF CreditHits, ReplaceSnapshot, Tick, envVars
  <2>2. DOMAIN entries' = DOMAIN entries /\ \A x \in DOMAIN entries : entries'[x].lastSeen = entries[x].lastSeen
    <3>1. CASE CreditHits
      BY <1>0, <3>1, ZenonT(60) DEF CreditHits, Books, TypeOK, DataTypeOK
    <3>2. CASE ReplaceSnapshot \/ Tick
      BY <3>2, ZenonT(60) DEF ReplaceSnapshot, Tick, dataVars
    <3> QED BY <1>10, <3>1, <3>2, ZenonT(60)
  <2> QED BY <1>1, <1>2, <2>1, <2>2, ZenonT(60)
<1> QED BY <1>3, <1>4, <1>5, <1>6, <1>7, <1>8, <1>9, <1>10, StepKinds, ZenonT(60)

(* A stage that tests the index fails only when so much time went by that  *)
(* the entry it wrote has expired (Run), for any number of overlapping     *)
(* self-tests, writers, sweeps and policy pushes.                          *)
THEOREM AlarmTheorem == ProbeSpec => NoFalseAlarm
<1> DEFINE Stg == {"ingest", "routing"}
           Alarm == \A w \in Probers : probe'[w] # probe[w] /\ "failed" \in {probe'[w].result[s] : s \in {"ingest", "routing"}}
                                         /\ "failed" \notin {probe[w].result[s] : s \in {"ingest", "routing"}}
                      => clock - probe[w].start >= ttlFor(ProbeTenantID)
<1>1. ProbeInit => AlarmInv
  <2> SUFFICES ASSUME ProbeInit, NEW w \in Probers PROVE ~Written(w)
    BY DEF AlarmInv
  <2>1. probe[w] = Resting /\ Resting.at = "none"
    BY ZenonT(60) DEF ProbeInit, AtRest, Resting
  <2> QED BY <2>1, ZenonT(60) DEF Written
<1>2. RunInv /\ AlarmInv /\ [ProbeNext]_allVars => [Alarm]_allVars
  <2> SUFFICES ASSUME RunInv, AlarmInv, [ProbeNext]_allVars, NEW w \in Probers, probe'[w] # probe[w],
                      "failed" \in {probe'[w].result[s] : s \in Stg},
                      "failed" \notin {probe[w].result[s] : s \in Stg}
               PROVE  clock - probe[w].start >= ttlFor(ProbeTenantID)
    BY ZenonT(60)
  <2>0. /\ ProbeTyped /\ policy \in Policies /\ probe[w].result \in [Stages -> Outcome]
        /\ DOMAIN entries \subseteq Ref
    BY ZenonT(60) DEF RunInv, Books, TypeOK, ControlTypeOK, DataTypeOK, ProbeTyped
  <2>1. ttlFor(ProbeTenantID) = DefaultTTL
    BY <2>0, ReservedTTL, ZenonT(60) DEF ttlFor, ttlUnder
  <2>2. ASSUME Written(w), ~replicaInScores(probe[w].req) PROVE clock - probe[w].start >= ttlFor(ProbeTenantID)
    <3>1. CASE StillThere(w)
      <4> DEFINE x == ProbeRef(probe[w].req)
      <4>1. x \in DOMAIN entries /\ entries[x].lastSeen = probe[w].start
        BY <3>1, ZenonT(60) DEF StillThere
      <4>2. x[1] = ProbeKey(probe[w].req) /\ x[2] = ProbeReplicaID(probe[w].req.backend)
        BY DEF ProbeRef
      <4> HIDE DEF x
      <4>3. ~(clock - entries[x].lastSeen < ttlFor(ProbeTenantID))
        BY <2>2, <4>1, <4>2, ZenonT(60) DEF replicaInScores, Scored, ProbeKey
      <4>4. clock \in Nat /\ probe[w].start \in Nat
        BY ZenonT(60) DEF RunInv, Books, TypeOK, ControlTypeOK, Time, ProbeTyped
      <4>5. \A a, b, d \in Nat : ~(a - b < d) => a - b >= d
        OBVIOUS
      <4> QED BY <2>1, <4>1, <4>3, <4>4, <4>5, DefaultNat, ZenonT(60)
    <3>2. CASE clock - probe[w].start >= DefaultTTL
      BY <2>1, <3>2, ZenonT(60)
    <3> QED BY <2>2, <3>1, <3>2, ZenonT(60) DEF AlarmInv
  <2>3. ASSUME NEW v \in Probers, StageA(v) PROVE clock - probe[w].start >= ttlFor(ProbeTenantID)
    <3>1. v = w
      BY <2>0, <2>3, StageMoves, ZenonT(60)
    <3>2. Written(w)
      BY <2>3, <3>1, ZenonT(60) DEF StageA, Written
    <3>3. CASE replicaInScores(probe[w].req)
      <4>1. probe'[w].result = [Untested EXCEPT !["ingest"] = "ok"]
        BY <2>0, <2>3, <3>1, <3>3, GotoFacts, ZenonT(60) DEF StageA
      <4>2. probe'[w].result["ingest"] = "ok" /\ probe'[w].result["routing"] = "none"
        BY <4>1, ZenonT(60) DEF Untested, Stages
      <4> QED BY <4>2, ZenonT(60)
    <3> QED BY <2>2, <3>2, <3>3, ZenonT(60)
  <2>4. ASSUME NEW v \in Probers, StageB(v) PROVE clock - probe[w].start >= ttlFor(ProbeTenantID)
    <3>1. v = w
      BY <2>0, <2>4, StageMoves, ZenonT(60)
    <3>2. Written(w)
      BY <2>4, <3>1, ZenonT(60) DEF StageB, Written
    <3>3. CASE replicaInScores(probe[w].req)
      <4>1. probe'[w].result = [probe[w].result EXCEPT !["routing"] = "ok"]
        BY <2>0, <2>4, <3>1, <3>3, GotoFacts, ZenonT(60) DEF StageB
      <4>2. probe'[w].result["ingest"] = probe[w].result["ingest"] /\ probe'[w].result["routing"] = "ok"
        BY <2>0, <4>1, ZenonT(60) DEF Stages
      <4> QED BY <4>2, ZenonT(60)
    <3> QED BY <2>2, <3>2, <3>3
  <2>5. ASSUME NEW v \in Probers, StageC(v) PROVE FALSE
    <3>1. v = w
      BY <2>0, <2>5, StageMoves, ZenonT(60)
    <3>2. PICK r : Goto(w, "cleanup", [probe[w].result EXCEPT !["t2"] = r])
      BY <2>5, <3>1, ZenonT(60) DEF StageC
    <3>3. probe'[w].result = [probe[w].result EXCEPT !["t2"] = r]
      BY <2>0, <3>2, GotoFacts, ZenonT(60)
    <3>4. probe'[w].result["ingest"] = probe[w].result["ingest"] /\ probe'[w].result["routing"] = probe[w].result["routing"]
      BY <2>0, <3>3, ZenonT(60) DEF Stages
    <3> QED BY <3>4, ZenonT(60)
  <2>6. ASSUME NEW v \in Probers, RunBegin(v) \/ Cleanup(v) PROVE FALSE
    <3>1. v = w
      BY <2>0, <2>6, BeginMoves, CleanupMoves, ZenonT(60) DEF RunInv, Books, TypeOK, ControlTypeOK
    <3>2. probe'[w].result = probe[w].result
      <4>1. CASE RunBegin(v)
        BY <2>0, <3>1, <4>1, ZenonT(60) DEF RunBegin, ProbeTyped
      <4>2. CASE Cleanup(v)
        BY <2>0, <3>1, <4>2, GotoFacts, ZenonT(60) DEF Cleanup
      <4> QED BY <2>6, <4>1, <4>2, ZenonT(60)
    <3> QED BY <3>2, ZenonT(60)
  <2>7. ASSUME NEW v \in Probers, probeHandler(v) \/ RunReturn(v) PROVE FALSE
    <3>1. v = w
      BY <2>0, <2>7, RestMoves, ZenonT(60)
    <3>2. probe'[w].result = Untested
      <4>0. Resting.result = Untested /\ \A q : [Resting EXCEPT !.at = "wait", !.req = q].result = Untested
        BY DEF Resting
      <4>1. CASE RunReturn(v)
        <5>1. probe'[w] = Resting
          BY <2>0, <3>1, <4>1, ZenonT(60) DEF RunReturn, ProbeTyped
        <5> QED BY <4>0, <5>1, ZenonT(60)
      <4>2. CASE probeHandler(v)
        <5>1. PICK q : probe' = [probe EXCEPT ![w] = [Resting EXCEPT !.at = "wait", !.req = q]]
          BY <3>1, <4>2, ZenonT(60) DEF probeHandler
        <5>2. probe'[w] = [Resting EXCEPT !.at = "wait", !.req = q]
          BY <2>0, <5>1, ZenonT(60) DEF ProbeTyped
        <5> QED BY <4>0, <5>2, ZenonT(60)
      <4> QED BY <2>7, <4>1, <4>2, ZenonT(60)
    <3> QED BY <3>2, ZenonT(60) DEF Untested, Stages
  <2>8. ~UNCHANGED probe
    OBVIOUS
  <2> QED BY <2>3, <2>4, <2>5, <2>6, <2>7, <2>8, StepKinds, ZenonT(60) DEF Writers, IndexStep, probeVars
<1> QED BY <1>1, <1>2, RunInvInit, RunInvStep, AlarmStep, PTL DEF ProbeSpec, NoFalseAlarm

-----------------------------------------------------------------------------
(* Nothing is left behind.  Every entry and statistic of the reserved      *)
(* tenant belongs to a run that holds its lock and will still clear it:    *)
(* the run has not begun to clear, or its event has not taken the index    *)
(* lock, or the entry is among those it is removing.                       *)

Keeps(w, m, r) == Running(w) /\ probe[w].req.model = m /\ ProbeReplicaID(probe[w].req.backend) = r

WillClear(w, x) ==
  probe[w].at = "clearing" => pc[w] = "event" \/ (pc[w] = "remove" /\ x \in doomed)

ResidueInv ==
  /\ \A x \in DOMAIN entries : x[1].tenant = ProbeTenantID =>
       \E w \in Probers : Keeps(w, x[1].model, x[2]) /\ WillClear(w, x)
  /\ \A s \in DOMAIN stats : s[1] = ProbeTenantID =>
       \E w \in Probers : Keeps(w, s[2], s[3]) /\ (probe[w].at = "clearing" => pc[w] = "event")

(* The cleanup of a run, when it takes the index lock, selects every entry *)
(* of the run and deletes its statistics.                                  *)
LEMMA ClearingSelects ==
  ASSUME RunInv, NEW w \in Probers, EventLock(w)
  PROVE  /\ pc'[w] = "remove"
         /\ \A x \in DOMAIN entries :
              x[1].tenant = ProbeTenantID /\ x[1].model = probe[w].req.model
                /\ x[2] = ProbeReplicaID(probe[w].req.backend) => x \in doomed'
         /\ <<ProbeTenantID, probe[w].req.model, ProbeReplicaID(probe[w].req.backend)>> \notin DOMAIN stats'
<1>0. w \in Worker /\ pc \in [Worker -> Label]
  BY ProbeAssumption, ZenonT(60) DEF RunInv, Books, TypeOK, ControlTypeOK
<1>1. pc[w] = "event" /\ pc'[w] = "remove"
  BY <1>0, ZenonT(60) DEF EventLock, lock, goto
<1>2. Serves(w) /\ request[w].type = "cleared"
  <2>1. pc[w] \in Clearing
    BY <1>1 DEF Clearing
  <2> QED BY <2>1, ZenonT(60) DEF RunInv, CallsOK, ProberCall
<1>3. doomed' = {x \in DOMAIN entries : x[2] = request[w].replica /\ matchesEvent(x[1], request[w])}
  BY <1>2, ZenonT(60) DEF EventLock
<1>4. ASSUME NEW x \in DOMAIN entries, x[1].tenant = ProbeTenantID, x[1].model = probe[w].req.model,
             x[2] = ProbeReplicaID(probe[w].req.backend)
      PROVE  x \in doomed'
  <2>1. request[w].type # "evicted"
    BY <1>2, ZenonT(60)
  <2>2. matchesEvent(x[1], request[w]) /\ x[2] = request[w].replica
    BY <1>2, <1>4, <2>1, ZenonT(60) DEF matchesEvent, Serves
  <2> QED BY <1>3, <2>2, ZenonT(60)
<1>5. DOMAIN stats' = DOMAIN stats \ {<<request[w].tenant, request[w].model, request[w].replica>>}
  <2>1. removeStats({<<request[w].tenant, request[w].model, request[w].replica>>})
    BY <1>2 DEF EventLock
  <2> QED BY <2>1, ZenonT(60) DEF removeStats
<1>6. <<ProbeTenantID, probe[w].req.model, ProbeReplicaID(probe[w].req.backend)>> \notin DOMAIN stats'
  BY <1>2, <1>5, ZenonT(60) DEF Serves
<1> QED BY <1>1, <1>4, <1>6, ZenonT(60)

(* What is being removed leaves the index before it leaves the list.       *)
LEMMA DoomedLeave ==
  ASSUME NEW w \in Worker, RemoveDoomed(w), NEW x \in doomed, x \in DOMAIN entries'
  PROVE  x \in doomed'
<1>1. PICK y \in doomed : removeReplicaLocked(y) /\ doomed' = doomed \ {y}
  BY ZenonT(60) DEF RemoveDoomed
<1>2. y \notin DOMAIN entries'
  BY <1>1, ZenonT(60) DEF removeReplicaLocked, dataVars
<1> QED BY <1>1, <1>2, ZenonT(60)

(* A statistic appears by an Ingest of its own key.                        *)
LEMMA StatsWrites ==
  ASSUME NEW w \in Worker, Step(w), NEW s \in DOMAIN stats'
  PROVE  \/ s \in DOMAIN stats
         \/ pc[w] = "upsert" /\ s = <<request[w].tenant, request[w].model, request[w].replica>>
<1>1. CASE IngestStats(w)
  <2>1. CASE request[w].stats
    <3>1. DOMAIN stats' = DOMAIN stats \cup {<<request[w].tenant, request[w].model, request[w].replica>>}
      BY <1>1, <2>1, ZenonT(60) DEF IngestStats
    <3> QED BY <1>1, <3>1, ZenonT(60) DEF IngestStats
  <2>2. CASE ~request[w].stats
    BY <1>1, <2>2, ZenonT(60) DEF IngestStats, statsVars
  <2> QED BY <2>1, <2>2, ZenonT(60)
<1>2. CASE SweepLock(w)
  BY <1>2, ZenonT(60) DEF SweepLock, removeStats
<1>3. CASE EventLock(w)
  <2>1. DOMAIN stats' \subseteq DOMAIN stats
    BY <1>3, ZenonT(60) DEF EventLock, removeStats, statsVars
  <2> QED BY <2>1, ZenonT(60)
<1>4. CASE UNCHANGED stats
  BY <1>4, ZenonT(60)
<1> QED BY <1>1, <1>2, <1>3, <1>4, ZenonT(60) DEF Step, IngestLock, IngestUpsert, evictOldestForTenantLocked,
         QuotaDone, enforceCapLocked, IngestUnlock, RemoveDoomed, RemoveUnlock, ReportLock, ReportCount,
         ReportPublish, statsVars

(* How a run that is clearing takes a step. *)
LEMMA ClearingSteps ==
  ASSUME Books, NEW w \in Worker, Step(w), pc[w] \in Clearing
  PROVE  \/ pc[w] = "event" /\ EventLock(w)
         \/ pc[w] = "remove" /\ RemoveDoomed(w)
         \/ pc[w] = "remove" /\ RemoveUnlock(w)
BY ZenonT(60) DEF Clearing, Step, IngestLock, IngestUpsert, IngestStats, evictOldestForTenantLocked, QuotaDone,
     enforceCapLocked, IngestUnlock, EventLock, SweepLock, RemoveDoomed, RemoveUnlock, ReportLock,
     ReportCount, ReportPublish, lock

LEMMA ResidueIndexStep ==
  ASSUME RunInv, ResidueInv, NEW w \in Worker, Step(w), UNCHANGED probe
  PROVE  ResidueInv'
<1>0. Books /\ Probers \subseteq Worker
  BY ProbeAssumption DEF RunInv
<1>1. \A v \in Worker \ {w} : pc'[v] = pc[v]
  BY <1>0, StepMoves, ZenonT(60)
<1>2. ASSUME NEW x \in DOMAIN entries', x[1].tenant = ProbeTenantID
      PROVE  \E u \in Probers : Keeps(u, x[1].model, x[2]) /\ WillClear(u, x)'
  <2>1. CASE x \in DOMAIN entries
    <3>1. PICK u \in Probers : Keeps(u, x[1].model, x[2]) /\ WillClear(u, x)
      BY <1>2, <2>1, ZenonT(60) DEF ResidueInv
    <3>2. CASE probe[u].at # "clearing"
      BY <3>1, <3>2, ZenonT(60) DEF WillClear
    <3>3. CASE probe[u].at = "clearing" /\ pc[u] = "event"
      <4>1. CASE u # w
        BY <1>0, <1>1, <3>1, <3>3, <4>1, ZenonT(60) DEF WillClear
      <4>2. CASE u = w
        <5>1. EventLock(w)
          BY <1>0, <3>3, <4>2, ClearingSteps, ZenonT(60) DEF Clearing
        <5>2. pc'[u] = "remove" /\ x \in doomed'
          BY <1>2, <2>1, <3>1, <4>2, <5>1, ClearingSelects, ZenonT(60) DEF Keeps
        <5> QED BY <3>1, <5>2, ZenonT(60) DEF WillClear
      <4> QED BY <4>1, <4>2, ZenonT(60)
    <3>4. CASE probe[u].at = "clearing" /\ pc[u] = "remove" /\ x \in doomed
      <4>1. CASE u # w
        <5>1. UNCHANGED doomed
          BY <1>0, <3>4, <4>1, SetsAreHolders, ZenonT(60) DEF Critical
        <5> QED BY <1>0, <1>1, <3>1, <3>4, <4>1, <5>1, ZenonT(60) DEF WillClear
      <4>2. CASE u = w
        <5>1. RemoveDoomed(w)
          <6>1. ~RemoveUnlock(w)
            BY <3>4, ZenonT(60) DEF RemoveUnlock
          <6>2. pc[w] \in Clearing /\ pc[w] # "event"
            BY <3>4, <4>2, ZenonT(60) DEF Clearing
          <6> QED BY <1>0, <6>1, <6>2, ClearingSteps, ZenonT(60)
        <5>2. pc'[w] = "remove"
          BY <3>4, <4>2, <5>1, ZenonT(60) DEF RemoveDoomed
        <5>3. x \in doomed'
          BY <1>2, <3>4, <5>1, DoomedLeave, ZenonT(60)
        <5> QED BY <3>1, <4>2, <5>2, <5>3, ZenonT(60) DEF WillClear
      <4> QED BY <4>1, <4>2
    <3> QED BY <3>1, <3>2, <3>3, <3>4, ZenonT(60) DEF WillClear
  <2>2. CASE x \notin DOMAIN entries
    <3>1. pc[w] = "upsert" /\ x[1] \in todo /\ x[2] = request[w].replica
      BY <1>0, <1>2, <2>2, StepWrites, ZenonT(60)
    <3>2. w \in Probers /\ Running(w) /\ Serves(w) /\ probe[w].at = "ingest" /\ x[1].model = probe[w].req.model
      BY <1>2, <3>1, ReservedUpsert, ZenonT(60)
    <3>3. Keeps(w, x[1].model, x[2])
      BY <3>1, <3>2, ZenonT(60) DEF Keeps, Serves
    <3>4. WillClear(w, x)'
      BY <3>2, ZenonT(60) DEF WillClear
    <3> QED BY <3>2, <3>3, <3>4, ZenonT(60)
  <2> QED BY <2>1, <2>2, ZenonT(60)
<1>3. ASSUME NEW s \in DOMAIN stats', s[1] = ProbeTenantID
      PROVE  \E u \in Probers : Keeps(u, s[2], s[3]) /\ (probe[u].at = "clearing" => pc'[u] = "event")
  <2>1. CASE s \in DOMAIN stats
    <3>1. PICK u \in Probers : Keeps(u, s[2], s[3]) /\ (probe[u].at = "clearing" => pc[u] = "event")
      BY <1>3, <2>1, ZenonT(60) DEF ResidueInv
    <3>2. CASE probe[u].at # "clearing" \/ u # w
      BY <1>0, <1>1, <3>1, <3>2, ZenonT(60)
    <3>3. CASE probe[u].at = "clearing" /\ u = w
      <4>1. pc[w] = "event" /\ pc[w] \in Clearing
        BY <3>1, <3>3, ZenonT(60) DEF Clearing
      <4>2. EventLock(w)
        BY <1>0, <4>1, ClearingSteps, ZenonT(60)
      <4>3. <<ProbeTenantID, probe[w].req.model, ProbeReplicaID(probe[w].req.backend)>> \notin DOMAIN stats'
        BY <3>3, <4>2, ClearingSelects, ZenonT(60)
      <4>4. s = <<s[1], s[2], s[3]>>
        BY <2>1, <1>0 DEF Books, TypeOK, StatsTypeOK, StatsKey
      <4>5. s = <<ProbeTenantID, probe[w].req.model, ProbeReplicaID(probe[w].req.backend)>>
        BY <1>3, <3>1, <3>3, <4>4, ZenonT(60) DEF Keeps
      <4> QED BY <1>3, <4>3, <4>5, ZenonT(60)
    <3> QED BY <3>2, <3>3, ZenonT(60)
  <2>2. CASE s \notin DOMAIN stats
    <3>1. pc[w] = "upsert" /\ s = <<request[w].tenant, request[w].model, request[w].replica>>
      BY <1>3, <2>2, StatsWrites, ZenonT(60)
    <3>2. request[w].tenant = ProbeTenantID /\ s[2] = request[w].model /\ s[3] = request[w].replica
      BY <1>3, <3>1, ZenonT(60)
    <3>3. pc[w] \in Ingesting
      BY <3>1, ZenonT(60) DEF Ingesting
    <3>4. w \in Probers /\ Running(w) /\ Serves(w) /\ probe[w].at = "ingest"
      BY <3>2, <3>3, ReservedCall, ZenonT(60)
    <3>5. Keeps(w, s[2], s[3])
      BY <3>2, <3>4, ZenonT(60) DEF Keeps, Serves
    <3> QED BY <3>4, <3>5, ZenonT(60)
  <2> QED BY <2>1, <2>2, ZenonT(60)
<1>4. \A u \in Probers : \A m, r : Keeps(u, m, r) => Keeps(u, m, r)'
  BY ZenonT(60) DEF Keeps, Running
<1> QED BY <1>2, <1>3, <1>4, ZenonT(60) DEF ResidueInv

LEMMA ResidueStep == RunInv /\ ResidueInv /\ [ProbeNext]_allVars => ResidueInv'
<1> SUFFICES ASSUME RunInv, ResidueInv, [ProbeNext]_allVars PROVE ResidueInv'
  OBVIOUS
<1>0. /\ Books /\ ProbeTyped /\ clock \in Time /\ Probers \subseteq Worker
  BY ProbeAssumption, ZenonT(60) DEF RunInv, Books, TypeOK, ControlTypeOK
<1>1. ASSUME DOMAIN entries' = DOMAIN entries, DOMAIN stats' = DOMAIN stats, doomed' = doomed,
             \A u \in Probers : Running(u) /\ (probe[u].at = "clearing" => pc[u] \in Clearing) =>
               /\ Running(u)' /\ probe'[u].req = probe[u].req
               /\ probe'[u].at = "clearing" => pc'[u] = "event" \/ (probe[u].at = "clearing" /\ pc'[u] = pc[u])
      PROVE  ResidueInv'
  <2>1. ASSUME NEW x \in DOMAIN entries', x[1].tenant = ProbeTenantID
        PROVE  \E u \in Probers : Keeps(u, x[1].model, x[2])' /\ WillClear(u, x)'
    <3>1. PICK u \in Probers : Keeps(u, x[1].model, x[2]) /\ WillClear(u, x)
      BY <1>1, <2>1, ZenonT(60) DEF ResidueInv
    <3>2. Running(u) /\ (probe[u].at = "clearing" => pc[u] \in Clearing)
      BY <3>1, ZenonT(60) DEF Keeps, WillClear, Clearing
    <3>3. Keeps(u, x[1].model, x[2])'
      BY <1>1, <3>1, <3>2, ZenonT(60) DEF Keeps
    <3>4. WillClear(u, x)'
      BY <1>1, <3>1, <3>2, ZenonT(60) DEF WillClear
    <3> QED BY <3>3, <3>4, ZenonT(60)
  <2>2. ASSUME NEW s \in DOMAIN stats', s[1] = ProbeTenantID
        PROVE  \E u \in Probers : Keeps(u, s[2], s[3])' /\ (probe'[u].at = "clearing" => pc'[u] = "event")
    <3>1. PICK u \in Probers : Keeps(u, s[2], s[3]) /\ (probe[u].at = "clearing" => pc[u] = "event")
      BY <1>1, <2>2, ZenonT(60) DEF ResidueInv
    <3>2. Running(u) /\ (probe[u].at = "clearing" => pc[u] \in Clearing)
      BY <3>1, ZenonT(60) DEF Keeps, Clearing
    <3>3. Keeps(u, s[2], s[3])'
      BY <1>1, <3>1, <3>2, ZenonT(60) DEF Keeps
    <3> QED BY <1>1, <3>1, <3>2, <3>3, ZenonT(60)
  <2> QED BY <2>1, <2>2, ZenonT(60) DEF ResidueInv
<1>2. ASSUME NEW w \in Worker, IndexStep(w) PROVE ResidueInv'
  BY <1>2, ResidueIndexStep, ZenonT(60) DEF IndexStep, probeVars
<1>3. ASSUME NEW w \in Worker \ Probers, Writers(w) PROVE ResidueInv'
  <2>1. UNCHANGED <<entries, stats, doomed, probe>> /\ \A u \in Probers : pc'[u] = pc[u]
    BY <1>0, <1>3, WriterAsks, ZenonT(60)
  <2> QED BY <1>1, <2>1, ZenonT(60) DEF Running
<1>4. ASSUME NEW w \in Probers, RunBegin(w) PROVE ResidueInv'
  <2>1. UNCHANGED <<entries, stats, doomed>> /\ \A u \in Probers \ {w} : pc'[u] = pc[u]
    BY <1>0, <1>4, BeginAsks, ZenonT(60)
  <2>2. probe[w].at = "wait" /\ \A u \in Probers \ {w} : probe'[u] = probe[u]
    BY <1>0, <1>4, BeginMoves, ZenonT(60)
  <2>3. \A u \in Probers : Running(u) => probe'[u] = probe[u] /\ pc'[u] = pc[u]
    BY <2>1, <2>2, ZenonT(60) DEF Running
  <2> QED BY <1>1, <2>1, <2>3, ZenonT(60) DEF Running
<1>5. ASSUME NEW w \in Probers, Cleanup(w) PROVE ResidueInv'
  <2>1. UNCHANGED <<entries, stats, doomed>> /\ pc'[w] = "event" /\ \A u \in Probers \ {w} : pc'[u] = pc[u]
    BY <1>0, <1>5, CleanupAsks, ZenonT(60)
  <2>2. /\ probe'[w].at = "clearing" /\ probe'[w].req = probe[w].req
        /\ \A u \in Probers \ {w} : probe'[u] = probe[u]
    BY <1>0, <1>5, CleanupMoves, ZenonT(60)
  <2>3. Running(w)'
    BY <2>2 DEF Running
  <2>4. \A u \in Probers \ {w} : Running(u) => Running(u)'
    BY <2>2, ZenonT(60) DEF Running
  <2> QED BY <1>1, <2>1, <2>2, <2>3, <2>4, ZenonT(60)
<1>6. ASSUME NEW w \in Probers, StageA(w) \/ StageB(w) \/ StageC(w) PROVE ResidueInv'
  <2>1. /\ UNCHANGED vars /\ probe'[w].at \in {"route", "t2", "cleanup"} /\ probe'[w].req = probe[w].req
        /\ \A u \in Probers \ {w} : probe'[u] = probe[u]
    BY <1>0, <1>6, StageMoves, ZenonT(60)
  <2>2. UNCHANGED <<entries, stats, doomed, pc>>
    BY <2>1, ZenonT(60) DEF vars, dataVars, statsVars
  <2>3. Running(w)' /\ probe'[w].at # "clearing"
    BY <2>1 DEF Running
  <2>4. \A u \in Probers \ {w} : Running(u) => Running(u)'
    BY <2>1, ZenonT(60) DEF Running
  <2> QED BY <1>1, <2>1, <2>2, <2>3, <2>4, ZenonT(60)
<1>7. ASSUME NEW w \in Probers, probeHandler(w) \/ RunReturn(w) PROVE ResidueInv'
  <2>1. /\ UNCHANGED vars
        /\ UNCHANGED probe \/ (probe[w].at \in {"none", "clearing"} /\ (probe[w].at = "clearing" => pc[w] = "idle")
                               /\ \A u \in Probers \ {w} : probe'[u] = probe[u])
    BY <1>0, <1>7, RestMoves, ZenonT(60)
  <2>2. UNCHANGED <<entries, stats, doomed, pc>>
    BY <2>1, ZenonT(60) DEF vars, dataVars, statsVars
  <2>3. ASSUME NEW u \in Probers, Running(u), probe[u].at = "clearing" => pc[u] \in Clearing
        PROVE  probe'[u] = probe[u]
    <3>1. CASE UNCHANGED probe
      BY <3>1
    <3>2. CASE u # w
      BY <2>1, <3>2, ZenonT(60)
    <3>3. CASE u = w
      BY <2>1, <2>3, <3>3, ZenonT(60) DEF Running, Clearing
    <3> QED BY <3>1, <3>2, <3>3, ZenonT(60)
  <2> QED BY <1>1, <2>2, <2>3, ZenonT(60) DEF Running
<1>8. CASE UNCHANGED <<vars, probe, runMu>>
  <2>1. UNCHANGED <<entries, stats, doomed, pc, probe>>
    BY <1>8, ZenonT(60) DEF vars, dataVars, statsVars
  <2> QED BY <1>1, <2>1, ZenonT(60) DEF Running
<1>9. CASE (CreditHits \/ ReplaceSnapshot \/ Tick) /\ UNCHANGED <<probe, runMu>>
  <2>1. UNCHANGED <<stats, doomed, pc, probe>>
    BY <1>9, ZenonT(60) DEF CreditHits, ReplaceSnapshot, Tick, statsVars
  <2>2. DOMAIN entries' = DOMAIN entries
    <3>1. CASE CreditHits
      BY <1>0, <3>1, ZenonT(60) DEF CreditHits, Books, TypeOK, DataTypeOK
    <3>2. CASE ReplaceSnapshot \/ Tick
      BY <3>2, ZenonT(60) DEF ReplaceSnapshot, Tick, dataVars
    <3> QED BY <1>9, <3>1, <3>2, ZenonT(60)
  <2> QED BY <1>1, <2>1, <2>2, ZenonT(60) DEF Running
<1> QED BY <1>2, <1>3, <1>4, <1>5, <1>6, <1>7, <1>8, <1>9, StepKinds, ZenonT(60)

(* While no run holds the lock of a backend and a model, the index has     *)
(* neither entries nor statistics of that self-test (cleanup "leaves no    *)
(* residue", across hash schemes), whichever stage failed and whoever ran  *)
(* beside it.                                                              *)
THEOREM ResidueTheorem == ProbeSpec => []NoResidue
<1>1. ProbeInit => ResidueInv
  BY ZenonT(60) DEF ProbeInit, Init, Nothing, ResidueInv
<1>2. RunInv /\ ResidueInv => NoResidue
  <2> SUFFICES ASSUME RunInv, ResidueInv, NEW q \in Requests, lockForRun(q) \notin runMu
               PROVE  /\ \A x \in DOMAIN entries :
                           ~(x[1].tenant = ProbeTenantID /\ x[1].model = q.model /\ x[2] = ProbeReplicaID(q.backend))
                      /\ <<ProbeTenantID, q.model, ProbeReplicaID(q.backend)>> \notin DOMAIN stats
    BY ZenonT(60) DEF NoResidue
  <2>1. ASSUME NEW u \in Probers, Keeps(u, q.model, ProbeReplicaID(q.backend)) PROVE FALSE
    <3>1. probe[u].req \in Requests /\ lockForRun(probe[u].req) \in runMu
      BY <2>1 DEF Keeps, Running, RunInv, ProbeTyped, RunLocks
    <3>2. probe[u].req.backend = q.backend /\ probe[u].req.model = q.model
      BY <2>1, <3>1, ReservedAssumption, ZenonT(60) DEF Keeps
    <3> QED BY <3>1, <3>2, ZenonT(60) DEF lockForRun
  <2>2. ASSUME NEW x \in DOMAIN entries, x[1].tenant = ProbeTenantID, x[1].model = q.model,
               x[2] = ProbeReplicaID(q.backend)
        PROVE  FALSE
    BY <2>1, <2>2, ZenonT(60) DEF ResidueInv
  <2>3. ASSUME <<ProbeTenantID, q.model, ProbeReplicaID(q.backend)>> \in DOMAIN stats PROVE FALSE
    <3> DEFINE s == <<ProbeTenantID, q.model, ProbeReplicaID(q.backend)>>
    <3>1. s[1] = ProbeTenantID /\ s[2] = q.model /\ s[3] = ProbeReplicaID(q.backend)
      BY ZenonT(60)
    <3> HIDE DEF s
    <3>2. s \in DOMAIN stats
      BY <2>3 DEF s
    <3> QED BY <2>1, <3>1, <3>2, ZenonT(60) DEF ResidueInv
  <2> QED BY <2>2, <2>3, ZenonT(60)
<1> QED BY <1>1, <1>2, RunInvInit, RunInvStep, ResidueStep, PTL DEF ProbeSpec
=============================================================================
