--------------------------- MODULE Authenticator ---------------------------
(***************************************************************************)
(* The bearer-token middleware in front of the server's HTTP endpoints     *)
(* (internal/server/auth): a TokenReview per unknown token, and a bounded  *)
(* cache of the tokens the API server confirmed.                           *)
(*                                                                         *)
(* A handler is a goroutine that serves one request.  The cache is read    *)
(* and written under a mutex, the review runs outside it, so handlers that *)
(* bring one token may all miss, all ask and all write.  Every refusal     *)
(* ends the request; what is recorded of it is left out.                   *)
(***************************************************************************)
EXTENDS Integers, FiniteSets

CONSTANTS Handler, Token,
          NoToken,     \* a missing or malformed Authorization header
          CacheMax, CacheTTL

VARIABLES clock,
          authCache,   \* a.cache: the instant each confirmed token expires
          call,        \* per handler: [at, token]
          accepted,    \* the tokens the API server takes for the expected account's
          confirmed    \* history: when a token was last put into the cache

Waiting == [at |-> "idle", token |-> NoToken]

AuthInit ==
    /\ authCache = [t \in {} |-> 0] /\ call = [h \in Handler |-> Waiting]
    /\ accepted \in SUBSET Token
    /\ confirmed = [t \in Token |-> 0]

Live(tok) == tok \in DOMAIN authCache /\ clock < authCache[tok]

Dropping(tokens) == [t \in DOMAIN authCache \ tokens |-> authCache[t]]

(* Mutant: a hit prolongs the entry. *)
cacheHitSlides(tok) ==
    authCache' = IF Live(tok) THEN [authCache EXCEPT ![tok] = clock + CacheTTL] ELSE Dropping({tok})

\* An expired entry is removed when it is met.
cacheHit(tok) == authCache' = IF Live(tok) THEN authCache ELSE Dropping({tok})

(* Middleware, up to the review. *)
Arrive(h, tok) ==
    /\ call[h].at = "idle"
    /\ IF tok = NoToken THEN UNCHANGED <<authCache, call>>
       ELSE /\ cacheHit(tok)
            /\ call' = [call EXCEPT ![h] = [at |-> IF Live(tok) THEN "admitted" ELSE "review", token |-> tok]]
    /\ UNCHANGED <<accepted, confirmed>>

(* CreateTokenReview: the API server cannot be asked, does not know the    *)
(* token, knows it as another account's, or confirms it.                   *)
Review(h) ==
    /\ call[h].at = "review"
    /\ \/ call' = [call EXCEPT ![h] = Waiting]
       \/ /\ call[h].token \in accepted
          /\ call' = [call EXCEPT ![h].at = "put"]
    /\ UNCHANGED <<authCache, accepted, confirmed>>

\* A full cache first loses what is expired, and then, if it is still full,
\* an entry that expires soonest; tok itself may be it.
cachePut(tok) ==
    LET full(s) == Cardinality(s) >= CacheMax
        fresh == IF full(DOMAIN authCache) THEN {t \in DOMAIN authCache : Live(t)} ELSE DOMAIN authCache
        soonest == {t \in fresh : \A u \in fresh : authCache[t] <= authCache[u]} IN
    \E victims \in IF full(fresh) THEN {{t} : t \in soonest} ELSE {{}} :
        authCache' = [t \in (fresh \ victims) \cup {tok} |->
                        IF t = tok THEN clock + CacheTTL ELSE authCache[t]]

Put(h) ==
    /\ call[h].at = "put"
    /\ cachePut(call[h].token)
    /\ confirmed' = [confirmed EXCEPT ![call[h].token] = clock]
    /\ call' = [call EXCEPT ![h].at = "admitted"]
    /\ UNCHANGED accepted

(* The token's time is over, or its account is gone. *)
Revoke(tok) ==
    /\ tok \in accepted
    /\ accepted' = accepted \ {tok}
    /\ UNCHANGED <<authCache, call, confirmed>>

-----------------------------------------------------------------------------
(* The cache stays within its bound, whatever requests race for it         *)
(* (cachePut: "the bound exists to prevent unbounded growth").             *)
CacheBounded == Cardinality(DOMAIN authCache) <= CacheMax

(* A request that is admitted without a review carries a token that some   *)
(* handler confirmed and put into the cache less than cacheTTL ago: hits   *)
(* do not prolong an entry, so a token the API server no longer accepts    *)
(* goes out of use in time.  The time runs from cachePut; how long the     *)
(* handler took to get there from the review is not bounded by the code.   *)
AdmissionFresh ==
    [][\A h \in Handler : call[h].at = "idle" /\ call'[h].at = "admitted"
         => clock - confirmed[call'[h].token] < CacheTTL /\ confirmed[call'[h].token] > 0]_<<call, clock>>

(* What the token cache promises: it stays within its bound, and nothing   *)
(* is admitted on a confirmation that has run out (cachePut, cacheHit).    *)
CachedAdmission == []CacheBounded /\ AdmissionFresh
=============================================================================
