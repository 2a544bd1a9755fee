----------------------------- MODULE Revocation -----------------------------
(***************************************************************************)
(* Revocation of tokens: the table and its writer (policy/src/revocation/  *)
(* revocation-list-store.ts), the API with its cache (revocation-api.ts,   *)
(* revocation-cache.ts) and the SDK client with a cache of its own over    *)
(* the API (sdk/src/revocation/revocation-list-client.ts).                 *)
(*                                                                         *)
(* One tenant and one list.  A check that misses both caches reads the     *)
(* table and then fills the API's cache and the client's, each after an    *)
(* await; a revocation invalidates both, writes, and then sets both.  The  *)
(* caches expire by TTL.  A query is answered within Latency ticks.        *)
(***************************************************************************)
EXTENDS Integers, FiniteSets

CONSTANTS
    RevTokens,    \* token ids
    RevClients,   \* SDK clients, each with its cache and one call at a time
    ApiTtl,       \* ttlMs of RevocationCache
    SdkTtl,       \* cacheTtlMs of RevocationListClient
    CacheSize,    \* maxSize of both caches
    Latency,      \* longest time a call stays in flight
    MaxRevTime,   \* bound: the clock
    MaxRevCalls   \* bound: calls started

ASSUME RevAssumption ==
    /\ IsFiniteSet(RevTokens) /\ RevTokens # {}
    /\ ApiTtl \in Nat /\ SdkTtl \in Nat /\ Latency \in Nat
    /\ CacheSize \in Nat \ {0} /\ MaxRevTime \in Nat /\ MaxRevCalls \in Nat

VARIABLES
    revRows,      \* policy.revocation_records: token -> list_version, 0 if not revoked
    apiCache,     \* token -> [revoked, expiresAt], or a miss
    sdkCache,     \* the same per client
    revCall,      \* the call each client is in
    revNow,       \* Date.now()
    revStarted,   \* calls started (bound)
    revokedAt,    \* history: when a token's row was committed (-1: not yet)
    lastFalse     \* history: when a check last answered "not revoked" (-1: never)

revVars == <<revRows, apiCache, sdkCache, revCall, revNow, revStarted, revokedAt, lastFalse>>

RevTime == 0..MaxRevTime
RevMiss == [revoked |-> FALSE, expiresAt |-> -1]
RevEntry == [revoked : BOOLEAN, expiresAt : -1..(MaxRevTime + ApiTtl + SdkTtl)]
RevCache == [RevTokens -> RevEntry]
RevVersion == 0..Cardinality(RevTokens)

RevCallState == [pc : {"idle", "reading", "read", "answered", "version", "dup", "insert",
                       "commit", "written", "duplicate", "failed"},
                 token : RevTokens, at : RevTime, value : BOOLEAN, version : Nat]

\* The table, the caches and the calls keep their types.
RevTypeOK ==
    /\ revRows \in [RevTokens -> RevVersion]
    /\ apiCache \in RevCache
    /\ sdkCache \in [RevClients -> RevCache]
    /\ revCall \in [RevClients -> RevCallState]
    /\ revNow \in RevTime /\ revStarted \in 0..MaxRevCalls
    /\ revokedAt \in [RevTokens -> RevTime \cup {-1}]
    /\ lastFalse \in [RevTokens -> RevTime \cup {-1}]

IdleRevCall == [pc |-> "idle", token |-> CHOOSE t \in RevTokens : TRUE, at |-> 0,
                value |-> FALSE, version |-> 0]

RevInit ==
    /\ revRows = [t \in RevTokens |-> 0]
    /\ apiCache = [t \in RevTokens |-> RevMiss]
    /\ sdkCache = [c \in RevClients |-> [t \in RevTokens |-> RevMiss]]
    /\ revCall = [c \in RevClients |-> IdleRevCall]
    /\ revNow = 0 /\ revStarted = 0
    /\ revokedAt = [t \in RevTokens |-> -1] /\ lastFalse = [t \in RevTokens |-> -1]

-----------------------------------------------------------------------------
(* The caches.                                                             *)

\* get: an entry is served up to and including its expiry
CacheHit(cache, t) == cache[t].expiresAt >= revNow

\* set: a full cache makes room by dropping the entry used least recently; which one
\* that is stays open here.  The set of caches that can result.
CacheSet(cache, t, revoked, ttl) ==
    LET present == {u \in RevTokens : cache[u] # RevMiss}
        victims == IF cache[t] = RevMiss /\ Cardinality(present) >= CacheSize THEN present ELSE {t}
    IN  {[u \in RevTokens |-> IF u = t THEN [revoked |-> revoked, expiresAt |-> revNow + ttl]
                              ELSE IF u = v THEN RevMiss ELSE cache[u]] : v \in victims}

CacheDrop(cache, t) == [cache EXCEPT ![t] = RevMiss]

\* mutant: a hit renews the entry
SdkGet_Renewed(c, t) == [revoked |-> sdkCache[c][t].revoked, expiresAt |-> revNow + SdkTtl]

\* what a check finds in the client's cache: the entry as it is, or one renewed by the read
SdkGet(c, t) == sdkCache[c][t]

-----------------------------------------------------------------------------
(* checkRevoked and RevocationApi.isRevoked.                               *)

StartRevCall(c) ==
    /\ revCall[c].pc = "idle"
    /\ revStarted < MaxRevCalls /\ revStarted' = revStarted + 1

RevGoto(c, pc) == revCall' = [revCall EXCEPT ![c] = [revCall[c] EXCEPT !.pc = pc]]

RevBegin(c, t, pc, value) ==
    revCall' = [revCall EXCEPT ![c] = [pc |-> pc, token |-> t, at |-> revNow,
                                       value |-> value, version |-> 0]]

Answer(t, value) == lastFalse' = [lastFalse EXCEPT ![t] = IF value THEN @ ELSE revNow]

CheckHit(c, t) ==
    /\ revCall[c].pc = "idle"
    /\ CacheHit(sdkCache[c], t)
    /\ sdkCache' = [sdkCache EXCEPT ![c] = [sdkCache[c] EXCEPT ![t] = SdkGet(c, t)]]
    /\ Answer(t, sdkCache[c][t].revoked)
    /\ UNCHANGED <<revRows, apiCache, revCall, revNow, revStarted, revokedAt>>

\* the client misses (an expired entry goes), the API's cache answers or the table is asked
CheckMiss(c, t) ==
    /\ StartRevCall(c)
    /\ ~CacheHit(sdkCache[c], t)
    /\ sdkCache' = [sdkCache EXCEPT ![c] = CacheDrop(sdkCache[c], t)]
    /\ IF CacheHit(apiCache, t)
       THEN RevBegin(c, t, "answered", apiCache[t].revoked) /\ UNCHANGED apiCache
       ELSE RevBegin(c, t, "reading", FALSE) /\ apiCache' = CacheDrop(apiCache, t)
    /\ UNCHANGED <<revRows, revNow, revokedAt, lastFalse>>

\* RevocationListStore.isRevoked
StoreIsRevoked(c) ==
    /\ revCall[c].pc = "reading"
    /\ revCall' = [revCall EXCEPT ![c] = [revCall[c] EXCEPT !.pc = "read",
                                            !.value = revRows[revCall[c].token] # 0]]
    /\ UNCHANGED <<revRows, apiCache, sdkCache, revNow, revStarted, revokedAt, lastFalse>>

\* the query fails: the error is thrown through both layers, nothing is cached
CheckFails(c) ==
    /\ revCall[c].pc = "reading"
    /\ RevGoto(c, "idle")
    /\ UNCHANGED <<revRows, apiCache, sdkCache, revNow, revStarted, revokedAt, lastFalse>>

BackfillApi(c) ==
    /\ revCall[c].pc = "read"
    /\ apiCache' \in CacheSet(apiCache, revCall[c].token, revCall[c].value, ApiTtl)
    /\ RevGoto(c, "answered")
    /\ UNCHANGED <<revRows, sdkCache, revNow, revStarted, revokedAt, lastFalse>>

BackfillSdk(c) ==
    /\ revCall[c].pc = "answered"
    /\ \E e \in CacheSet(sdkCache[c], revCall[c].token, revCall[c].value, SdkTtl) :
           sdkCache' = [sdkCache EXCEPT ![c] = e]
    /\ Answer(revCall[c].token, revCall[c].value)
    /\ RevGoto(c, "idle")
    /\ UNCHANGED <<revRows, apiCache, revNow, revStarted, revokedAt>>

-----------------------------------------------------------------------------
(* revokeCredential, RevocationApi.revoke, RevocationListStore.revoke.     *)

RevokeStart(c, t) ==
    /\ StartRevCall(c)
    /\ sdkCache' = [sdkCache EXCEPT ![c] = CacheDrop(sdkCache[c], t)]
    /\ apiCache' = CacheDrop(apiCache, t)
    /\ RevBegin(c, t, "version", FALSE)
    /\ UNCHANGED <<revRows, revNow, revokedAt, lastFalse>>

MaxVersion == CHOOSE n \in RevVersion :
    /\ \A t \in RevTokens : revRows[t] <= n
    /\ n = 0 \/ \E t \in RevTokens : revRows[t] = n

\* SELECT MAX(list_version) + 1 ... FOR UPDATE: where the database takes the statement it
\* locks nothing that keeps another transaction from reading the same maximum
NextListVersion(c) ==
    /\ revCall[c].pc = "version"
    /\ revCall' = [revCall EXCEPT ![c] = [revCall[c] EXCEPT !.pc = "dup",
                                                            !.version = MaxVersion + 1]]
    /\ UNCHANGED <<revRows, apiCache, sdkCache, revNow, revStarted, revokedAt, lastFalse>>

\* the SELECT for a duplicate: ROLLBACK and REVOCATION_DUPLICATE
DuplicateSelect(c) ==
    /\ revCall[c].pc = "dup"
    /\ RevGoto(c, IF revRows[revCall[c].token] # 0 THEN "duplicate" ELSE "insert")
    /\ UNCHANGED <<revRows, apiCache, sdkCache, revNow, revStarted, revokedAt, lastFalse>>

\* the two unique indexes: (tenant, token) and (tenant, list, version).  The INSERT waits
\* for an uncommitted row that collides, and fails on a committed one.
Uncommitted(c) == {d \in RevClients \ {c} :
    /\ revCall[d].pc = "commit"
    /\ revCall[d].token = revCall[c].token \/ revCall[d].version = revCall[c].version}

IndexesFree(c) ==
    revRows[revCall[c].token] = 0 /\ \A t \in RevTokens : revRows[t] # revCall[c].version

RevokeInsert(c) ==
    /\ revCall[c].pc = "insert" /\ Uncommitted(c) = {}
    /\ RevGoto(c, IF IndexesFree(c) THEN "commit" ELSE "failed")
    /\ UNCHANGED <<revRows, apiCache, sdkCache, revNow, revStarted, revokedAt, lastFalse>>

\* COMMIT; the connection may break before its answer arrives, and the ROLLBACK of the catch then
\* undoes nothing
RevokeCommit(c) ==
    /\ revCall[c].pc = "commit"
    /\ revRows' = [revRows EXCEPT ![revCall[c].token] = revCall[c].version]
    /\ revokedAt' = [revokedAt EXCEPT ![revCall[c].token] = revNow]
    /\ RevGoto(c, "written") \/ RevGoto(c, "failed")
    /\ UNCHANGED <<apiCache, sdkCache, revNow, revStarted, lastFalse>>

\* any statement may fail: ROLLBACK, REVOCATION_LIST_VERSION_CONFLICT or _STORE_ERROR
RevokeError(c) ==
    /\ revCall[c].pc \in {"version", "dup", "insert", "commit"}
    /\ RevGoto(c, "failed")
    /\ UNCHANGED <<revRows, apiCache, sdkCache, revNow, revStarted, revokedAt, lastFalse>>

\* mutant: the cache is filled whether or not the insert committed
ApiAfterRevoke_Always(c) == CacheSet(apiCache, revCall[c].token, TRUE, ApiTtl)

\* what the API does with the store's answer: only ok sets its cache
ApiAfterRevoke(c) ==
    IF revCall[c].pc = "written" THEN CacheSet(apiCache, revCall[c].token, TRUE, ApiTtl)
    ELSE {apiCache}

\* the answer reaches the API and the client; the client also caches a duplicate
RevokeAnswered(c) ==
    /\ revCall[c].pc \in {"written", "duplicate", "failed"}
    /\ apiCache' \in ApiAfterRevoke(c)
    /\ \E e \in IF revCall[c].pc = "failed" THEN {sdkCache[c]}
                ELSE CacheSet(sdkCache[c], revCall[c].token, TRUE, SdkTtl) :
           sdkCache' = [sdkCache EXCEPT ![c] = e]
    /\ RevGoto(c, "idle")
    /\ UNCHANGED <<revRows, revNow, revStarted, revokedAt, lastFalse>>

\* invalidateCacheEntry and invalidateCacheTenant of the client and of the API
InvalidateSdk(c, ts) ==
    /\ revStarted < MaxRevCalls /\ revStarted' = revStarted + 1
    /\ sdkCache' = [sdkCache EXCEPT ![c] = [t \in RevTokens |-> IF t \in ts THEN RevMiss ELSE @[t]]]
    /\ UNCHANGED <<revRows, apiCache, revCall, revNow, revokedAt, lastFalse>>
InvalidateApi(ts) ==
    /\ revStarted < MaxRevCalls /\ revStarted' = revStarted + 1
    /\ apiCache' = [t \in RevTokens |-> IF t \in ts THEN RevMiss ELSE apiCache[t]]
    /\ UNCHANGED <<revRows, sdkCache, revCall, revNow, revokedAt, lastFalse>>

RevTick ==
    /\ revNow < MaxRevTime
    /\ \A c \in RevClients : revCall[c].pc = "idle" \/ revNow < revCall[c].at + Latency
    /\ revNow' = revNow + 1
    /\ UNCHANGED <<revRows, apiCache, sdkCache, revCall, revStarted, revokedAt, lastFalse>>

RevNext ==
    \/ \E c \in RevClients, t \in RevTokens : CheckHit(c, t) \/ CheckMiss(c, t) \/ RevokeStart(c, t)
    \/ \E c \in RevClients :
          \/ StoreIsRevoked(c) \/ CheckFails(c) \/ BackfillApi(c) \/ BackfillSdk(c)
          \/ NextListVersion(c) \/ DuplicateSelect(c) \/ RevokeInsert(c) \/ RevokeCommit(c)
          \/ RevokeError(c) \/ RevokeAnswered(c)
    \/ \E ts \in {RevTokens} \cup {{t} : t \in RevTokens} :
          InvalidateApi(ts) \/ \E c \in RevClients : InvalidateSdk(c, ts)
    \/ RevTick

RevSpec == RevInit /\ [][RevNext]_revVars

-----------------------------------------------------------------------------
\* A check that read the table before a revocation committed may fill both caches with
\* "not revoked" after the revocation set them; still nobody is told so longer than the
\* two TTLs and two queries after the commit (isRevoked and checkRevoked backfill).
StaleForAtMostTheTtls ==
    \A t \in RevTokens :
        revokedAt[t] >= 0 => lastFalse[t] <= revokedAt[t] + ApiTtl + SdkTtl + 2 * Latency

\* A cached "revoked" is never wrong, whatever failed on the way, and the versions of the
\* list run from 1 without a gap or a repetition, whoever revokes at the same time.
RevocationsAreReal ==
    /\ \A t \in RevTokens :
          /\ apiCache[t].revoked => revRows[t] # 0
          /\ \A c \in RevClients : sdkCache[c][t].revoked => revRows[t] # 0
    /\ LET listed == {t \in RevTokens : revRows[t] # 0}
       IN  {revRows[t] : t \in listed} = 1..Cardinality(listed)

=============================================================================
