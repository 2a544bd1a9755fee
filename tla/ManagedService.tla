---------------------------- MODULE ManagedService ----------------------------
(***************************************************************************)
(* The managed resolver and revocation services                            *)
(* (managed-service-runtime/src) and the SDK's client of them              *)
(* (sdk/src/managed-service-client.ts).                                    *)
(*                                                                         *)
(* A request passes the rate limiter of its service in the step it         *)
(* arrives, then the API key's lookup and the service's own call, each of  *)
(* them awaited.  The answer may reach a client that has given up.  Usage  *)
(* is written after the answer, in the background, and may be lost.        *)
(* last_used_at, which nothing reads, and the metrics are left out.        *)
(***************************************************************************)
EXTENDS Integers, FiniteSets

CONSTANTS
    MsClients,      \* SDK clients
    MsIpOf,         \* client -> its address
    MsKeyOf,        \* client -> its API key or NoKey
    MsKeys,         \* API keys in the table
    MsSlots,        \* requests in flight
    MsHasChecker,   \* whether the revocation service was given a checker
    MsWindow, MsQuota, \* the FREE quota: windowMs, max
    MaxBuckets,     \* maxBuckets
    MsRetries,      \* maxRetries of the client
    MaxMsTime,      \* bound: clock
    MaxMsRequests   \* bound: requests sent

VARIABLES
    msNow,
    msKeysGood,  \* API keys that are active, unexpired and of an active tenant
    msRevoked,    \* whether the credential asked about is revoked
    msBuckets,    \* service -> address -> token bucket
    msRequest,    \* slot -> the request handled there
    msClient,     \* client -> its call
    msUsage,      \* usage_log: (key or anonymous) -> requests and errors counted
    msWrites,     \* usage records on their way to the database: a function to numbers
    msFinished,   \* responses that finished and whose usage was not lost
    msSent        \* bound

msVars == <<msNow, msKeysGood, msRevoked, msBuckets, msRequest, msClient, msUsage, msWrites,
            msFinished, msSent>>

NoKey == "noKey"
NoIp == "noIp"
Services == {"resolver", "revocation"}
Ips == {MsIpOf[c] : c \in MsClients}
Payers == MsKeys \cup {NoKey}
\* tokens are counted in units of 1/MsWindow, so that a refill is a whole number
Bucket == [tokens : 0..(MsQuota * MsWindow), refill : 0..MaxMsTime, access : 0..MaxMsTime,
           since : 0..MaxMsTime, used : 0..MaxMsRequests]
NoBucket == [tokens |-> 0, refill |-> 0, access |-> 0, since |-> 0, used |-> -1]
MsStatus == {0, 200, 401, 404, 429, 500, 502, 503}
MsRequestState == [pc : {"free", "lookup", "handle", "respond"}, service : Services, key : Payers,
                   payer : Payers, status : MsStatus, revoked : BOOLEAN, open : BOOLEAN]
FreeSlot == [pc |-> "free", service |-> "resolver", key |-> NoKey, payer |-> NoKey,
             status |-> 0, revoked |-> FALSE, open |-> FALSE]
MsAnswer == {"none", "unknown", "fallback", "document", "noDocument", "revoked", "valid", "thrown"}
MsClientState == [pc : {"idle", "send", "wait"}, service : Services, attempt : 0..MsRetries,
                  slot : MsSlots \cup {NoIp}, wasRevoked : BOOLEAN, answer : MsAnswer]
IdleClient == [pc |-> "idle", service |-> "resolver", attempt |-> 0, slot |-> NoIp, wasRevoked |-> FALSE,
               answer |-> "none"]
UsageRow == [count : Nat, errors : Nat]
ZeroUsage == [count |-> 0, errors |-> 0]

ASSUME MsAssumption ==
    /\ MsIpOf \in [MsClients -> Ips] /\ MsKeyOf \in [MsClients -> Payers]
    /\ NoIp \notin MsSlots /\ MsHasChecker \in BOOLEAN
    /\ MsWindow \in Nat \ {0} /\ MsQuota \in Nat /\ MaxBuckets \in Nat \ {0}
    /\ MsRetries \in Nat /\ MaxMsTime \in Nat /\ MaxMsRequests \in Nat

\* The buckets, the requests and the calls keep their types: a bucket never holds more than a full
\* quota, and no usage count is negative.
MsTypeOK ==
    /\ msNow \in 0..MaxMsTime /\ msRevoked \in BOOLEAN /\ msSent \in 0..MaxMsRequests
    /\ msKeysGood \subseteq MsKeys
    /\ msBuckets \in [Services -> [Ips -> Bucket \cup {NoBucket}]]
    /\ msRequest \in [MsSlots -> MsRequestState]
    /\ msClient \in [MsClients -> MsClientState]
    /\ msUsage \in [Payers -> UsageRow] /\ msWrites \in [Payers -> UsageRow] /\ msFinished \in [Payers -> UsageRow]

MsInit ==
    /\ msNow = 0 /\ msRevoked = FALSE /\ msSent = 0
    /\ msKeysGood = MsKeys
    /\ msBuckets = [e \in Services |-> [i \in Ips |-> NoBucket]]
    /\ msRequest = [s \in MsSlots |-> FreeSlot]
    /\ msClient = [c \in MsClients |-> IdleClient]
    /\ msUsage = [p \in Payers |-> ZeroUsage]
    /\ msWrites = [p \in Payers |-> ZeroUsage]
    /\ msFinished = [p \in Payers |-> ZeroUsage]

-----------------------------------------------------------------------------
(* the rate limiter: one map of buckets per service, keyed by the address *)

Held(e) == {i \in Ips : msBuckets[e][i] # NoBucket}

\* evictOldest: the first of those not accessed for longest
EvictOldest(e) ==
    {CHOOSE i \in Held(e) : \A j \in Held(e) : msBuckets[e][i].access <= msBuckets[e][j].access}

GetOrCreateBucket(e, ip) ==
    LET evicted == IF msBuckets[e][ip] = NoBucket /\ Cardinality(Held(e)) >= MaxBuckets
                   THEN EvictOldest(e) ELSE {}
    IN  [i \in Ips |-> IF i \in evicted THEN NoBucket
                       ELSE IF i = ip /\ msBuckets[e][ip] = NoBucket
                       THEN [tokens |-> MsQuota * MsWindow, refill |-> msNow, access |-> msNow,
                             since |-> msNow, used |-> 0]
                       ELSE msBuckets[e][i]]

RefillBucket(b) ==
    LET more == b.tokens + (msNow - b.refill) * MsQuota
    IN  [tokens |-> IF more > MsQuota * MsWindow THEN MsQuota * MsWindow ELSE more,
         refill |-> msNow, access |-> msNow, since |-> b.since, used |-> b.used]

TakeToken(b) ==
    [tokens |-> b.tokens - MsWindow, refill |-> b.refill, access |-> b.access, since |-> b.since,
     used |-> b.used + 1]

\* a request of this address, and whether it may pass
RateLimited(e, ip) == RefillBucket(GetOrCreateBucket(e, ip)[ip]).tokens < MsWindow
AfterRateLimit(e, ip) ==
    LET b == RefillBucket(GetOrCreateBucket(e, ip)[ip])
    IN  [msBuckets EXCEPT ![e] = [GetOrCreateBucket(e, ip) EXCEPT ![ip] =
            IF b.tokens < MsWindow THEN b ELSE TakeToken(b)]]

-----------------------------------------------------------------------------
(* the client *)

ServiceUnchanged == UNCHANGED <<msNow, msKeysGood, msRevoked, msUsage, msWrites, msFinished>>

\* the call of a client goes on
Moved(call, pc, attempt, slot, answer) ==
    [pc |-> pc, service |-> call.service, attempt |-> attempt, slot |-> slot,
     wasRevoked |-> call.wasRevoked, answer |-> answer]

\* resolveDid or checkRevocation is called
CallService(c, e) ==
    /\ msClient[c].pc = "idle"
    /\ msClient' = [msClient EXCEPT ![c] =
          [pc |-> "send", service |-> e, attempt |-> 0, slot |-> NoIp, wasRevoked |-> msRevoked, answer |-> "none"]]
    /\ UNCHANGED <<msBuckets, msRequest, msSent>> /\ ServiceUnchanged

\* fetch: the request arrives and passes the limiter or is answered 429.  Without a key there is
\* nothing to look up
SendRequest(c, s) ==
    LET e == msClient[c].service
        ip == MsIpOf[c]
    IN  /\ msClient[c].pc = "send" /\ msRequest[s].pc = "free"
        /\ msSent < MaxMsRequests /\ msSent' = msSent + 1
        /\ msBuckets' = AfterRateLimit(e, ip)
        /\ msRequest' = [msRequest EXCEPT ![s] =
              [pc |-> IF RateLimited(e, ip) THEN "respond"
                      ELSE IF MsKeyOf[c] = NoKey THEN "handle" ELSE "lookup",
               service |-> e, key |-> MsKeyOf[c], payer |-> NoKey,
               status |-> IF RateLimited(e, ip) THEN 429 ELSE 0, revoked |-> FALSE, open |-> TRUE]]
        /\ msClient' = [msClient EXCEPT ![c] = Moved(@, "wait", @.attempt, s, @.answer)]
        /\ ServiceUnchanged

EndCall(c, answer) == msClient' = [msClient EXCEPT ![c] = Moved(@, "idle", @.attempt, NoIp, answer)]

\* mutant: a token nobody could ask about counts as not revoked
Fallback_NotRevoked(e) == IF e = "revocation" THEN "valid" ELSE "fallback"

\* what the caller is given when the service cannot be reached: the fallback resolver's document,
\* or that the credential's state is unknown
Fallback(e) == IF e = "revocation" THEN "unknown" ELSE "fallback"
\* a server error, a network error or a timeout: another attempt, or the fallback
ServerError(c) ==
    IF msClient[c].attempt < MsRetries
    THEN msClient' = [msClient EXCEPT ![c] = Moved(@, "send", @.attempt + 1, NoIp, @.answer)]
    ELSE EndCall(c, Fallback(msClient[c].service))

\* fetchWithTimeout aborts: the connection closes, the server goes on
TimeoutRequest(c) ==
    LET s == msClient[c].slot
    IN  /\ msClient[c].pc = "wait"
        /\ ServerError(c)
        /\ msRequest' = [msRequest EXCEPT ![s] = [@ EXCEPT !.open = FALSE]]
        /\ UNCHANGED <<msBuckets, msSent>> /\ ServiceUnchanged

\* 2xx is the answer; 404 of a DID is "no document"; other 4xx are thrown; 5xx are server errors
TakeAnswer(c, r) ==
    IF r.status = 200 THEN EndCall(c, IF r.service = "resolver" THEN "document"
                                      ELSE IF r.revoked THEN "revoked" ELSE "valid")
    ELSE IF r.status = 404 /\ r.service = "resolver" THEN EndCall(c, "noDocument")
    ELSE IF r.status \in 400..499 THEN EndCall(c, "thrown")
    ELSE ServerError(c)

-----------------------------------------------------------------------------
(* the server *)

\* an unknown, revoked or expired key, or a suspended tenant, is refused; a failing query is a 500
KeyAccepted(k) == k \in msKeysGood

\* the row of the key, read after an await
LookupApiKey(s) ==
    LET k == msRequest[s].key
    IN  /\ msRequest[s].pc = "lookup"
        /\ msRequest' = [msRequest EXCEPT ![s] =
              IF KeyAccepted(k) THEN [[@ EXCEPT !.pc = "handle"] EXCEPT !.payer = k]
              ELSE [[@ EXCEPT !.pc = "respond"] EXCEPT !.status = 401]]
        /\ UNCHANGED <<msBuckets, msClient, msSent>> /\ ServiceUnchanged

Respond(s, status) ==
    /\ msRequest' = [msRequest EXCEPT ![s] =
          [[[@ EXCEPT !.pc = "respond"] EXCEPT !.status = status] EXCEPT !.revoked = msRevoked]]
    /\ UNCHANGED <<msBuckets, msClient, msSent>> /\ ServiceUnchanged

\* the database or the checker or the resolver throws
HandlerFails(s) ==
    \/ msRequest[s].pc = "lookup" /\ Respond(s, 500)
    \/ /\ msRequest[s].pc = "handle" /\ (msRequest[s].service = "resolver" \/ MsHasChecker)
       /\ Respond(s, 502)

\* without a checker the service answers 503; the stub is never asked
HandleRevocationCheck(s) ==
    /\ msRequest[s].pc = "handle" /\ msRequest[s].service = "revocation"
    /\ Respond(s, IF MsHasChecker THEN 200 ELSE 503)

HandleResolve(s) ==
    /\ msRequest[s].pc = "handle" /\ msRequest[s].service = "resolver"
    /\ \E found \in BOOLEAN : Respond(s, IF found THEN 200 ELSE 404)

Counted(u, p, isError) == [u EXCEPT ![p] = [count |-> @.count + 1, errors |-> @.errors + isError]]
IsError(s) == IF msRequest[s].status >= 400 THEN 1 ELSE 0

\* the response is sent: the usage record leaves for the database.  The request of a closed
\* connection may or may not finish
FinishResponse(s) ==
    LET r == msRequest[s]
        p == r.payer
    IN  /\ r.pc = "respond"
        /\ \/ /\ msWrites' = Counted(msWrites, p, IsError(s))
              /\ msFinished' = Counted(msFinished, p, IsError(s))
           \/ ~r.open /\ UNCHANGED <<msWrites, msFinished>>
        /\ IF r.open
           THEN \E c \in MsClients : msClient[c].slot = s /\ TakeAnswer(c, r)
           ELSE UNCHANGED msClient
        /\ msRequest' = [msRequest EXCEPT ![s] = FreeSlot]
        /\ UNCHANGED <<msNow, msKeysGood, msRevoked, msBuckets, msUsage, msSent>>

\* the upsert adds to the row of its payer, atomically
RunIncr(p, e) == Counted(msUsage, p, e)

Uncounted(u, p, isError) == [u EXCEPT ![p] = [count |-> @.count - 1, errors |-> @.errors - isError]]
Pending(p, isError) ==
    IF isError = 1 THEN msWrites[p].errors > 0 ELSE msWrites[p].count > msWrites[p].errors

RecordUsage(p, isError) ==
    /\ Pending(p, isError)
    /\ msUsage' = RunIncr(p, isError)
    /\ msWrites' = Uncounted(msWrites, p, isError)
    /\ UNCHANGED <<msNow, msKeysGood, msRevoked, msBuckets, msRequest, msClient, msFinished, msSent>>

\* onError: the record is logged and lost
UsageWriteFails(p, isError) ==
    /\ Pending(p, isError)
    /\ msWrites' = Uncounted(msWrites, p, isError)
    /\ msFinished' = Uncounted(msFinished, p, isError)
    /\ UNCHANGED <<msNow, msKeysGood, msRevoked, msBuckets, msRequest, msClient, msUsage, msSent>>

-----------------------------------------------------------------------------
(* operators and time *)

\* the key is revoked or expires, or its tenant is suspended
EndKey(k) ==
    /\ k \in msKeysGood /\ msKeysGood' = msKeysGood \ {k}
    /\ UNCHANGED <<msNow, msRevoked, msBuckets, msRequest, msClient, msUsage, msWrites, msFinished, msSent>>

RevokeCredential ==
    /\ ~msRevoked /\ msRevoked' = TRUE
    /\ UNCHANGED <<msNow, msKeysGood, msBuckets, msRequest, msClient, msUsage, msWrites, msFinished, msSent>>

MsTick ==
    /\ msNow < MaxMsTime /\ msNow' = msNow + 1
    /\ UNCHANGED <<msKeysGood, msRevoked, msBuckets, msRequest, msClient, msUsage, msWrites, msFinished,
                   msSent>>

MsNext ==
    \/ \E c \in MsClients : \/ \E e \in Services : CallService(c, e)
                            \/ \E s \in MsSlots : SendRequest(c, s)
                            \/ TimeoutRequest(c)
    \/ \E s \in MsSlots : \/ LookupApiKey(s) \/ HandlerFails(s) \/ HandleRevocationCheck(s)
                          \/ HandleResolve(s) \/ FinishResponse(s)
    \/ \E p \in Payers, e \in {0, 1} : RecordUsage(p, e) \/ UsageWriteFails(p, e)
    \/ \E k \in MsKeys : EndKey(k)
    \/ RevokeCredential \/ MsTick

MsSpec == MsInit /\ [][MsNext]_msVars

-----------------------------------------------------------------------------
\* The client never says a credential is valid that had been revoked before the call, whatever
\* fails, times out or is answered late.
RevokedIsNeverValid ==
    \A c \in MsClients : msClient[c].pc = "idle" /\ msClient[c].answer = "valid" => ~msClient[c].wasRevoked

\* From the creation of an address's bucket no more requests pass than the quota and what was
\* refilled since, and the requests that finished are in usage_log or on their way there.
LimitsAndUsageHold ==
    /\ \A e \in Services, i \in Ips :
          LET b == msBuckets[e][i]
          IN  b # NoBucket => b.used * MsWindow + b.tokens <= MsQuota * (MsWindow + msNow - b.since)
    /\ \A p \in Payers : /\ msUsage[p].count + msWrites[p].count = msFinished[p].count
                         /\ msUsage[p].errors + msWrites[p].errors = msFinished[p].errors

\* Both at once: what the managed services answer, admit and account for.
ServiceIsSound == RevokedIsNeverValid /\ LimitsAndUsageHold

=============================================================================
