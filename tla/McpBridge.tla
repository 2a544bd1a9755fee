------------------------------ MODULE McpBridge ------------------------------
(***************************************************************************)
(* The MCP bridge (communication/src/bridge).                              *)
(*                                                                         *)
(* Its scope validator (scope-validator.ts): validateScope spends a        *)
(* token's daily quota and its total value in one SERIALIZABLE transaction *)
(* with idempotency rows, and starts over when PostgreSQL refuses to       *)
(* serialise it.  Any other error is the caller's, and so is a COMMIT that *)
(* took effect and whose reply was lost.                                   *)
(*                                                                         *)
(* Its calls: resolveSenderForMCPCall maps an MCP client to its agent      *)
(* across three awaits, the envelope adapter keeps a call on one hop and   *)
(* with its own client, the outbox gives a row to its owner alone, and the *)
(* server adapter starts and stops around awaited sockets.                 *)
(***************************************************************************)
EXTENDS Integers, FiniteSets, Functions

-----------------------------------------------------------------------------
(* validateScope                                                            *)

CONSTANTS
    BrWorkers,       \* the calls of validateScope that may overlap
    BrTokens,        \* token ids in UUID form
    BrCalls,         \* the calls: [key, token, limit, value, currency]
    BrClaims,        \* the disclosed claims, as in Claim below
    BrRetryMax,      \* DEFAULT_SERIALIZABLE_RETRY_MAX
    MaxBrCalls,      \* bound: scope validations started
    MaxDay           \* bound: days

VARIABLES
    scopeTables,     \* mcp_quota_counter, mcp_value_counter and the idempotency tables
    scopeCall,       \* scopeCall[w]: where a validation stands
    today,           \* the UTC day
    brStarted,       \* validations started
    scopeAdmitted    \* history: the calls let through, whether or not the caller heard of it

scopeVars == <<scopeTables, scopeCall, today, brStarted, scopeAdmitted>>

Missing == -1

BadToken == "not-a-uuid"

Currencies == {"usd", "eur"}

\* a claim is missing, or limits the calls of a day, the value of one call or the
\* total value; max_per_call limits numeric_limit
Claim ==
    [perCall : Int, perDay : Int, perValue : Int, total : Int,
     valueCurrency : Currencies, totalCurrency : Currencies]

BrKeys == {c.key : c \in BrCalls}

\* amounts are not negative, which validateScope leaves to its caller
ASSUME McAssumption ==
    /\ BrClaims \subseteq Claim /\ MaxBrCalls \in Nat /\ MaxDay \in Nat
    /\ \A c \in BrCalls : /\ c.token \in BrTokens \cup {BadToken} /\ c.currency \in Currencies
                         /\ c.value \in Nat \cup {Missing} /\ c.limit \in Nat \cup {Missing}

-----------------------------------------------------------------------------
\* the checks before the transaction, in their order
ScopeRefuses(c, claim) ==
    LET hasValue == c.value # Missing
        perValue == hasValue /\ claim.perValue # Missing
        total == hasValue /\ claim.total # Missing
        currency == IF perValue THEN claim.valueCurrency ELSE claim.totalCurrency
    IN  \/ c.token = BadToken
        \/ c.limit # Missing /\ (claim.perCall = Missing \/ c.limit > claim.perCall)
        \/ (perValue \/ total) /\ c.currency # currency
        \/ perValue /\ total /\ claim.valueCurrency # claim.totalCurrency
        \/ perValue /\ c.value > claim.perValue

\* which of the two cumulative limits the transaction has to spend
SpendsDay(claim) == claim.perDay # Missing

SpendsTotal(c, claim) == c.value # Missing /\ claim.total # Missing

QuotaRow(c, day) == <<c.token, day>>

ValueRow(c) == <<c.token, c.currency>>

\* INSERT .. ON CONFLICT DO UPDATE .. WHERE old + n <= max: the WHERE guards the
\* update alone, a first INSERT is never compared with the limit

CheckAndIncrement(old, n, max) ==
    IF old = Missing THEN n
    ELSE IF old + n <= max THEN old + n ELSE Missing

\* INSERT .. ON CONFLICT DO NOTHING RETURNING: the reservation of a request; only
\* 'ok' is ever committed, since a refusal rolls its own row back
Reserved(tables, c) == <<c.key, c.token>> \in tables.quotaIdem

ValueReserved(tables, c) == <<c.key, c.token, c.currency>> \in tables.valueIdem

\* runScopeTxBody on the transaction's snapshot: the outcome and the rows written
RunScopeTxBody(tables, c, claim, day) ==
    LET freshDay == SpendsDay(claim) /\ ~Reserved(tables, c)
        calls == CheckAndIncrement(tables.quota[QuotaRow(c, day)], 1, claim.perDay)
        freshTotal == SpendsTotal(c, claim) /\ ~ValueReserved(tables, c)
        sum == CheckAndIncrement(tables.value[ValueRow(c)], c.value, claim.total)
    IN  [ok |-> (freshDay => calls # Missing) /\ (freshTotal => sum # Missing),
         freshDay |-> freshDay, freshTotal |-> freshTotal,
         calls |-> calls, sum |-> sum]

\* the rows this transaction reads or writes, as another may have left them
Touched(tables, c, day) ==
    <<tables.quota[QuotaRow(c, day)], Reserved(tables, c),
      IF c.value = Missing THEN Missing ELSE tables.value[ValueRow(c)],
      ValueReserved(tables, c)>>

\* mutant: the transaction runs under READ COMMITTED
Serializable_Never(snapshot, c, day) == TRUE

\* PostgreSQL's part: a row that changed since the snapshot ends the transaction
\* with 40001 ('could not serialize access')
Serializable(snapshot, c, day) ==
    Touched(snapshot, c, day) = Touched(scopeTables, c, day)

\* what the transaction spent, and whether its caller was answered ok: true
Admission(n, c, claim, day, r, heard) ==
    [n |-> n, call |-> c, claim |-> claim, day |-> day, spent |-> r, heard |-> heard]

FreeOfCharge == [ok |-> TRUE, freshDay |-> FALSE, freshTotal |-> FALSE,
                 calls |-> Missing, sum |-> Missing]

NoScopeCall == [at |-> "idle"]

\* the tables, a validation in progress, and what is kept of an admission
ScopeTables ==
    [quota : [BrTokens \X (0..MaxDay) -> Nat \cup {Missing}],
     value : [BrTokens \X Currencies -> Nat \cup {Missing}],
     quotaIdem : SUBSET (BrKeys \X BrTokens), valueIdem : SUBSET (BrKeys \X BrTokens \X Currencies)]
ScopeRun ==
    [at : {"begin", "body"}, call : BrCalls, claim : BrClaims, day : 0..MaxDay, attempt : Nat,
     snapshot : ScopeTables, n : 1..MaxBrCalls]
Spending == [ok : BOOLEAN, freshDay : BOOLEAN, freshTotal : BOOLEAN, calls : Int, sum : Int]
ScopeAnswer ==
    [n : 1..MaxBrCalls, call : BrCalls, claim : BrClaims, day : 0..MaxDay, spent : Spending, heard : BOOLEAN]

StartScope(w, c, claim) ==
    /\ scopeCall[w].at = "idle"
    /\ brStarted < MaxBrCalls
    /\ brStarted' = brStarted + 1
    /\ IF ScopeRefuses(c, claim)
       THEN UNCHANGED <<scopeCall, scopeAdmitted>>
       ELSE IF SpendsDay(claim) \/ SpendsTotal(c, claim)
       THEN /\ scopeCall' = [scopeCall EXCEPT ![w] =
                  [at |-> "begin", call |-> c, claim |-> claim, day |-> today,
                   attempt |-> 1, snapshot |-> scopeTables, n |-> brStarted + 1]]
            /\ UNCHANGED scopeAdmitted
       ELSE /\ scopeAdmitted' = scopeAdmitted \cup {Admission(brStarted + 1, c, claim, today, FreeOfCharge, TRUE)}
            /\ UNCHANGED scopeCall
    /\ UNCHANGED <<scopeTables, today>>

\* acquireClient and BEGIN ISOLATION LEVEL SERIALIZABLE
BeginScope(w) ==
    /\ scopeCall[w].at = "begin"
    /\ scopeCall' = [scopeCall EXCEPT ![w].at = "body", ![w].snapshot = scopeTables]
    /\ UNCHANGED <<scopeTables, today, brStarted, scopeAdmitted>>

\* mutant: the reservation of the day is not committed with the counter
WriteScope_KeyForgotten(s, r) ==
    [quota |-> IF r.freshDay
               THEN [scopeTables.quota EXCEPT ![QuotaRow(s.call, s.day)] = r.calls]
               ELSE scopeTables.quota,
     value |-> IF r.freshTotal
               THEN [scopeTables.value EXCEPT ![ValueRow(s.call)] = r.sum]
               ELSE scopeTables.value,
     quotaIdem |-> scopeTables.quotaIdem, valueIdem |-> scopeTables.valueIdem]

\* the rows a transaction that commits leaves
WriteScope(s, r) ==
    [quota |-> IF r.freshDay
               THEN [scopeTables.quota EXCEPT ![QuotaRow(s.call, s.day)] = r.calls]
               ELSE scopeTables.quota,
     value |-> IF r.freshTotal
               THEN [scopeTables.value EXCEPT ![ValueRow(s.call)] = r.sum]
               ELSE scopeTables.value,
     quotaIdem |-> scopeTables.quotaIdem \cup
                   (IF r.freshDay THEN {<<s.call.key, s.call.token>>} ELSE {}),
     valueIdem |-> scopeTables.valueIdem \cup
                   (IF r.freshTotal THEN {<<s.call.key, s.call.token, s.call.currency>>} ELSE {})]

\* the body, and COMMIT or ROLLBACK; a serialization failure starts over until
\* the attempts are used up, when validateScope throws; it throws as well when the
\* reply to a COMMIT that took effect is lost
EndScope(w) ==
    LET s == scopeCall[w]
        r == RunScopeTxBody(s.snapshot, s.call, s.claim, s.day)
    IN  /\ s.at = "body"
        /\ \/ /\ ~Serializable(s.snapshot, s.call, s.day)
              /\ scopeCall' = [scopeCall EXCEPT ![w] =
                     IF s.attempt < BrRetryMax
                     THEN [s EXCEPT !.at = "begin", !.attempt = @ + 1]
                     ELSE NoScopeCall]
              /\ UNCHANGED <<scopeTables, scopeAdmitted>>
           \/ /\ Serializable(s.snapshot, s.call, s.day) /\ ~r.ok
              /\ scopeCall' = [scopeCall EXCEPT ![w] = NoScopeCall]
              /\ UNCHANGED <<scopeTables, scopeAdmitted>>
           \/ /\ Serializable(s.snapshot, s.call, s.day) /\ r.ok
              /\ scopeTables' = WriteScope(s, r)
              /\ \E heard \in BOOLEAN :
                    scopeAdmitted' = scopeAdmitted \cup {Admission(s.n, s.call, s.claim, s.day, r, heard)}
              /\ scopeCall' = [scopeCall EXCEPT ![w] = NoScopeCall]
        /\ UNCHANGED <<today, brStarted>>

\* an error that no serialization conflict explains: no connection, a failing
\* statement, a COMMIT that did not take effect; it is rolled back and thrown
ScopeThrows(w) ==
    /\ scopeCall[w].at # "idle"
    /\ scopeCall' = [scopeCall EXCEPT ![w] = NoScopeCall]
    /\ UNCHANGED <<scopeTables, today, brStarted, scopeAdmitted>>

NextDay ==
    /\ today < MaxDay
    /\ today' = today + 1
    /\ UNCHANGED <<scopeTables, scopeCall, brStarted, scopeAdmitted>>

-----------------------------------------------------------------------------

McInit ==
    /\ scopeTables = [quota |-> [k \in BrTokens \X (0..MaxDay) |-> Missing],
                      value |-> [k \in BrTokens \X Currencies |-> Missing],
                      quotaIdem |-> {}, valueIdem |-> {}]
    /\ scopeCall = [w \in BrWorkers |-> NoScopeCall]
    /\ today = 0
    /\ brStarted = 0
    /\ scopeAdmitted = {}

McNext ==
    \/ \E w \in BrWorkers :
          \/ \E c \in BrCalls, claim \in BrClaims : StartScope(w, c, claim)
          \/ BeginScope(w)
          \/ EndScope(w)
          \/ ScopeThrows(w)
    \/ NextDay

McSpec == McInit /\ [][McNext]_scopeVars

-----------------------------------------------------------------------------

\* The types of the tables and of the validations in progress.
McTypeOK ==
    /\ scopeTables \in ScopeTables
    /\ scopeCall \in [BrWorkers -> ScopeRun \cup {NoScopeCall}]
    /\ today \in 0..MaxDay /\ brStarted \in 0..MaxBrCalls
    /\ scopeAdmitted \subseteq ScopeAnswer

CountedOn(t, d) ==
    {a \in scopeAdmitted : a.spent.freshDay /\ a.call.token = t /\ a.day = d}

SpentIn(t, cur) ==
    {a \in scopeAdmitted : a.spent.freshTotal /\ a.call.token = t /\ a.call.currency = cur}

ValueOf(S) == SumFunctionOnSet([a \in S |-> a.call.value], S)

OrZero(n) == IF n = Missing THEN 0 ELSE n

\* a spending of the day and of the value, under the key of a
PaidDay(a) ==
    \E b \in scopeAdmitted :
        b.spent.freshDay /\ b.call.key = a.call.key /\ b.call.token = a.call.token

PaidTotal(a) ==
    \E b \in scopeAdmitted :
        /\ b.spent.freshTotal /\ b.call.key = a.call.key /\ b.call.token = a.call.token
        /\ b.call.currency = a.call.currency

\* The durable counters say what was let through, whatever validations overlapped,
\* threw or lost the reply to their COMMIT: they are the number and the sum of the
\* calls that spent them, one idempotency key spends once, apart from the call that
\* created a row none took it past its claim, and every call that was answered
\* ok: true is paid for under its key, if not by itself then by the one it retries
\* (runScopeTxBody: "quota + value accounting is inside a single outer SERIALIZABLE
\* transaction").
CountersMatchAdmissions ==
    /\ \A t \in BrTokens, d \in 0..MaxDay :
          OrZero(scopeTables.quota[<<t, d>>]) = Cardinality(CountedOn(t, d))
    /\ \A t \in BrTokens, cur \in Currencies :
          OrZero(scopeTables.value[<<t, cur>>]) = ValueOf(SpentIn(t, cur))
    /\ \A a, b \in scopeAdmitted :
          a # b /\ a.call.key = b.call.key /\ a.call.token = b.call.token =>
              /\ ~(a.spent.freshDay /\ b.spent.freshDay)
              /\ ~(a.spent.freshTotal /\ b.spent.freshTotal /\ a.call.currency = b.call.currency)
    /\ \A a \in scopeAdmitted :
          /\ a.spent.freshDay => a.spent.calls <= a.claim.perDay \/ a.spent.calls = 1
          /\ a.spent.freshTotal => a.spent.sum <= a.claim.total \/ a.spent.sum = a.call.value
          /\ a.heard /\ SpendsDay(a.claim) => PaidDay(a)
          /\ a.heard /\ SpendsTotal(a.call, a.claim) => PaidTotal(a)

-----------------------------------------------------------------------------
(* The calls and the server                                                 *)

CONSTANTS
    BrResolvers,     \* the calls of resolveSenderForMCPCall that may overlap
    BrAgents,        \* agents a binding may name
    MaxBrTime        \* bound: the clock

VARIABLES
    brNow,           \* Date.now()
    binding,         \* the registry's binding of the client
    bindingRevoked,  \* the revocation list's entry for the client
    sender,          \* sender[r]: where a resolution stands
    outbox,          \* mcp_outbox
    shown,           \* history: rows getOutboxByID returned, with the caller
    server           \* the MCPServerAdapter

brVars == <<brNow, binding, bindingRevoked, sender, outbox, shown, server>>

senderVars == <<brNow, binding, bindingRevoked, sender>>

NotRevoked == -1

ASSUME BrAssumption == MaxBrTime \in Nat /\ "none" \notin BrAgents

-----------------------------------------------------------------------------
(* resolveSenderForMCPCall: binding, revocation (with a timeout), DID       *)

NoResolution == [at |-> "idle"]
Resolving ==
    [at : {"revocation", "did", "resolved"}, agent : BrAgents, began : 0..MaxBrTime, wasRevoked : BOOLEAN]

\* the binding is there and its notAfter has not passed
LookupBinding(r) ==
    /\ sender[r].at = "idle"
    /\ binding.agent # "none" /\ brNow <= binding.notAfter
    /\ sender' = [sender EXCEPT ![r] = [at |-> "revocation", agent |-> binding.agent,
                                        began |-> brNow, wasRevoked |-> bindingRevoked # NotRevoked]]
    /\ UNCHANGED <<brNow, binding, bindingRevoked, outbox, shown, server>>

\* mutant: a check that did not answer in time lets the call pass
CheckRevocation_PendingPasses(r) ==
    /\ sender[r].at = "revocation"
    /\ sender' = [sender EXCEPT ![r].at = "did"]
    /\ UNCHANGED <<brNow, binding, bindingRevoked, outbox, shown, server>>

\* withTimeout: any status, an error and a timeout all refuse the call
CheckRevocation(r) ==
    /\ sender[r].at = "revocation"
    /\ \/ /\ bindingRevoked = NotRevoked
          /\ sender' = [sender EXCEPT ![r].at = "did"]
       \/ sender' = [sender EXCEPT ![r] = NoResolution]
    /\ UNCHANGED <<brNow, binding, bindingRevoked, outbox, shown, server>>

\* the DID resolves to a key, or the call is refused
ResolveSender(r) ==
    /\ sender[r].at = "did"
    /\ \/ sender' = [sender EXCEPT ![r].at = "resolved"]
       \/ sender' = [sender EXCEPT ![r] = NoResolution]
    /\ UNCHANGED <<brNow, binding, bindingRevoked, outbox, shown, server>>

\* the registry and the revocation list are the deployment's own
ChangeBinding ==
    /\ \/ \E a \in BrAgents : binding' = [agent |-> a, notAfter |-> brNow]
                              /\ binding # binding' /\ UNCHANGED bindingRevoked
       \/ bindingRevoked = NotRevoked /\ bindingRevoked' = brNow /\ UNCHANGED binding
    /\ UNCHANGED <<brNow, sender, outbox, shown, server>>

BrTick ==
    /\ brNow < MaxBrTime
    /\ brNow' = brNow + 1
    /\ UNCHANGED <<binding, bindingRevoked, sender, outbox, shown, server>>

-----------------------------------------------------------------------------
(* The envelope of a call, its single hop, and its row of the outbox        *)

\* a message as the adapter sees it
McpMessages ==
    [jsonrpc : BOOLEAN, method : BOOLEAN, client : {"m1", "m2", "none"},
     recipient : BOOLEAN, next : {"here", "there"}]

\* incomingMCPCallToEnvelope
IncomingCallToEnvelope(m, agent) ==
    m.jsonrpc /\ m.method /\ m.client # "none" /\ agent # "none" /\ m.recipient

AssertSameHop(m) == m.next = "here"

\* processSingleHopMCPCall
SingleHop(m, expected) == m.client = expected /\ AssertSameHop(m)

Subject(kind, value) == [kind |-> kind, value |-> value]
Subjects == [kind : {"agentDid", "mcpClientId", "tokenId"}, value : BrAgents]
OutboxRow == [owner : Subjects, wasRevoked : BOOLEAN]

\* a resolved call becomes an envelope and a row owned by the resolved agent
CreateOutboxRow(r, m) ==
    /\ sender[r].at = "resolved"
    /\ IF IncomingCallToEnvelope(m, sender[r].agent) /\ SingleHop(m, "m1")
       THEN outbox' = outbox \cup {[owner |-> Subject("agentDid", sender[r].agent),
                                    wasRevoked |-> sender[r].wasRevoked]}
       ELSE UNCHANGED outbox
    /\ sender' = [sender EXCEPT ![r] = NoResolution]
    /\ UNCHANGED <<brNow, binding, bindingRevoked, shown, server>>

\* mutant: the kinds of subject and owner are compared, not the subjects
OwnsRow_KindOnly(row, s) == s.kind = row.owner.kind

\* the caller signs the outbox challenge with the key of the subject it names,
\* and that subject has to be the row's owner
OwnsRow(row, s) == s = row.owner

GetOutboxByID(row, claimed, signer) ==
    /\ claimed.kind \in {"agentDid", "mcpClientId"}
    /\ signer = claimed.value
    /\ OwnsRow(row, claimed)
    /\ shown' = shown \cup {[row |-> row, caller |-> signer]}
    /\ UNCHANGED <<senderVars, outbox, server>>

-----------------------------------------------------------------------------
(* MCPServerAdapter: start() and stop() with the awaits between             *)

\* who runs _silentCleanup: start() when it failed, and the calls of stop()
Cleaners == {"start", "stop1", "stop2"}

ServerState ==
    [state : {"created", "starting", "running", "stopping", "stopped", "error"},
     mcp : BOOLEAN, http : BOOLEAN, starting : {"no", "stdio", "http", "listen"},
     cleaning : [Cleaners -> {"no", "mcp", "http"}]]

NewServer ==
    [state |-> "created", mcp |-> FALSE, http |-> FALSE,
     starting |-> "no", cleaning |-> [c \in Cleaners |-> "no"]]

\* a cleanup that awaits at, or that has nothing left to await
CleansAt(s, c, at) == [s EXCEPT !.cleaning[c] = at]

Cleaned(s, c) ==
    [s EXCEPT !.cleaning[c] = "no", !.state = IF c = "start" THEN "error" ELSE "stopped"]

\* _silentCleanup past the MCP server: the socket, if there is one
CleanSocket(s, c) == IF s.http THEN CleansAt(s, c, "http") ELSE Cleaned(s, c)

BeginCleanup(s, c) == IF s.mcp THEN CleansAt(s, c, "mcp") ELSE CleanSocket(s, c)

\* start() up to connect(), over the transport of the configuration
StartServer ==
    /\ server.state = "created"
    /\ \E transport \in {"stdio", "http"} :
          server' = [server EXCEPT !.state = "starting", !.mcp = TRUE, !.starting = transport]
    /\ UNCHANGED <<senderVars, outbox, shown>>

\* connect() resolves, over stdio for good, or start() cleans up and throws
ConnectServer ==
    /\ server.starting \in {"stdio", "http"}
    /\ \/ server' = IF server.starting = "stdio"
                    THEN [server EXCEPT !.starting = "no", !.state = "running"]
                    ELSE [server EXCEPT !.starting = "listen"]
       \/ server' = BeginCleanup([server EXCEPT !.starting = "no"], "start")
    /\ UNCHANGED <<senderVars, outbox, shown>>

\* 'listening' or 'error': the socket opens, or start() cleans up and throws
ListenServer ==
    /\ server.starting = "listen"
    /\ \/ server' = [server EXCEPT !.http = TRUE, !.starting = "no", !.state = "running"]
       \/ server' = BeginCleanup([server EXCEPT !.starting = "no"], "start")
    /\ UNCHANGED <<senderVars, outbox, shown>>

\* stop() runs in every state but created, stopped and error
StopServer(c) ==
    /\ c # "start"
    /\ server.cleaning[c] = "no"
    /\ server.state \in {"starting", "running", "stopping"}
    /\ server' = BeginCleanup([server EXCEPT !.state = "stopping"], c)
    /\ UNCHANGED <<senderVars, outbox, shown>>

\* mutant: the socket is left open
SilentCleanup_McpOnly(c) ==
    /\ server.cleaning[c] # "no"
    /\ server' = Cleaned([server EXCEPT !.mcp = FALSE], c)
    /\ UNCHANGED <<senderVars, outbox, shown>>

\* _silentCleanup resumes: the MCP server is closed, or the socket is
SilentCleanup(c) ==
    /\ \/ /\ server.cleaning[c] = "mcp"
          /\ server' = CleanSocket([server EXCEPT !.mcp = FALSE], c)
       \/ /\ server.cleaning[c] = "http"
          /\ server' = Cleaned([server EXCEPT !.http = FALSE], c)
    /\ UNCHANGED <<senderVars, outbox, shown>>

-----------------------------------------------------------------------------

BrInit ==
    /\ brNow = 0
    /\ binding = [agent |-> "none", notAfter |-> 0]
    /\ bindingRevoked = NotRevoked
    /\ sender = [r \in BrResolvers |-> NoResolution]
    /\ outbox = {}
    /\ shown = {}
    /\ server = NewServer

CallNext ==
    \/ \E r \in BrResolvers :
          \/ LookupBinding(r)
          \/ CheckRevocation(r)
          \/ ResolveSender(r)
          \/ \E m \in McpMessages : CreateOutboxRow(r, m)
    \/ ChangeBinding
    \/ BrTick
    \/ \E row \in outbox, s \in Subjects, a \in BrAgents : GetOutboxByID(row, s, a)

ServerNext ==
    \/ StartServer
    \/ ConnectServer
    \/ ListenServer
    \/ \E c \in Cleaners : StopServer(c) \/ SilentCleanup(c)

\* the two share no state
BrNext == CallNext \/ ServerNext

BrSpec == BrInit /\ [][BrNext]_brVars

-----------------------------------------------------------------------------

\* The types of the resolutions in progress and of the server.
BrTypeOK ==
    /\ brNow \in 0..MaxBrTime
    /\ binding \in [agent : BrAgents \cup {"none"}, notAfter : 0..MaxBrTime]
    /\ bindingRevoked \in 0..MaxBrTime \cup {NotRevoked}
    /\ sender \in [BrResolvers -> Resolving \cup {NoResolution}]
    /\ outbox \subseteq OutboxRow
    /\ shown \subseteq [row : OutboxRow, caller : BrAgents]
    /\ server \in ServerState

\* No call is taken for an agent whose binding was revoked before the call began
\* (resolveSenderForMCPCall reads the binding before the revocation list), and no
\* row of the outbox is shown to anybody but that agent.
BridgeSendersAreBound ==
    /\ \A row \in outbox : ~row.wasRevoked
    /\ \A s \in shown : s.caller = s.row.owner.value

\* While the server says stopped or error it holds neither the MCP server nor the
\* socket open, in whatever order start() and the calls of stop() resumed.  It says
\* nothing of a start() that resumes after stop() has returned and sets the stopped
\* server running (server-adapter.ts:250).
StoppedHoldsNothing ==
    server.state \in {"stopped", "error"} => ~server.mcp /\ ~server.http

\* Both promises of the bridge.
BridgeIsSound == BridgeSendersAreBound /\ StoppedHoldsNothing
=============================================================================
