----------------------------- MODULE AuditAccess -----------------------------
(***************************************************************************)
(* The two ways for an auditor to read the ledger.                         *)
(*                                                                         *)
(* The audit-access middleware (policy/src/recorder/audit-access-routes.ts)*)
(* and its nonce store (nonce-store.ts): signed requests travel over a     *)
(* network that may deliver one several times and late.                    *)
(* createAuditAccessMiddleware is cut at its awaits; the nonce store       *)
(* answers and stores in one synchronous step.  The delegated keys are     *)
(* what the injected resolver knows.                                       *)
(*                                                                         *)
(* Sharing audit entries with the holder of a delegated audit key          *)
(* (policy/src/audit-share/audit-share-manager.ts,                         *)
(* verify-audit-request-v0.3.ts, crypto/src/hash-chain-canonicalize):      *)
(* verifyAuditRequest is cut at its awaits: copies of a request race for   *)
(* the one-time challenge while keys end, tenants withdraw their policy    *)
(* and entries are appended to or cut from the chains.  A chain is kept as *)
(* the set of its positions; an entry names its predecessor's hash, so     *)
(* positions from 0 without a gap are what the verifiers accept.  The      *)
(* stores are ports: external, modelled by what the manager asks of them.  *)
(***************************************************************************)
EXTENDS Integers, FiniteSets, Sequences

-----------------------------------------------------------------------------
(* The audit-access middleware                                             *)

CONSTANTS
    AaDeliveries,  \* deliveries being handled
    AaNonces,      \* nonces of v0.2 clients
    AaPrincipals,  \* requesters
    AaOwner,       \* the principal of the target agent
    AaDelegate,    \* the holder a delegated audit key names
    SkewMax,       \* the window of X-Audit-Timestamp
    NonceTtl,      \* NONCE_TTL_MS
    MaxAaTime,     \* bound: clock
    MaxAaSent,     \* bound: requests signed
    MaxAaHandled   \* bound: deliveries

\* a nonce is kept at least as long as a timestamp is accepted: both are 300_000 ms
ASSUME AaAssumption ==
    /\ AaPrincipals # {} /\ MaxAaTime \in Nat /\ MaxAaHandled \in Nat
    /\ SkewMax \in Nat /\ NonceTtl \in Nat /\ SkewMax <= NonceTtl

VARIABLES
    aaNow,      \* the verifier's clock
    aaSent,     \* requests that were signed and may be delivered
    nonceStore, \* InMemoryAuditNonceStore: nonce -> expiry, 0 when absent
    aaKeyAlive, \* the delegated key is neither expired nor revoked
    aaCall,     \* deliveries in flight
    metaLedger, \* decisions: [request, decision, when its nonce was checked]
    aaHandled   \* deliveries started (bound)

aaVars == <<aaNow, aaSent, nonceStore, aaKeyAlive, aaCall, metaLedger, aaHandled>>

NoNonce == "none"
\* v0.1 clients send no nonce; a delegated key needs one
AaRequest == {q \in [requester : AaPrincipals, signer : AaPrincipals \cup {AaDelegate},
                     nonce : AaNonces \cup {NoNonce}, stamp : 0..MaxAaTime, delegated : BOOLEAN] :
                 /\ q.delegated => q.nonce # NoNonce
                 /\ q.signer = IF q.delegated THEN AaDelegate ELSE q.requester}
IdleDelivery == [pc |-> "idle", q |-> CHOOSE q \in AaRequest : TRUE, at |-> 0]

\* The store, the ledger of decisions and the deliveries keep their types.
AaTypeOK ==
    /\ aaNow \in 0..MaxAaTime /\ aaSent \subseteq AaRequest
    /\ nonceStore \in [AaNonces -> 0..(MaxAaTime + NonceTtl)]
    /\ aaKeyAlive \in BOOLEAN /\ aaHandled \in 0..MaxAaHandled
    /\ aaCall \in [AaDeliveries -> [pc : {"idle", "key", "nonce", "check"}, q : AaRequest,
                                     at : 0..MaxAaTime]]
    /\ \A k \in DOMAIN metaLedger : metaLedger[k] \in [q : AaRequest, decision : {"allowed", "denied"},
                                                       at : 0..MaxAaTime]

AaInit ==
    /\ aaNow = 0 /\ aaSent = {} /\ aaKeyAlive = TRUE
    /\ nonceStore = [n \in AaNonces |-> 0]
    /\ aaCall = [d \in AaDeliveries |-> IdleDelivery]
    /\ metaLedger = <<>> /\ aaHandled = 0

-----------------------------------------------------------------------------
\* a client signs a request; its clock may be behind or ahead
SignRequest(q) ==
    /\ Cardinality(aaSent) < MaxAaSent
    /\ \A other \in aaSent : q.nonce # NoNonce => other.nonce # q.nonce
    /\ aaSent' = aaSent \cup {q}
    /\ UNCHANGED <<aaNow, nonceStore, aaKeyAlive, aaCall, metaLedger, aaHandled>>

AaEnd(d) == aaCall' = [aaCall EXCEPT ![d] = IdleDelivery]
AaGoto(d, pc) == aaCall' = [aaCall EXCEPT ![d] = [pc |-> pc, q |-> @.q, at |-> aaNow]]

WithinSkew(q) == aaNow - q.stamp <= SkewMax /\ q.stamp - aaNow <= SkewMax

\* headers, parameters and the snapshot's anchor pass and the timestamp is near the clock; the
\* delegated key is asked for
ReceiveRequest(d, q) ==
    /\ aaCall[d].pc = "idle" /\ q \in aaSent
    /\ aaHandled < MaxAaHandled /\ aaHandled' = aaHandled + 1
    /\ WithinSkew(q)
    /\ aaCall' = [aaCall EXCEPT ![d] = [pc |-> "key", q |-> q, at |-> 0]]
    /\ UNCHANGED <<aaNow, aaSent, nonceStore, aaKeyAlive, metaLedger>>

\* the key that must have signed: the delegated one, known, alive and of the requester, or the
\* requester's own
SigningKey(q) == IF q.delegated THEN (IF aaKeyAlive /\ q.requester = AaOwner THEN {AaDelegate} ELSE {})
                 ELSE {q.requester}

VerifySignature(d) ==
    /\ aaCall[d].pc = "key"
    /\ IF aaCall[d].q.signer \in SigningKey(aaCall[d].q) THEN AaGoto(d, "nonce") ELSE AaEnd(d)
    /\ UNCHANGED <<aaNow, aaSent, nonceStore, aaKeyAlive, metaLedger, aaHandled>>

\* mutant: the nonce is kept from the request's own stamp on
NonceExpiry_FromStamp(q) == q.stamp + NonceTtl

NonceExpiry(q) == aaNow + NonceTtl

\* checkAndStore, after the signature; a v0.1 request has no nonce and passes
CheckAndStore(d) ==
    LET q == aaCall[d].q
    IN  /\ aaCall[d].pc = "nonce"
        /\ IF q.nonce = NoNonce THEN AaGoto(d, "check") /\ UNCHANGED nonceStore
           ELSE IF nonceStore[q.nonce] > aaNow THEN AaEnd(d) /\ UNCHANGED nonceStore
           ELSE /\ nonceStore' = [nonceStore EXCEPT ![q.nonce] = NonceExpiry(q)]
                /\ AaGoto(d, "check")
        /\ UNCHANGED <<aaNow, aaSent, aaKeyAlive, metaLedger, aaHandled>>

\* the target's identity resolves, the checker decides, the decision is recorded
CheckAccess(d) ==
    LET q == aaCall[d].q
    IN  /\ aaCall[d].pc = "check"
        /\ metaLedger' = Append(metaLedger, [q |-> q, at |-> aaCall[d].at,
                             decision |-> IF q.requester = AaOwner THEN "allowed" ELSE "denied"])
        /\ AaEnd(d)
        /\ UNCHANGED <<aaNow, aaSent, nonceStore, aaKeyAlive, aaHandled>>

\* the identity is unknown or unverified, or a dependency throws: the nonce stays used
AccessFails(d) ==
    /\ aaCall[d].pc # "idle"
    /\ AaEnd(d)
    /\ UNCHANGED <<aaNow, aaSent, nonceStore, aaKeyAlive, metaLedger, aaHandled>>

\* the interval deletes what is no longer in the window
CleanupNonces ==
    /\ \E n \in AaNonces : nonceStore[n] # 0 /\ nonceStore[n] <= aaNow
    /\ nonceStore' = [n \in AaNonces |-> IF nonceStore[n] <= aaNow THEN 0 ELSE nonceStore[n]]
    /\ UNCHANGED <<aaNow, aaSent, aaKeyAlive, aaCall, metaLedger, aaHandled>>

DelegatedKeyEnds ==
    /\ aaKeyAlive /\ aaKeyAlive' = FALSE
    /\ UNCHANGED <<aaNow, aaSent, nonceStore, aaCall, metaLedger, aaHandled>>

AaTick ==
    /\ aaNow < MaxAaTime /\ aaNow' = aaNow + 1
    /\ UNCHANGED <<aaSent, nonceStore, aaKeyAlive, aaCall, metaLedger, aaHandled>>

-----------------------------------------------------------------------------
AaNext ==
    \/ \E q \in AaRequest : SignRequest(q)
    \/ \E d \in AaDeliveries :
          \/ \E q \in aaSent : ReceiveRequest(d, q)
          \/ VerifySignature(d) \/ CheckAndStore(d) \/ CheckAccess(d) \/ AccessFails(d)
    \/ CleanupNonces \/ DelegatedKeyEnds \/ AaTick

AaSpec == AaInit /\ [][AaNext]_aaVars

-----------------------------------------------------------------------------
\* A request with a nonce is decided a second time only if it was stamped ahead of the clock that
\* first checked its nonce, or if the second check came when its stamp had left the window: the
\* nonce outlives what is left of the window of every other request, however often and late it
\* is delivered.
DecidedOncePerNonce ==
    \A k, j \in DOMAIN metaLedger :
        LET q == metaLedger[k].q
        IN  (k # j /\ metaLedger[j].q = q /\ q.nonce # NoNonce /\ metaLedger[k].at <= metaLedger[j].at)
            => q.stamp >= metaLedger[k].at \/ metaLedger[j].at > q.stamp + SkewMax

-----------------------------------------------------------------------------
(* Sharing audit entries                                                   *)

CONSTANTS
    AsCalls,       \* requests being verified
    AsKeys,        \* delegated audit keys: [id, from, to, scope]
    AsRequesters,  \* requesters
    AsScopes,      \* chain scopes: [tenant, class, namespace]; namespace "none" when absent
    AsChallenges,  \* challenges
    MaxPosition,   \* bound: last position of a chain
    MaxAsCalls     \* bound: requests

ASSUME AsAssumption ==
    /\ IsFiniteSet(AsCalls) /\ AsKeys # {} /\ AsRequesters # {} /\ AsScopes # {} /\ AsChallenges # {}
    /\ MaxPosition \in Nat /\ MaxAsCalls \in Nat

VARIABLES
    chains,      \* scope -> positions in the store
    appended,    \* scope -> positions ever appended
    issued,      \* challenges the verifier issued and nobody consumed
    asLive,      \* keys that verify now
    tenantAllows,\* scopes the tenant's policy allows
    shareCall,   \* requests in flight
    disclosed,   \* disclosures: [call's request, positions, v3]
    asStarted    \* requests started (bound)

asVars == <<chains, appended, issued, asLive, tenantAllows, shareCall, disclosed, asStarted>>

ShareRequest == [key : AsKeys, requester : AsRequesters, scope : AsScopes,
                 challenge : AsChallenges, v3 : BOOLEAN]
Disclosure == [q : ShareRequest, positions : SUBSET (0..MaxPosition), checkpoint : 0..(MaxPosition + 1),
               n : 1..MaxAsCalls]
IdleShare == [pc |-> "idle", q |-> CHOOSE q \in ShareRequest : TRUE, checkpoint |-> 0, got |-> {}]

\* The stores, the requests and the disclosures keep their types.
AsTypeOK ==
    /\ chains \in [AsScopes -> SUBSET (0..MaxPosition)] /\ appended \in [AsScopes -> SUBSET (0..MaxPosition)]
    /\ issued \subseteq AsChallenges /\ asLive \subseteq AsKeys /\ tenantAllows \subseteq AsScopes
    /\ \A c \in AsCalls :
         /\ shareCall[c].pc \in {"idle", "key", "signature", "consume", "policy", "entries", "events"}
         /\ shareCall[c].q \in ShareRequest /\ shareCall[c].checkpoint \in 0..(MaxPosition + 1)
         /\ shareCall[c].got \subseteq 0..MaxPosition
    /\ disclosed \subseteq Disclosure /\ asStarted \in 0..MaxAsCalls

AsInit ==
    /\ chains = [s \in AsScopes |-> {}] /\ appended = [s \in AsScopes |-> {}]
    /\ issued = {} /\ asLive = AsKeys /\ tenantAllows = AsScopes
    /\ shareCall = [c \in AsCalls |-> IdleShare]
    /\ disclosed = {} /\ asStarted = 0

AsGoto(c, pc) == shareCall' = [shareCall EXCEPT ![c].pc = pc]
AsEnd(c) == shareCall' = [shareCall EXCEPT ![c] = IdleShare]

-----------------------------------------------------------------------------
(* The surroundings                                                        *)

AppendEntry(s) ==
    LET next == Cardinality(appended[s])
    IN  /\ next <= MaxPosition
        /\ chains' = [chains EXCEPT ![s] = @ \cup {next}]
        /\ appended' = [appended EXCEPT ![s] = @ \cup {next}]
        /\ UNCHANGED <<issued, asLive, tenantAllows, shareCall, disclosed, asStarted>>

\* an entry disappears from the store
CutEntry(s, i) ==
    /\ i \in chains[s] /\ chains[s] = appended[s]
    /\ chains' = [chains EXCEPT ![s] = @ \ {i}]
    /\ UNCHANGED <<appended, issued, asLive, tenantAllows, shareCall, disclosed, asStarted>>

\* the verifier issues each challenge once
IssueChallenge(x) ==
    /\ x \notin issued
    /\ \A d \in disclosed : d.q.challenge # x
    /\ \A c \in AsCalls : shareCall[c].pc # "idle" => shareCall[c].q.challenge # x
    /\ issued' = issued \cup {x}
    /\ UNCHANGED <<chains, appended, asLive, tenantAllows, shareCall, disclosed, asStarted>>

\* a key expires or is revoked
KeyEnds(k) ==
    /\ k \in asLive /\ asLive' = asLive \ {k}
    /\ UNCHANGED <<chains, appended, issued, tenantAllows, shareCall, disclosed, asStarted>>

WithdrawPolicy(s) ==
    /\ s \in tenantAllows /\ tenantAllows' = tenantAllows \ {s}
    /\ UNCHANGED <<chains, appended, issued, asLive, shareCall, disclosed, asStarted>>

-----------------------------------------------------------------------------
(* verifyAuditRequest, and verifyAuditRequestV03 around it                 *)

\* v0.3: the transport's evidence verified and names the requester; then, in both, steps 1 and 2: schema, version, claims, audience, window, and the
\* challenge is outstanding
CheckChallenge(c, q) ==
    /\ shareCall[c].pc = "idle"
    /\ asStarted < MaxAsCalls /\ asStarted' = asStarted + 1
    /\ q.challenge \in issued
    /\ shareCall' = [shareCall EXCEPT ![c] = [pc |-> "key", q |-> q, got |-> {},
                        checkpoint |-> IF q.v3 THEN Cardinality(appended[q.scope]) ELSE 0]]
    /\ UNCHANGED <<chains, appended, issued, asLive, tenantAllows, disclosed>>

\* steps 3 to 5: the key is found and verifies, and names the requester
VerifyDelegatedKey(c) ==
    LET q == shareCall[c].q
    IN  /\ shareCall[c].pc = "key"
        /\ IF q.key \in asLive /\ q.key.to = q.requester THEN AsGoto(c, "signature") ELSE AsEnd(c)
        /\ UNCHANGED <<chains, appended, issued, asLive, tenantAllows, disclosed, asStarted>>

\* step 6: the requester's signature; a request that is not the requester's ends here and leaves
\* the challenge alone
VerifyRequester(c) ==
    /\ shareCall[c].pc = "signature"
    /\ AsGoto(c, "consume") \/ AsEnd(c)
    /\ UNCHANGED <<chains, appended, issued, asLive, tenantAllows, disclosed, asStarted>>

\* mutant: a challenge that was consumed is accepted
Outstanding_Checked(x) == TRUE

Outstanding(x) == x \in issued

\* step 6: consume answers whether the challenge was outstanding and takes it
ConsumeChallenge(c) ==
    LET x == shareCall[c].q.challenge
    IN  /\ shareCall[c].pc = "consume"
        /\ issued' = issued \ {x}
        /\ IF Outstanding(x) THEN AsGoto(c, "policy") ELSE AsEnd(c)
        /\ UNCHANGED <<chains, appended, asLive, tenantAllows, disclosed, asStarted>>

\* steps 7 and 8: the scope is the key's, its namespace too when the key has one, and the tenant
\* allows the delegator
WithinKeyScope(key, s) ==
    /\ key.scope.tenant = s.tenant /\ key.scope.class = s.class
    /\ key.scope.namespace # "none" => key.scope.namespace = s.namespace

CheckScope(c) ==
    LET q == shareCall[c].q
    IN  /\ shareCall[c].pc = "policy"
        /\ IF WithinKeyScope(q.key, q.scope) /\ q.scope \in tenantAllows
           THEN AsGoto(c, "entries") ELSE AsEnd(c)
        /\ UNCHANGED <<chains, appended, issued, asLive, tenantAllows, disclosed, asStarted>>

\* a chain from the genesis without a gap
Unbroken(positions) == \A i \in positions : \A j \in 0..i : j \in positions

\* steps 9 and 10: the scope's entries, and their chain
FetchEntries(c) ==
    LET got == chains[shareCall[c].q.scope]
    IN  /\ shareCall[c].pc = "entries"
        /\ IF Unbroken(got)
           THEN shareCall' = [shareCall EXCEPT ![c] =
                    [pc |-> "events", q |-> @.q, checkpoint |-> @.checkpoint, got |-> got]]
           ELSE AsEnd(c)
        /\ UNCHANGED <<chains, appended, issued, asLive, tenantAllows, disclosed, asStarted>>

\* mutant: any chain with an event in it passes for the checkpointed one
TailMatches_NonEmpty(c) == shareCall[c].got # {}

\* the trusted checkpoint: a non-empty chain with as many entries as the checkpoint expects
TailMatches(c) == shareCall[c].got # {} /\ Cardinality(shareCall[c].got) = shareCall[c].checkpoint

\* the events are projected to the disclosed claims; v0.3 first verifies the chain again, against
\* the scope and the checkpoint
Disclose(c) ==
    LET q == shareCall[c].q
    IN  /\ shareCall[c].pc = "events"
        /\ IF q.v3 => q.scope.namespace # "none" /\ Unbroken(shareCall[c].got) /\ TailMatches(c)
           THEN disclosed' = disclosed \cup {[q |-> q, positions |-> shareCall[c].got,
                                 checkpoint |-> shareCall[c].checkpoint, n |-> Cardinality(disclosed) + 1]}
           ELSE UNCHANGED disclosed
        /\ AsEnd(c)
        /\ UNCHANGED <<chains, appended, issued, asLive, tenantAllows, asStarted>>

\* a store or a resolver throws
ShareThrows(c) ==
    /\ shareCall[c].pc # "idle"
    /\ AsEnd(c)
    /\ UNCHANGED <<chains, appended, issued, asLive, tenantAllows, disclosed, asStarted>>

-----------------------------------------------------------------------------
AsNext ==
    \/ \E s \in AsScopes : \/ AppendEntry(s) \/ WithdrawPolicy(s)
                           \/ \E i \in 0..MaxPosition : CutEntry(s, i)
    \/ \E x \in AsChallenges : IssueChallenge(x)
    \/ \E k \in AsKeys : KeyEnds(k)
    \/ \E c \in AsCalls :
          \/ \E q \in ShareRequest : CheckChallenge(c, q)
          \/ VerifyDelegatedKey(c) \/ VerifyRequester(c) \/ ConsumeChallenge(c) \/ CheckScope(c)
          \/ FetchEntries(c) \/ Disclose(c) \/ ShareThrows(c)

AsSpec == AsInit /\ [][AsNext]_asVars

-----------------------------------------------------------------------------
\* However copies of a request race, a challenge pays for one disclosure, made to the holder of
\* the key and from the key's own tenant and class, of a chain without a gap (steps 2 to 10).
OneDisclosurePerChallenge ==
    /\ \A d, e \in disclosed : d # e => d.q.challenge # e.q.challenge
    /\ \A d \in disclosed : /\ d.q.requester = d.q.key.to /\ WithinKeyScope(d.q.key, d.q.scope)
                            /\ Unbroken(d.positions)

\* A chain disclosed through v0.3 holds every entry its checkpoint counted, although entries were
\* cut from its end or appended while the request was verified ("tail truncation protection").
CheckpointedChainsAreWhole ==
    \A d \in disclosed : d.q.v3 => d.positions = 0..(d.checkpoint - 1) /\ d.checkpoint > 0

=============================================================================
