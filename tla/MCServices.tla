------------------------------ MODULE MCServices ------------------------------
(***************************************************************************)
(* What is served to others, for TLC: the routes of the ledger             *)
(* (LedgerRoutes) and of its auditors (AuditAccess), login and tenants     *)
(* (Tenancy), the managed services (ManagedService), the bridge to MCP     *)
(* (McpBridge) and the sealed bodies of a session (SessionCrypto).  They   *)
(* share no state, so a behaviour runs one of them, which `part` names.    *)
(***************************************************************************)
EXTENDS LedgerRoutes, AuditAccess, Tenancy,
        ManagedService, McpBridge, SessionCrypto, TLC

CONSTANT Parts   \* the parts that are run

VARIABLE part

ServicesInit ==
    /\ part \in Parts
    /\ LrInit /\ AaInit /\ AsInit /\ SsoInit /\ TfInit /\ AcInit
    /\ MsInit /\ McInit /\ BrInit /\ ScInit

ServicesNext ==
    /\ UNCHANGED part
    /\ IF part = "routes" THEN LrNext ELSE UNCHANGED lrVars
    /\ IF part = "access" THEN AaNext ELSE UNCHANGED aaVars
    /\ IF part = "share" THEN AsNext ELSE UNCHANGED asVars
    /\ IF part = "login" THEN SsoNext ELSE UNCHANGED ssoVars
    /\ \/ part = "tenants" /\ (LoginNext \/ MappingNext)
       \/ part = "console" /\ (MappingNext \/ ReadNext)
       \/ part \notin {"tenants", "console"} /\ UNCHANGED tfVars
    /\ IF part = "admin" THEN AcNext ELSE UNCHANGED acVars
    /\ IF part = "managed" THEN MsNext ELSE UNCHANGED msVars
    /\ IF part = "scope" THEN McNext ELSE UNCHANGED scopeVars
    /\ \/ part = "bridge" /\ CallNext
       \/ part = "server" /\ ServerNext
       \/ part \notin {"bridge", "server"} /\ UNCHANGED brVars
    /\ IF part = "sealing" THEN ScNext ELSE UNCHANGED scVars

ServicesSpec ==
    ServicesInit /\ [][ServicesNext]_<<part, lrVars, aaVars, asVars, ssoVars, tfVars, acVars,
                                       msVars, scopeVars, brVars, scVars>>

-----------------------------------------------------------------------------
(* What is put to the parts.                                               *)

\* the same two model values stand for two requests, calls or workers of every part
Interchangeable == Permutations(LrReaders)

\* agent a1 of principal p1; records about a1 and two principals; a scope on one of them
PrincipalOf == [a \in LrAgents |-> "p1"]
RecordSubjects == [agent : {"a1"}, principal : {"p1", "p2"}]
ScopesGiven == [g1 |-> [agents |-> {"a1"}, principals |-> {"p1"}, anyPrincipal |-> FALSE]]
Query(route, who, target, agent, principal, record) ==
    [route |-> route, requester |-> who, signer |-> who, target |-> target,
     agent |-> agent, principal |-> principal, record |-> record]
Queries ==
    {Query("list", "p1", "a1", "none", "none", 1), Query("chain", "p1", "a1", "none", "none", 1),
     Query("verify", "p1", "a1", "none", "none", 1), Query("get", "g1", "gov", "a1", "p1", 2),
     Query("list", "g1", "gov", "a1", "none", 1)}

\* one chain, a key for it and a key for another class
Shared(class) == [tenant |-> "t1", class |-> class, namespace |-> "n1"]
SharedKey(id, class) == [id |-> id, from |-> "o", to |-> "r1", scope |-> Shared(class)]
SharedKeys == {SharedKey("k1", "L1"), SharedKey("k2", "L2")}
SharedScopes == {Shared("L1")}

\* tokens with claims for two audiences, for another client, and unsigned; a full and a short setup
Asserted(audience, signed, format) ==
    [iss |-> "idp", aud |-> audience, sub |-> TRUE, format |-> format, forbidden |-> FALSE,
     signed |-> signed, nbf |-> 0]
AssertedClaims ==
    {Asserted({"me", "them"}, TRUE, TRUE), Asserted({"them"}, TRUE, FALSE), Asserted({"me"}, FALSE, TRUE)}
OidcKeys ==
    {"issuer", "clientId", "clientSecret", "redirectUri", "authorizationEndpoint", "tokenEndpoint", "jwksUri"}
SamlKeys == {"entityId", "callbackUrl", "cert", "idpEntityId", "ssoLoginUrl", "signingCerts"}
Configs == {[oidc |-> OidcKeys, saml |-> SamlKeys],
            [oidc |-> OidcKeys \ {"jwksUri"}, saml |-> SamlKeys \ {"cert"}]}

\* one subject that asserts two known tenants, an unknown one, none, and an unknown role
Login(tenant, role) ==
    [type |-> "saml", idp |-> "i1", subject |-> "s1", tenant |-> tenant, role |-> role]
Logins == {Login("t1", "admin"), Login("t1", "viewer"), Login("t2", "viewer"),
           Login("t3", "viewer"), Login("none", "viewer"), Login("t1", "root")}
TenantsAllowed == {{}, {"t1"}, {"t1", "t2", "t3"}}

\* admin requests by header, token and key, within and across tenants
KeyTenant == [k1 |-> "t2"]
Request(header, jwt, key, role, kind, verb, target, confirm) ==
    [header |-> header, jwt |-> jwt, apiKey |-> key, role |-> role, kind |-> kind, verb |-> verb,
     target |-> target, policy |-> IF kind = "policy" THEN "p1" ELSE "none", confirm |-> confirm]
AdminRequests ==
    {Request("t1", "none", "none", role, kind, verb, target, TRUE) :
        role \in {"admin", "tenant-admin"}, kind \in {"tenant", "policy"},
        verb \in {"get", "update", "delete"}, target \in {"t1", "t2"}}
      \cup {Request("t1", "none", "none", "viewer", "tenant", "list", "none", FALSE),
            Request("none", "t1", "k1", "viewer", "policy", "update", "t1", FALSE),
            Request("none", "none", "k1", "admin", "tenant", "delete", "t2", FALSE),
            Request("none", "none", "none", "admin", "tenant", "get", "t2", FALSE),
            Request("none", "bad", "k1", "admin", "tenant", "get", "t2", FALSE),
            Request("t3", "none", "none", "other", "tenant", "get", "t2", FALSE),
            Request("t1", "none", "none", "admin", "policy", "get", "bad", FALSE)}

\* two clients of the managed services, one of them without a key
IpOf == [m1 |-> "i1", m2 |-> "i2"]
KeyOf == [m1 |-> "k1", m2 |-> NoKey]

\* calls over the bridge, with and without a value, and one with a malformed token
BridgeCall(key, token, limit, value, currency) ==
    [key |-> key, token |-> token, limit |-> limit, value |-> value, currency |-> currency]
BridgeCalls ==
    {BridgeCall("k1", "tok", -1, 1, "usd"), BridgeCall("k2", "tok", 1, 2, "usd"),
     BridgeCall("k1", "tok", -1, -1, "usd"), BridgeCall("k2", "not-a-uuid", -1, 1, "eur")}
ClaimOf(perCall, perDay, perValue, total) ==
    [perCall |-> perCall, perDay |-> perDay, perValue |-> perValue, total |-> total,
     valueCurrency |-> "usd", totalCurrency |-> "usd"]
BridgeClaims == {ClaimOf(1, 1, 2, 2), ClaimOf(1, 2, -1, 1), ClaimOf(-1, -1, -1, -1)}

-----------------------------------------------------------------------------
\* Pages under one snapshot skip, repeat and anticipate nothing, whatever is appended meanwhile;
\* nobody is shown a row that is not theirs; two signed heads for one question agree as long as
\* the first is alive (action-record-routes.ts).
LedgerReadsAreSound ==
    part = "routes" => LrTypeOK /\ PagesCoverTheSnapshot /\ RowsShownAreTheRequesters /\ HeadsDoNotDrift

\* A signed request is decided once in the window its nonce is kept for, and a challenge pays for
\* one disclosure, of a chain without a gap or a missing tail, however copies of a request race
\* (audit-access-routes.ts, audit-share-manager.ts).
AuditAccessIsSound ==
    /\ part = "access" => AaTypeOK /\ DecidedOncePerNonce
    /\ part = "share" => AsTypeOK /\ OneDisclosurePerChallenge /\ CheckpointedChainsAreWhole

\* Somebody is logged in once per flow and only by a valid token, stays the user their subject was
\* first bound to, sees the mappings of their own tenant, and changes nothing in the console
\* without a trace (oidc-provider.ts, tenant-federation.ts, admin-console).
TenancyIsSound ==
    /\ part = "login" => SsoTypeOK /\ LoginsAreSound
    /\ part \in {"tenants", "console"} => TfTypeOK /\ IdentitiesStayBound /\ TenantsSeeTheirMappings
    /\ part = "admin" => AcTypeOK /\ AdminChangesAreTraced

\* What the managed services answer, admit and account for agrees with what happened, with calls
\* timing out, retried and answered late (managed-service-client.ts, rate-limiter.ts).
ManagedServicesAreSound == part = "managed" => MsTypeOK /\ ServiceIsSound

\* The bridge's counters say what it admitted, nobody calls under a binding that was revoked before,
\* and a stopped server holds nothing (scope-validator.ts, holder-binding-resolver.ts, server-adapter.ts).
CallsOverTheBridgeAreSound ==
    /\ part = "scope" => McTypeOK /\ CountersMatchAdmissions
    /\ part \in {"bridge", "server"} => BrTypeOK /\ BridgeIsSound
=============================================================================
