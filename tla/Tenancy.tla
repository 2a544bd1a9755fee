------------------------------- MODULE Tenancy -------------------------------
(***************************************************************************)
(* Who may act in which tenant: browser logins (sdk/src/sso), the users    *)
(* they become, and the admin console that edits tenants, policies and     *)
(* identity providers.                                                     *)
(***************************************************************************)
EXTENDS Integers, FiniteSets, Sequences

-----------------------------------------------------------------------------
(***************************************************************************)
(* The browser logins of sdk/src/sso: the OIDC login, callback and logout  *)
(* handlers over the session store that keeps state, nonce and verifier of *)
(* a login, and the SAML handlers, which keep nothing.  A login is a flow; *)
(* its state, nonce and code verifier are fresh and are named by its       *)
(* number.  The identity provider answers a flow with tokens, the browser  *)
(* carries the answers back: late, twice or into another session.          *)
(***************************************************************************)

CONSTANTS
    SsoSessions,   \* values of the x-oidc-session-id header
    SsoHandlers,   \* requests handled at a time
    SsoConfigs,    \* configurations: which required fields are non-empty
    SsoClaims,     \* claims of a token: [iss, aud, sub, format, forbidden, signed, nbf]
    IdpIssuer,     \* idp.issuer and idp.entityId
    ClientId,      \* config.clientId and config.entityId
    SsoTokenLife,  \* seconds an id_token or an assertion is valid
    MaxFlows,      \* bound: logins
    MaxSsoTime,    \* bound: clock
    MaxSsoTokens,  \* bound: answers of the identity provider
    MaxCallbacks   \* bound: callbacks

VARIABLES
    ssoNow,      \* the clock
    ssoConfig,   \* the configuration the providers were built from
    ssoStore,    \* OidcSessionStore: session -> flow, 0 when absent
    ssoFlows,    \* started logins: [session, redirected]
    ssoTokens,   \* what the provider answered
    ssoHandler,  \* requests in flight
    ssoReplies   \* answers of the callback handlers, in order, with the flow taken

ssoVars == <<ssoNow, ssoConfig, ssoStore, ssoFlows, ssoTokens, ssoHandler, ssoReplies>>

ASSUME SsoAssumption ==
    /\ SsoSessions # {} /\ SsoClaims # {}
    /\ \A c \in SsoClaims : c.signed \in BOOLEAN /\ c.nbf \in 0..1
    /\ {SsoTokenLife, MaxFlows, MaxSsoTime, MaxCallbacks} \subseteq Nat

Flows == 1..MaxFlows
NoConfig == [oidc |-> {}, saml |-> {}]
\* An OIDC authorization response with the id_token behind its code, or a
\* SAML assertion, which names no flow.
SsoToken == [protocol : {"oidc", "saml"}, flow : 0..MaxFlows, claims : SsoClaims,
             nbf : 0..(MaxSsoTime + 1), exp : 0..(MaxSsoTime + SsoTokenLife + 1)]
NoSsoToken == [protocol |-> "saml", flow |-> 0, claims |-> CHOOSE c \in SsoClaims : TRUE,
             nbf |-> 0, exp |-> 0]
\* what a callback was answered: the claims, or an error, whose code is left out
SsoReply == [token : SsoToken, session : SsoSessions, answer : {"claims", "error"}, at : 0..MaxSsoTime,
             expected : 0..MaxFlows]
IdleHandler == [pc |-> "idle", session |-> CHOOSE s \in SsoSessions : TRUE, flow |-> 0,
                token |-> NoSsoToken]
SsoHandlerState == [pc : {"idle", "redirect", "verify", "claims"}, session : SsoSessions,
                    flow : 0..MaxFlows, token : SsoToken]
SsoFlow == [session : SsoSessions, redirected : BOOLEAN]

\* Store, flows, tokens and requests keep their types.
SsoTypeOK ==
    /\ ssoNow \in 0..MaxSsoTime /\ ssoConfig.oidc \in {{}} \cup {c.oidc : c \in SsoConfigs}
    /\ ssoConfig.saml \in {{}} \cup {c.saml : c \in SsoConfigs} /\ ssoStore \in [SsoSessions -> 0..MaxFlows]
    /\ \A f \in DOMAIN ssoFlows : ssoFlows[f] \in SsoFlow
    /\ ssoTokens \subseteq SsoToken
    /\ ssoHandler \in [SsoHandlers -> SsoHandlerState]
    /\ \A k \in DOMAIN ssoReplies : ssoReplies[k] \in SsoReply

SsoInit ==
    /\ ssoNow = 0 /\ ssoConfig = NoConfig /\ ssoStore = [s \in SsoSessions |-> 0] /\ ssoFlows = <<>> /\ ssoTokens = {}
    /\ ssoHandler = [h \in SsoHandlers |-> IdleHandler] /\ ssoReplies = <<>>

-----------------------------------------------------------------------------
(* Construction *)

\* what the constructors of the adapters and of the SAML provider insist on
AdapterBuilt(c) == {"jwksUri", "clientSecret"} \subseteq c.oidc
SamlAdapterBuilt(c) == {"cert", "signingCerts"} \subseteq c.saml
SamlProviderBuilt(c) == "cert" \in c.saml
\* parseOidcProviderConfig, parseOidcIdentityProvider and the constructors
OidcComplete(c) ==
    /\ {"issuer", "clientId", "redirectUri", "authorizationEndpoint", "tokenEndpoint"} \subseteq c.oidc
    /\ AdapterBuilt(c)
\* parseSamlConfig, parseSamlIdentityProvider and the constructors
SamlComplete(c) ==
    /\ {"entityId", "callbackUrl", "idpEntityId", "ssoLoginUrl"} \subseteq c.saml
    /\ SamlAdapterBuilt(c) /\ SamlProviderBuilt(c)

\* The providers are built once; one whose configuration lacks a required
\* field throws and serves nothing.
BuildProviders(c) ==
    /\ ssoConfig = NoConfig
    /\ ssoConfig' = [oidc |-> IF OidcComplete(c) THEN c.oidc ELSE {},
                     saml |-> IF SamlComplete(c) THEN c.saml ELSE {}]
    /\ UNCHANGED <<ssoNow, ssoStore, ssoFlows, ssoTokens, ssoHandler, ssoReplies>>

-----------------------------------------------------------------------------
(* Login *)

HandlerIdle(h) == ssoHandler[h].pc = "idle"
\* Started flows are numbered: a randomState is never seen twice.
Fresh == Len(ssoFlows) + 1

\* createOidcLoginHandler up to the store: fresh state, nonce and verifier
\* replace whatever the session id held.
OidcLogin(h, s) ==
    /\ HandlerIdle(h) /\ ssoConfig.oidc # {} /\ Fresh \in Flows
    /\ ssoStore' = [ssoStore EXCEPT ![s] = Fresh]
    /\ ssoFlows' = Append(ssoFlows, [session |-> s, redirected |-> FALSE])
    /\ ssoHandler' = [ssoHandler EXCEPT ![h] = [pc |-> "redirect", session |-> s, flow |-> Fresh,
                                                token |-> ssoHandler[h].token]]
    /\ UNCHANGED <<ssoNow, ssoConfig, ssoTokens, ssoReplies>>

\* generateAuthorizeUrl and the redirect; a failure answers 502 and leaves
\* the stored state behind.
OidcRedirect(h) ==
    /\ ssoHandler[h].pc = "redirect"
    /\ \E sent \in BOOLEAN :
          ssoFlows' = [ssoFlows EXCEPT ![ssoHandler[h].flow] = [@ EXCEPT !.redirected = sent]]
    /\ ssoHandler' = [ssoHandler EXCEPT ![h] = IdleHandler]
    /\ UNCHANGED <<ssoNow, ssoConfig, ssoStore, ssoTokens, ssoReplies>>

\* The provider authenticates the user of a redirected flow (external).
IdpAnswersOidc(f, c) ==
    /\ f \in DOMAIN ssoFlows /\ ssoFlows[f].redirected /\ Cardinality(ssoTokens) < MaxSsoTokens
    /\ ssoTokens' = ssoTokens \cup {[protocol |-> "oidc", flow |-> f, claims |-> c,
                                     nbf |-> ssoNow + c.nbf, exp |-> ssoNow + SsoTokenLife]}
    /\ UNCHANGED <<ssoNow, ssoConfig, ssoStore, ssoFlows, ssoHandler, ssoReplies>>

\* createSamlLoginHandler keeps nothing, so an assertion answers no login
\* in particular (external).
IdpAnswersSaml(c) ==
    /\ Cardinality(ssoTokens) < MaxSsoTokens
    /\ ssoTokens' = ssoTokens \cup {[protocol |-> "saml", flow |-> 0, claims |-> c,
                                     nbf |-> ssoNow + c.nbf, exp |-> ssoNow + SsoTokenLife]}
    /\ UNCHANGED <<ssoNow, ssoConfig, ssoStore, ssoFlows, ssoHandler, ssoReplies>>

-----------------------------------------------------------------------------
(* Callback *)

\* What a session id holds, and what is left there.
TakenFrom(s) == ssoStore[s]

\* mutant: the callback reads the pending login and leaves it there
ConsumeLeaves_Kept(s) == ssoStore

ConsumeLeaves(s) == [ssoStore EXCEPT ![s] = 0]
AnswerCallback(h, answer, expected) ==
    /\ ssoReplies' = Append(ssoReplies,
                            [token |-> ssoHandler[h].token, session |-> ssoHandler[h].session,
                             answer |-> answer, at |-> ssoNow, expected |-> expected])
    /\ ssoHandler' = [ssoHandler EXCEPT ![h] = IdleHandler]

\* Callbacks that have taken their entry and are not answered.
Judging == {g \in SsoHandlers : ssoHandler[g].pc \in {"verify", "claims"}}

\* createOidcCallbackHandler up to the store: the browser delivers a token's
\* response under a session id; consume takes the entry whatever it is.
OidcCallback(h, s, t) ==
    /\ HandlerIdle(h) /\ ssoConfig.oidc # {} /\ t \in ssoTokens /\ t.protocol = "oidc"
    /\ Len(ssoReplies) + Cardinality(Judging) < MaxCallbacks
    /\ ssoHandler' = [ssoHandler EXCEPT ![h] = [pc |-> "verify", session |-> s,
                                                flow |-> TakenFrom(s), token |-> t]]
    /\ ssoStore' = ConsumeLeaves(s)
    /\ UNCHANGED <<ssoNow, ssoConfig, ssoFlows, ssoTokens, ssoReplies>>

\* authorizationCodeGrant: the response's state and nonce are the expected
\* ones, and the id_token's signature is checked with the configured keys.
GrantAccepts(flow, t) ==
    t.flow = flow /\ (t.claims.signed \/ "jwksUri" \notin ssoConfig.oidc)

\* A missing session, a request from which readCallbackUrl makes no URL and a
\* refused or failed grant (provider.verifyCallback, layer 1) end the callback,
\* the entry being used up; any grant may fail on the way (external).
OidcVerify(h) ==
    LET c == ssoHandler[h] IN
    /\ c.pc = "verify" /\ c.token.protocol = "oidc"
    /\ \/ AnswerCallback(h, "error", c.flow)
       \/ /\ c.flow # 0 /\ GrantAccepts(c.flow, c.token)
          /\ ssoHandler' = [ssoHandler EXCEPT ![h] = [@ EXCEPT !.pc = "claims"]]
          /\ UNCHANGED ssoReplies
    /\ UNCHANGED <<ssoNow, ssoConfig, ssoStore, ssoFlows, ssoTokens>>

\* verifyExpiryFromClaims
InTime(t) == t.nbf <= ssoNow /\ ssoNow < t.exp
\* verifyIssuerAudienceFromClaims: one of several audiences is enough.
ForUs(t) == t.claims.iss = IdpIssuer /\ ClientId \in t.claims.aud
\* parseOidcClaims
ClaimsParse(t) == t.claims.sub /\ ~t.claims.forbidden

\* Layers 2a, 2b and 3 of verifyCallback.
OidcLayers(t) == InTime(t) /\ ForUs(t) /\ ClaimsParse(t)

\* verifyExpiryFromProfile
SamlInTime(t) == ssoNow < t.exp /\ t.nbf <= ssoNow
\* verifyAudienceFromProfile: the SAML provider compares no issuer.
SamlForUs(t) == ClientId \in t.claims.aud
\* parseSamlClaims, with parseSamlNameIdFormat
SamlClaimsParse(t) == t.claims.sub /\ t.claims.format /\ ~t.claims.forbidden

\* The layers of verifyAssertion.
SamlLayers(t) == t.claims.signed /\ SamlInTime(t) /\ SamlForUs(t) /\ SamlClaimsParse(t)

LayersAccept(t) == IF t.protocol = "oidc" THEN OidcLayers(t) ELSE SamlLayers(t)

\* The rest of a callback: every layer accepts the token, or one refuses it.
CheckClaims(h) ==
    /\ ssoHandler[h].pc = "claims"
    /\ AnswerCallback(h, IF LayersAccept(ssoHandler[h].token) THEN "claims" ELSE "error",
                      ssoHandler[h].flow)
    /\ UNCHANGED <<ssoNow, ssoConfig, ssoStore, ssoFlows, ssoTokens>>

\* createSamlCallbackHandler: every delivery of an assertion is judged alike.
SamlCallback(h, t) ==
    /\ HandlerIdle(h) /\ ssoConfig.saml # {} /\ t \in ssoTokens /\ t.protocol = "saml"
    /\ Len(ssoReplies) + Cardinality(Judging) < MaxCallbacks
    /\ ssoHandler' = [ssoHandler EXCEPT ![h] = [pc |-> "claims", session |-> IdleHandler.session,
                                                flow |-> 0, token |-> t]]
    /\ UNCHANGED <<ssoNow, ssoConfig, ssoStore, ssoFlows, ssoTokens, ssoReplies>>

SsoTick ==
    /\ ssoNow < MaxSsoTime /\ ssoNow' = ssoNow + 1
    /\ UNCHANGED <<ssoConfig, ssoStore, ssoFlows, ssoTokens, ssoHandler, ssoReplies>>

SsoNext ==
    \/ \E h \in SsoHandlers :
        \/ \E s \in SsoSessions : OidcLogin(h, s)
        \/ OidcRedirect(h)
        \/ \E s \in SsoSessions, t \in ssoTokens : OidcCallback(h, s, t)
        \/ OidcVerify(h)
        \/ CheckClaims(h)
        \/ \E t \in ssoTokens : SamlCallback(h, t)
    \/ \E f \in Flows, c \in SsoClaims : IdpAnswersOidc(f, c)
    \/ \E c \in SsoClaims : IdpAnswersSaml(c)
    \/ \E c \in SsoConfigs : BuildProviders(c)
    \/ SsoTick

SsoSpec == SsoInit /\ [][SsoNext]_ssoVars

-----------------------------------------------------------------------------
Accepted(k) == ssoReplies[k].answer = "claims"

\* A flow logs in at most once, in the session that started it, although its
\* response may be delivered again and under other session ids.
FlowsLogInOnce ==
    \A j \in DOMAIN ssoReplies :
        ssoReplies[j].token.protocol = "oidc" /\ Accepted(j) =>
            /\ ssoFlows[ssoReplies[j].token.flow].session = ssoReplies[j].session
            /\ \A k \in DOMAIN ssoReplies :
                 k # j /\ Accepted(k) /\ ssoReplies[k].token.protocol = "oidc" =>
                    ssoReplies[k].token.flow # ssoReplies[j].token.flow

\* A response that comes back to its own session finds no entry, or the one of
\* another login, only when a later login overwrote the entry or an earlier
\* callback used it up.
RefusedForACause ==
    \A k \in DOMAIN ssoReplies :
        LET r == ssoReplies[k] IN
        r.token.protocol = "oidc" /\ r.expected # r.token.flow
            /\ ssoFlows[r.token.flow].session = r.session =>
            \/ \E j \in DOMAIN ssoReplies \ {k} : ssoReplies[j].expected = r.token.flow
            \/ \E h \in Judging : ssoHandler[h].flow = r.token.flow
            \/ \E f \in DOMAIN ssoFlows : f > r.token.flow /\ ssoFlows[f].session = r.session

\* Claims are handed out only of a signed token, for this client, while it is
\* valid.
AcceptedWhileValid ==
    \A k \in DOMAIN ssoReplies :
        LET t == ssoReplies[k].token IN
        Accepted(k) => /\ t.claims.signed /\ ClientId \in t.claims.aud
                       /\ t.nbf <= ssoReplies[k].at /\ ssoReplies[k].at < t.exp

\* What the login handlers promise together.
LoginsAreSound == FlowsLogInOnce /\ RefusedForACause /\ AcceptedWhileValid

-----------------------------------------------------------------------------
(***************************************************************************)
(* Logins that arrive from an identity provider and become users of a      *)
(* tenant (sdk/src/sso/tenant-federation.ts, sdk-api.ts), against the      *)
(* registry of providers an administrator edits at the same time           *)
(* (sdk/src/admin-console/federation-mapping-api.ts).  Each awaited query  *)
(* of resolveTenant is a step of its own; createUser is one transaction    *)
(* that the unique (idp_identifier, external_subject) index may refuse.    *)
(***************************************************************************)

CONSTANTS
    TfLogins,      \* logins handled at a time
    TfIdps,        \* idp_identifier values
    TfSubjects,    \* external_subject values
    TfTenants,     \* rows of managed_service.tenants
    TfAllowed,     \* lists of tenant ids an administrator may enter
    TfClaims,      \* assertions: [type, idp, subject, tenant, role]
    TfAuditFails,  \* the events table may refuse an insert
    MaxUsers,      \* bound: users created
    MaxMappings,   \* bound: mappings created or changed
    MaxTfLogins    \* bound: logins

VARIABLES
    tfMapping,  \* federation_mapping: idp -> [id, type, allowed], id 0 when absent
    tfUsers,    \* users: sequence of [tenant, role]
    tfLinks,    \* federation_identity_links: <<idp, subject>> -> user, 0 when absent
    tfEvents,   \* events, in order
    tfLogin,    \* logins in flight
    tfAnswers,  \* answers given, in order
    tfChanges,  \* mappings created or changed (bound)
    tfStarted,  \* logins started (bound)
    tfMapLog,   \* the last audit event of a mapping
    tfShown     \* history: what a tenant-admin was shown last: [tenant, allowed]

consoleVars == <<tfMapLog, tfShown>>
tfVars == <<tfMapping, tfUsers, tfLinks, tfEvents, tfLogin, tfAnswers, tfChanges, tfStarted, consoleVars>>

ASSUME TfAssumption ==
    /\ TfClaims # {} /\ \A c \in TfClaims : c.idp \in TfIdps
    /\ "none" \notin TfTenants
    /\ {MaxUsers, MaxMappings, MaxTfLogins} \subseteq Nat

TfRoles == {"admin", "operator", "viewer"}
NoMapping == [id |-> 0, type |-> "saml", allowed |-> {}]
TfMapping == [id : 0..MaxMappings, type : {"saml", "oidc"}, allowed : {{}} \cup TfAllowed]
TfIdle == [pc |-> "idle", c |-> CHOOSE c \in TfClaims : TRUE, user |-> 0, seen |-> "none",
           new |-> FALSE, raced |-> FALSE, n |-> 0]
TfLoginState ==
    [pc : {"idle", "mapping", "tenant", "find", "create", "refind", "update", "failed", "audit", "reject"},
     c : TfClaims, user : 0..MaxUsers, seen : TfRoles \cup {"none"}, new : BOOLEAN, raced : BOOLEAN,
     n : 0..MaxTfLogins]
TfUser == [tenant : TfTenants, role : TfRoles]
NoMapEvent == [type |-> "none", id |-> 0]
TfEvent == [type : {"login.new_user", "login.existing_user", "login.role_updated", "rebind_rejected", "logout"},
            user : 1..MaxUsers, role : TfRoles, roleUpdated : BOOLEAN, login : 1..MaxTfLogins]

\* The tables, the logins and the answers keep their types.
TfTypeOK ==
    /\ tfMapping \in [TfIdps -> TfMapping] /\ tfUsers \in Seq(TfUser)
    /\ tfLinks \in [TfIdps \X TfSubjects -> 0..Len(tfUsers)]
    /\ \A k \in DOMAIN tfEvents : tfEvents[k] \in TfEvent
    /\ tfLogin \in [TfLogins -> TfLoginState]
    /\ tfChanges \in 0..MaxMappings /\ tfStarted \in 0..MaxTfLogins

TfInit ==
    /\ tfMapping = [i \in TfIdps |-> NoMapping] /\ tfUsers = <<>>
    /\ tfLinks = [l \in TfIdps \X TfSubjects |-> 0] /\ tfEvents = <<>>
    /\ tfLogin = [w \in TfLogins |-> TfIdle] /\ tfAnswers = <<>>
    /\ tfChanges = 0 /\ tfStarted = 0
    /\ tfMapLog = NoMapEvent /\ tfShown = {}

Key(c) == <<c.idp, c.subject>>
TfAnswer(w, code) ==
    /\ tfAnswers' = Append(tfAnswers, [c |-> tfLogin[w].c, code |-> code, user |-> tfLogin[w].user,
                                       new |-> tfLogin[w].new, login |-> tfLogin[w].n])
    /\ tfLogin' = [tfLogin EXCEPT ![w] = TfIdle]
Goes(w, pc) == tfLogin' = [tfLogin EXCEPT ![w] = [@ EXCEPT !.pc = pc]]
\* a login that has the user it is for
WithUser(l, pc, u, role, new, raced) ==
    [pc |-> pc, c |-> l.c, user |-> u, seen |-> role, new |-> new, raced |-> raced, n |-> l.n]
TablesUnchanged == UNCHANGED <<tfMapping, tfUsers, tfLinks, tfEvents, tfChanges, tfStarted, consoleVars>>

-----------------------------------------------------------------------------
(* Login *)

\* extractTenantClaim, with the parsers of the claims: the assertion names a
\* tenant and a subject.
TenantClaimed(c) == c.tenant # "none" /\ c.subject \in TfSubjects
\* parseRole
RoleParses(c) == c.role \in TfRoles
\* validateIdpTenantScope: an empty list allows nothing.
InIdpScope(m, tenant) == tenant \in m.allowed

\* SSOClient.resolveAuthentication: the port verified the response, the
\* claims were parsed.
SdkResolve(w, c) ==
    /\ tfLogin[w].pc = "idle" /\ tfStarted < MaxTfLogins
    /\ TenantClaimed(c)
    /\ tfLogin' = [tfLogin EXCEPT ![w] =
                       [pc |-> "mapping", c |-> c, user |-> 0, seen |-> "none", new |-> FALSE,
                        raced |-> FALSE, n |-> tfStarted + 1]]
    /\ tfStarted' = tfStarted + 1
    /\ UNCHANGED <<tfMapping, tfUsers, tfLinks, tfEvents, tfAnswers, tfChanges, consoleVars>>

\* createFederationResolveHandler: an assertion without a tenant is refused
\* before any query.
RouteRefuses(w, c) ==
    /\ tfLogin[w].pc = "idle" /\ tfStarted < MaxTfLogins
    /\ ~TenantClaimed(c)
    /\ tfAnswers' = Append(tfAnswers, [c |-> c, code |-> "FED_TENANT_SCOPE_MISSING", user |-> 0,
                                       new |-> FALSE, login |-> tfStarted + 1])
    /\ tfStarted' = tfStarted + 1
    /\ UNCHANGED <<tfMapping, tfUsers, tfLinks, tfEvents, tfLogin, tfChanges, consoleVars>>

\* findIdpMapping and validateIdpTenantScope; the mapping's type is not
\* compared with the assertion's.
CheckMapping(w) ==
    LET c == tfLogin[w].c  m == tfMapping[c.idp] IN
    /\ tfLogin[w].pc = "mapping"
    /\ \/ m.id = 0 /\ TfAnswer(w, "FED_IDP_NOT_REGISTERED")
       \/ m.id # 0 /\ ~InIdpScope(m, c.tenant) /\ TfAnswer(w, "FED_CROSS_TENANT_ASSERTION")
       \/ m.id # 0 /\ InIdpScope(m, c.tenant) /\ Goes(w, "tenant") /\ UNCHANGED tfAnswers
    /\ TablesUnchanged

\* findTenantById
TenantExists(t) == t \in TfTenants

\* the tenant is looked up, then extractRoleClaim
CheckTenant(w) ==
    LET c == tfLogin[w].c IN
    /\ tfLogin[w].pc = "tenant"
    /\ \/ ~TenantExists(c.tenant) /\ TfAnswer(w, "FED_TENANT_NOT_FOUND")
       \/ TenantExists(c.tenant) /\ ~RoleParses(c) /\ TfAnswer(w, "FED_ROLE_INVALID")
       \/ TenantExists(c.tenant) /\ RoleParses(c) /\ Goes(w, "find") /\ UNCHANGED tfAnswers
    /\ TablesUnchanged

\* mutant: the tenant of the user that is there is not compared
Adopt_AnyTenant(w, u, raced) ==
    WithUser(tfLogin[w], IF tfUsers[u].role # tfLogin[w].c.role THEN "update" ELSE "audit",
             u, tfUsers[u].role, FALSE, raced)

\* What a login does with the user it found: another tenant is refused, a
\* different role is to be written, the same role is only audited.
Adopt(w, u, raced) ==
    LET c == tfLogin[w].c  found == tfUsers[u]
        bound == found.tenant = c.tenant
        pc == CASE ~bound -> "reject"
                [] bound /\ found.role # c.role -> "update"
                [] OTHER -> "audit"
    IN  WithUser(tfLogin[w], pc, u, found.role, FALSE, raced)
\* provisionOrUpdateUser: findUserByExternalSubject
FindUser(w) ==
    LET u == tfLinks[Key(tfLogin[w].c)] IN
    /\ tfLogin[w].pc = "find"
    /\ tfLogin' = [tfLogin EXCEPT ![w] = IF u = 0 THEN [@ EXCEPT !.pc = "create"] ELSE Adopt(w, u, FALSE)]
    /\ UNCHANGED tfAnswers /\ TablesUnchanged

\* createUser: one transaction inserts the user and its link; the unique
\* index refuses the second link of a subject and rolls the user back.  The
\* answer to the COMMIT may be lost.
CreateUser(w) ==
    LET c == tfLogin[w].c IN
    /\ tfLogin[w].pc = "create"
    /\ \/ /\ tfLinks[Key(c)] = 0 /\ Len(tfUsers) < MaxUsers
          /\ tfUsers' = Append(tfUsers, [tenant |-> c.tenant, role |-> c.role])
          /\ tfLinks' = [tfLinks EXCEPT ![Key(c)] = Len(tfUsers) + 1]
          /\ \E pc \in {"audit", "failed"} :
                tfLogin' = [tfLogin EXCEPT ![w] =
                               WithUser(tfLogin[w], pc, Len(tfUsers) + 1, c.role, TRUE, FALSE)]
          /\ UNCHANGED tfAnswers
       \/ /\ tfLinks[Key(c)] # 0 /\ Goes(w, "refind")
          /\ UNCHANGED <<tfUsers, tfLinks, tfAnswers>>
       \/ /\ TfAnswer(w, "FED_JIT_PROVISIONING_FAILED")
          /\ UNCHANGED <<tfUsers, tfLinks>>
    /\ UNCHANGED <<tfMapping, tfEvents, tfChanges, tfStarted, consoleVars>>

\* After a unique violation the other login's user is looked up and adopted.
RecoverFromRace(w) ==
    LET u == tfLinks[Key(tfLogin[w].c)] IN
    /\ tfLogin[w].pc = "refind" /\ u # 0
    /\ tfLogin' = [tfLogin EXCEPT ![w] = Adopt(w, u, TRUE)]
    /\ UNCHANGED tfAnswers /\ TablesUnchanged

\* updateUserRole writes the asserted role whatever it is by now; the UPDATE
\* may fail, or its answer be lost.
UpdateUserRole(w) ==
    LET u == tfLogin[w].user  r == tfLogin[w].c.role IN
    /\ tfLogin[w].pc = "update"
    /\ \/ /\ tfUsers' = [tfUsers EXCEPT ![u] = [@ EXCEPT !.role = r]]
          /\ Goes(w, "audit") \/ Goes(w, "failed")
       \/ Goes(w, "failed") /\ UNCHANGED tfUsers
    /\ UNCHANGED <<tfMapping, tfLinks, tfEvents, tfAnswers, tfChanges, tfStarted, consoleVars>>

\* the port's error reaches the caller, whatever the database did
ProvisioningFails(w) ==
    /\ tfLogin[w].pc = "failed"
    /\ TfAnswer(w, "FED_JIT_PROVISIONING_FAILED")
    /\ TablesUnchanged

\* safeWriteAuditEvent: a failed insert is swallowed.
SafeWriteAuditEvent(e) ==
    \/ tfEvents' = Append(tfEvents, e)
    \/ TfAuditFails /\ UNCHANGED tfEvents

\* The event of a login: the race-recovered one is an existing user's.
LoginEvent(l) ==
    LET updated == ~l.new /\ l.seen # l.c.role IN
    [type |-> CASE l.new -> "login.new_user"
                [] ~l.new /\ updated /\ ~l.raced -> "login.role_updated"
                [] OTHER -> "login.existing_user",
     user |-> l.user, role |-> l.c.role, roleUpdated |-> updated, login |-> l.n]

AuditLogin(w) ==
    /\ tfLogin[w].pc = "audit"
    /\ SafeWriteAuditEvent(LoginEvent(tfLogin[w]))
    /\ TfAnswer(w, "OK")
    /\ UNCHANGED <<tfMapping, tfUsers, tfLinks, tfChanges, tfStarted, consoleVars>>

\* An existing user of another tenant: the refusal is audited, except after
\* a race.
RejectRebind(w) ==
    LET l == tfLogin[w] IN
    /\ l.pc = "reject"
    /\ IF l.raced THEN UNCHANGED tfEvents
       ELSE SafeWriteAuditEvent([type |-> "rebind_rejected", user |-> l.user, role |-> l.c.role,
                                 roleUpdated |-> FALSE, login |-> l.n])
    /\ TfAnswer(w, "FED_IDENTITY_REBIND_REJECTED")
    /\ UNCHANGED <<tfMapping, tfUsers, tfLinks, tfChanges, tfStarted, consoleVars>>

\* createFederationLogoutHandler and SSOClient.logout: a login's user leaves.
Logout(k) ==
    LET a == tfAnswers[k] IN
    /\ a.code = "OK" /\ \A e \in DOMAIN tfEvents : ~(tfEvents[e].type = "logout" /\ tfEvents[e].login = a.login)
    /\ SafeWriteAuditEvent([type |-> "logout", user |-> a.user, role |-> a.c.role,
                            roleUpdated |-> FALSE, login |-> a.login])
    /\ UNCHANGED <<tfMapping, tfUsers, tfLinks, tfLogin, tfAnswers, tfChanges, tfStarted, consoleVars>>

-----------------------------------------------------------------------------
(* The registry of identity providers *)

\* _safeWriteAuditEvent of the console: a failed write is swallowed.
LogMapping(type, id) ==
    \/ tfMapLog' = [type |-> type, id |-> id]
    \/ TfAuditFails /\ UNCHANGED tfMapLog

\* _requireAdminOnly
RequireAdminOnly(role) == role = "admin"
\* _validateCreateInput
ValidCreateInput(type, allowed) == type \in {"saml", "oidc"} /\ allowed # {}

\* createMapping: admin only, a non-empty list, a new idp_identifier.
CreateMapping(role, i, type, allowed) ==
    /\ RequireAdminOnly(role) /\ ValidCreateInput(type, allowed)
    /\ tfMapping[i].id = 0 /\ tfChanges < MaxMappings
    /\ tfMapping' = [tfMapping EXCEPT ![i] = [id |-> tfChanges + 1, type |-> type, allowed |-> allowed]]
    /\ LogMapping("created", tfChanges + 1)
    /\ tfChanges' = tfChanges + 1
    /\ UNCHANGED <<tfUsers, tfLinks, tfEvents, tfLogin, tfAnswers, tfStarted, tfShown>>

\* updateMapping: the patch's list replaces the old one.
UpdateMapping(role, i, allowed) ==
    /\ RequireAdminOnly(role)
    /\ tfMapping[i].id # 0 /\ allowed \notin {{}, tfMapping[i].allowed} /\ tfChanges < MaxMappings
    /\ tfMapping' = [tfMapping EXCEPT ![i] = [@ EXCEPT !.allowed = allowed]]
    /\ LogMapping("updated", tfMapping[i].id)
    /\ tfChanges' = tfChanges + 1
    /\ UNCHANGED <<tfUsers, tfLinks, tfEvents, tfLogin, tfAnswers, tfStarted, tfShown>>

\* deleteMapping: users and links of the provider stay.
DeleteMapping(role, i) ==
    /\ RequireAdminOnly(role)
    /\ tfMapping[i].id # 0
    /\ tfMapping' = [tfMapping EXCEPT ![i] = NoMapping]
    /\ LogMapping("deleted", tfMapping[i].id)
    /\ UNCHANGED <<tfUsers, tfLinks, tfEvents, tfLogin, tfAnswers, tfChanges, tfStarted, tfShown>>

\* _requireFederationReadRole
MayReadMappings(role) == role \in {"admin", "tenant-admin"}
\* A caller: the console's own, or one bound to a tenant.  A tenant-admin must be bound.
CallerConsistent(role, caller) == role = "tenant-admin" => caller # "global"
\* What a reader was shown; what an admin sees is not restricted.
TfShow(role, caller, rows) ==
    /\ tfShown' = IF role = "tenant-admin" THEN {[tenant |-> caller, allowed |-> m.allowed] : m \in rows}
                  ELSE tfShown
    /\ UNCHANGED <<tfMapping, tfUsers, tfLinks, tfEvents, tfLogin, tfAnswers, tfChanges, tfStarted,
                   tfMapLog>>

\* listMappings: a tenant-admin names its own tenant as the filter; the port applies it.
TenantFilter(role, caller, filter) == role = "tenant-admin" => filter = caller
ListMappings(role, caller, filter) ==
    LET rows == {tfMapping[i] : i \in {j \in TfIdps : tfMapping[j].id # 0}} IN
    /\ MayReadMappings(role) /\ CallerConsistent(role, caller) /\ TenantFilter(role, caller, filter)
    /\ TfShow(role, caller, {m \in rows : filter = "none" \/ filter \in m.allowed})

\* getMapping: what was read is checked before it is handed out.
GetMapping(role, caller, i) ==
    /\ MayReadMappings(role) /\ tfMapping[i].id # 0 /\ CallerConsistent(role, caller)
    /\ role = "tenant-admin" => caller \in tfMapping[i].allowed
    /\ TfShow(role, caller, {tfMapping[i]})

LoginNext ==
    \/ \E w \in TfLogins :
        \/ \E c \in TfClaims : SdkResolve(w, c) \/ RouteRefuses(w, c)
        \/ CheckMapping(w) \/ CheckTenant(w) \/ FindUser(w) \/ CreateUser(w)
        \/ RecoverFromRace(w) \/ UpdateUserRole(w) \/ ProvisioningFails(w) \/ AuditLogin(w)
        \/ RejectRebind(w)
    \/ \E k \in DOMAIN tfAnswers : Logout(k)

MappingNext ==
    \E role \in {"admin", "tenant-admin", "viewer"}, i \in TfIdps :
        \/ \E type \in {"saml", "oidc"}, a \in TfAllowed : CreateMapping(role, i, type, a)
        \/ \E a \in TfAllowed : UpdateMapping(role, i, a)
        \/ DeleteMapping(role, i)

\* reading changes nothing that a login or a change of a mapping looks at
ReadNext ==
    \E role \in {"admin", "tenant-admin", "viewer"}, caller \in TfTenants \cup {"global"} :
        \/ \E i \in TfIdps : GetMapping(role, caller, i)
        \/ \E f \in TfTenants \cup {"none"} : ListMappings(role, caller, f)

TfNext == LoginNext \/ MappingNext \/ ReadNext

TfSpec == TfInit /\ [][TfNext]_tfVars

-----------------------------------------------------------------------------
SucceededAs(k) == tfAnswers[k].code = "OK"

\* However logins of a subject race, all that succeed name one user, whose
\* tenant is the one asserted, and at most one of them created it; there is
\* no user without a link, although an answer of the database may be lost.
IdentitiesStayBound ==
    /\ \A k \in DOMAIN tfAnswers :
         SucceededAs(k) => LET a == tfAnswers[k] IN
            /\ a.user # 0 /\ tfLinks[Key(a.c)] = a.user
            /\ tfUsers[a.user].tenant = a.c.tenant
            /\ \A j \in DOMAIN tfAnswers : j # k /\ SucceededAs(j) /\ tfAnswers[j].new /\ a.new =>
                 Key(tfAnswers[j].c) # Key(a.c)
    /\ \A u \in DOMAIN tfUsers : Cardinality({l \in DOMAIN tfLinks : tfLinks[l] = u}) = 1

\* A tenant-admin is only ever shown providers that admit its tenant, whatever an administrator
\* changes in between.
TenantsSeeTheirMappings == \A x \in tfShown : x.tenant \in x.allowed

-----------------------------------------------------------------------------
(***************************************************************************)
(* The admin console of a multi-tenant deployment (sdk/src/admin-console,  *)
(* sdk/src/multi-tenancy): the middleware that finds the caller's tenant,  *)
(* the role table, the tenant and policy handlers, the audit hook around   *)
(* every one of them, and the two in-memory registries.  A handler awaits  *)
(* the audit hook before and after the registry, so that handlers          *)
(* interleave between the three; the hook is an interface whose persistent *)
(* implementations may fail.                                               *)
(***************************************************************************)

CONSTANTS
    AcCalls,         \* the HTTP requests in flight
    AcTenants,       \* the tenants seeded into the registry
    AcPolicyIds,     \* the policies seeded for each of them
    AcAllowed,       \* allowedTenantIds of the resolver
    AcApiKeys,       \* apiKeyTenantMap: API key -> tenant
    AcRequests,      \* the requests callers send
    AcHookFails,     \* whether a write of the audit hook may fail
    MaxAcCalls       \* bound: requests answered

VARIABLES
    tenantStore,     \* InMemoryTenantRegistry.store: tenant -> updates made, or Gone
    policyStore,     \* InMemoryPolicyRegistry.store: <<tenant, policy>> -> updates, or Gone
    tenantAuditEvents,  \* InMemoryTenantAuditHook.tenantAuditEvents
    admin,           \* admin[c]: where the handler of request c stands
    acAnswered,      \* the requests answered
    acChanges,       \* history: the changes made to the registries
    acReplies        \* history: the replies given to writes

acVars == <<tenantStore, policyStore, tenantAuditEvents, admin, acAnswered,
            acChanges, acReplies>>

Gone == -1

NoHeader == "none"

BadId == "bad"

AdminRoles == {"admin", "tenant-admin", "viewer"}

Reads == {"list", "get"}

Writes == {"update", "delete"}

\* the tenant ids that callers name, those of no tenant included
NamedIds == UNION {{r.header, r.jwt, r.target} : r \in AcRequests}

\* the request: what the headers carry, the role, and what the path and body ask
AdminRequest ==
    [header : NamedIds,
     jwt    : NamedIds,
     apiKey : DOMAIN AcApiKeys \cup {NoHeader},
     role   : AdminRoles \cup {NoHeader, "other"},
     kind   : {"tenant", "policy"},
     verb   : Reads \cup Writes,
     target : NamedIds,
     policy : AcPolicyIds \cup {NoHeader},
     confirm : BOOLEAN]

ASSUME AcAssumption == AcRequests \subseteq AdminRequest /\ MaxAcCalls \in Nat

ROLE_PERMISSIONS ==
    [r \in AdminRoles |->
        CASE r = "admin"        -> {"list", "get", "update", "delete"}
          [] r = "tenant-admin" -> {"list", "get", "update"}
          [] r = "viewer"       -> {"list", "get"}]

TenantAuditEvent ==
    [call : Nat, action : {"pre", "post"}, outcome : {"success", "error"}]

\* createAuditEvent; the events of one request carry the same resource and actor
CreateAuditEvent(n, action, outcome) ==
    [call |-> n, action |-> action, outcome |-> outcome]

-----------------------------------------------------------------------------
(* Which tenant a request belongs to: the sources are tried in order, and   *)
(* a malformed tenant id in one of them refuses the request.                *)

TryResolveFromHeader(r) == r.header

\* a token whose payload has no tenant_id is passed over
TryResolveFromJwt(r) == r.jwt

TryResolveFromApiKey(r) ==
    IF r.apiKey = NoHeader THEN NoHeader ELSE AcApiKeys[r.apiKey]

\* the first source that names a tenant decides
DefaultTenantResolver(r) ==
    LET sources == <<TryResolveFromHeader(r), TryResolveFromJwt(r), TryResolveFromApiKey(r)>>
        named == {i \in 1..3 : sources[i] # NoHeader}
    IN  IF named = {} THEN NoHeader
        ELSE sources[CHOOSE i \in named : \A j \in named : i <= j]

\* the status the middleware answers with, or 0 when the handler runs
TenantContextMiddleware(r) ==
    LET t == DefaultTenantResolver(r)
    IN  IF t = BadId THEN 403 ELSE IF t \in AcAllowed THEN 0 ELSE 401

\* parseAdminRole: a missing and an unknown role are both refused with 401
ParseAdminRole(r) == r.role \in AdminRoles

HasPermission(role, verb) == verb \in ROLE_PERMISSIONS[role]

\* mutant: the tenants are not compared
OwnTenant_Anyone(r) == TRUE

\* a tenant-admin asks about its own tenant only.  The two delete handlers and
\* the list of tenants have no such check: delete is for admins alone, and the
\* list is open to every role.
OwnTenant(r) ==
    r.role = "tenant-admin" => r.target = DefaultTenantResolver(r)

ChecksTarget(r) == ~(r.kind = "tenant" /\ r.verb = "list")

\* the path parameters: both must be there, the tenant well formed
PathIsValid(r) ==
    /\ ChecksTarget(r) => r.target # NoHeader
    /\ r.kind = "policy" /\ r.verb # "list" => r.policy # NoHeader

\* deleting a tenant takes a body that repeats its id
DeleteConfirmed(r) == r.kind = "tenant" /\ r.verb = "delete" => r.confirm

\* the checks of a handler before it calls the audit hook, in their order
HandlerRefuses(r) ==
    IF ~ParseAdminRole(r) THEN 401
    ELSE IF ~HasPermission(r.role, r.verb) THEN 403
    ELSE IF ~PathIsValid(r) THEN 400
    ELSE IF ChecksTarget(r) /\ r.target = BadId THEN 500
    ELSE IF ChecksTarget(r) /\ ~OwnTenant(r) THEN 403
    ELSE IF ~DeleteConfirmed(r) THEN 400
    ELSE 0

-----------------------------------------------------------------------------

NoCall == [at |-> "idle"]

AdminIdle(c) == admin[c].at = "idle"

Context(c) == DefaultTenantResolver(admin[c].req)

AcInit ==
    /\ tenantStore = [t \in AcTenants |-> 0]
    /\ policyStore = [k \in AcTenants \X AcPolicyIds |-> 0]
    /\ tenantAuditEvents = [t \in AcAllowed |-> <<>>]
    /\ admin = [c \in AcCalls |-> NoCall]
    /\ acAnswered = 0
    /\ acChanges = {}
    /\ acReplies = {}

\* a request comes in: the middleware and the handler's checks take no await
\* that another request could use
ReceiveAdmin(c, r) ==
    LET n == acAnswered + 1
        refused == IF TenantContextMiddleware(r) # 0 THEN TenantContextMiddleware(r)
                   ELSE HandlerRefuses(r)
    IN  /\ AdminIdle(c)
        /\ acAnswered < MaxAcCalls
        /\ acAnswered' = n
        /\ IF refused # 0
           THEN UNCHANGED admin
           ELSE admin' = [admin EXCEPT ![c] =
                    [at |-> IF r.verb \in Writes THEN "preCall" ELSE "registry",
                     n |-> n, req |-> r, found |-> FALSE]]
        /\ UNCHANGED <<tenantStore, policyStore, tenantAuditEvents, acChanges, acReplies>>

\* the handler of request c moves on
Stands(c, at, found) == [at |-> at, n |-> admin[c].n, req |-> admin[c].req, found |-> found]

\* appendEvent: the event goes into the log of the CALLER's tenant
AppendEvent(c, action, outcome) ==
    tenantAuditEvents' = [tenantAuditEvents EXCEPT ![Context(c)] =
        Append(@, CreateAuditEvent(admin[c].n, action, outcome))]

\* handleAdminError and res.status(..).json(..)
ReplyAdmin(c, status) ==
    /\ acReplies' = IF admin[c].req.verb \in Writes
                    THEN acReplies \cup {[call |-> admin[c].n, status |-> status,
                                          tenant |-> Context(c)]}
                    ELSE acReplies
    /\ admin' = [admin EXCEPT ![c] = NoCall]

\* mutant: a failing audit does not abort the write
PreCall_Skipped(c) ==
    /\ admin[c].at = "preCall"
    /\ admin' = [admin EXCEPT ![c] = Stands(c, "registry", FALSE)]
    /\ UNCHANGED <<tenantStore, policyStore, tenantAuditEvents, acAnswered, acChanges, acReplies>>

\* auditHook.preCall: its failure aborts the write
PreCall(c) ==
    /\ admin[c].at = "preCall"
    /\ \/ /\ AppendEvent(c, "pre", "success")
          /\ admin' = [admin EXCEPT ![c] = Stands(c, "registry", FALSE)]
          /\ UNCHANGED acReplies
       \/ /\ AcHookFails
          /\ ReplyAdmin(c, 500)
          /\ UNCHANGED tenantAuditEvents
    /\ UNCHANGED <<tenantStore, policyStore, acAnswered, acChanges>>

TargetExists(r) ==
    IF r.kind = "tenant"
    THEN r.target \in AcTenants /\ tenantStore[r.target] # Gone
    ELSE r.target \in AcTenants /\ policyStore[<<r.target, r.policy>>] # Gone

\* InMemoryTenantRegistry / InMemoryPolicyRegistry: get and list read; update
\* and delete reject when the row is not there
RegistryUpdate(old) == old + 1

UpdateTenant(t, new) == tenantStore' = [tenantStore EXCEPT ![t] = new]

UpdatePolicy(t, p, new) == policyStore' = [policyStore EXCEPT ![<<t, p>>] = new]

CallRegistry(c) ==
    LET r == admin[c].req
        found == r.verb = "list" \/ TargetExists(r)
        applied == r.verb \in Writes /\ found
    IN  /\ admin[c].at = "registry"
        /\ IF applied /\ r.kind = "tenant"
           THEN UpdateTenant(r.target, IF r.verb = "delete" THEN Gone
                                       ELSE RegistryUpdate(tenantStore[r.target]))
           ELSE UNCHANGED tenantStore
        /\ IF applied /\ r.kind = "policy"
           THEN UpdatePolicy(r.target, r.policy,
                             IF r.verb = "delete" THEN Gone
                             ELSE RegistryUpdate(policyStore[<<r.target, r.policy>>]))
           ELSE UNCHANGED policyStore
        /\ acChanges' = IF applied
                        THEN acChanges \cup {[call |-> admin[c].n, tenant |-> r.target,
                                              by |-> Context(c), role |-> r.role,
                                              verb |-> r.verb]}
                        ELSE acChanges
        /\ admin' = [admin EXCEPT ![c] =
                        Stands(c, IF r.verb \in Writes /\ ~found THEN "failed" ELSE "postCall", found)]
        /\ UNCHANGED <<tenantAuditEvents, acAnswered, acReplies>>

\* the answer once the operation and its post event went through.  A get that
\* found nothing is audited as a success and answered 404.
SuccessStatus(c) ==
    CASE admin[c].req.verb = "delete" -> 204
      [] admin[c].req.verb = "get" /\ ~admin[c].found -> 404
      [] OTHER -> 200

\* the last await of withAdminAudit / withAdminAuditReadOnly: the post event of
\* a success.  Its failure falls into the catch of the operation itself.
PostCall(c) ==
    /\ admin[c].at = "postCall"
    /\ \/ /\ AppendEvent(c, "post", "success")
          /\ ReplyAdmin(c, SuccessStatus(c))
       \/ /\ AcHookFails
          /\ admin' = [admin EXCEPT ![c] = Stands(c, "failed", admin[c].found)]
          /\ UNCHANGED <<tenantAuditEvents, acReplies>>
    /\ UNCHANGED <<tenantStore, policyStore, acAnswered, acChanges>>

\* the catch: an 'error' event, whose own failure is swallowed, and the error
\* the caller sees: 404 for a missing row, 500 for a failed hook
PostError(c) ==
    LET r == admin[c].req
        status == IF r.verb \in Writes /\ ~admin[c].found THEN 404 ELSE 500
    IN  /\ admin[c].at = "failed"
        /\ \/ AppendEvent(c, "post", "error")
           \/ AcHookFails /\ UNCHANGED tenantAuditEvents
        /\ ReplyAdmin(c, status)
        /\ UNCHANGED <<tenantStore, policyStore, acAnswered, acChanges>>

AcNext ==
    \E c \in AcCalls :
        \/ \E r \in AcRequests : ReceiveAdmin(c, r)
        \/ PreCall(c)
        \/ CallRegistry(c)
        \/ PostCall(c)
        \/ PostError(c)

AcSpec == AcInit /\ [][AcNext]_acVars

-----------------------------------------------------------------------------

AdminCall ==
    {NoCall} \cup
    [at : {"preCall", "registry", "postCall", "failed"}, n : 1..MaxAcCalls,
     req : AdminRequest, found : BOOLEAN]

\* The types of the registries, the logs and the requests in flight.
AcTypeOK ==
    /\ tenantStore \in [AcTenants -> Int]
    /\ policyStore \in [AcTenants \X AcPolicyIds -> Int]
    /\ tenantAuditEvents \in [AcAllowed -> Seq(TenantAuditEvent)]
    /\ admin \in [AcCalls -> AdminCall]
    /\ acAnswered \in 0..MaxAcCalls

Logged(t, e) == \E i \in DOMAIN tenantAuditEvents[t] : tenantAuditEvents[t][i] = e

Changed(n) == \E ch \in acChanges : ch.call = n

\* No registry is changed without a trace: every change was made by an admin, or
\* by a tenant-admin in its own tenant, after its .pre event was stored in the
\* log of the caller's tenant (withAdminAudit), and a caller told 2xx finds both
\* the change made and its .post success event stored.
AdminChangesAreTraced ==
    /\ \A ch \in acChanges :
          /\ \/ ch.role = "admin"
             \/ ch.role = "tenant-admin" /\ ch.verb = "update" /\ ch.tenant = ch.by
          /\ Logged(ch.by, CreateAuditEvent(ch.call, "pre", "success"))
    /\ \A a \in acReplies :
          a.status < 300 =>
              /\ Changed(a.call)
              /\ Logged(a.tenant, CreateAuditEvent(a.call, "post", "success"))
=============================================================================
