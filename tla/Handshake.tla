------------------------------ MODULE Handshake ------------------------------
(***************************************************************************)
(* The handshake of packages/communication: HandshakeInitiator.initiate()  *)
(* with its attempts and timer, the HTTP transport that sends an INIT      *)
(* again after 429 and 5xx, HandshakeResponder.respond() from await to     *)
(* await, its nonce store and the session it persists.                     *)
(*                                                                         *)
(* The initiators handshake with one responder.  An attempt c, n of call c *)
(* has a challenge (and nonce) of its own; the k-th copy of its INIT is    *)
(* the delivery <<c, n, k>>, which also names the session id and the       *)
(* responder key that respond() would draw for it.  Signatures are not     *)
(* forged and the answer of a request comes back on its connection, so the *)
(* checks of signature, sender, nonce and challengeId hold by construction;*)
(* a check that fails for another reason (an unknown key, a store that is  *)
(* down) is RespondThrows.  Capabilities do not steer the protocol and are *)
(* left out.                                                               *)
(***************************************************************************)
EXTENDS Integers, FiniteSets

CONSTANTS Calls,        \* initiate() calls
          Dids,         \* initiator DIDs
          DidOf,        \* the initiator of each call
          Servers,      \* options the responder may run with
          Token,        \* the capability token a call may offer
          OtherToken,   \* another one, which a validator may answer with
          NoToken,      \* capabilityTokenId === null
          MaxRetries,   \* HandshakeInitiator.maxRetries
          MaxResends,   \* HttpTransport.maxRetries
          MaxSent,      \* bound: copies of INITs sent in all
          MaxRestarts   \* bound: restarts of the responder

ASSUME CallsAssumption == DidOf \in [Calls -> Dids]
ASSUME ServersAssumption == Servers \subseteq [pref : {"OFF", "OPT_IN", "REQUIRED"}, validates : BOOLEAN]
ASSUME TokenAssumption == Token # NoToken /\ OtherToken # NoToken /\ Token # OtherToken
ASSUME BoundsAssumption == MaxRetries \in Nat /\ MaxResends \in Nat /\ MaxSent \in Nat /\ MaxRestarts \in Nat

VARIABLES pref,      \* encryptionPreference of every initiator
          token,     \* params.capabilityTokenId of every call
          server,    \* the responder's options: preference, validator injected
          call,      \* initiate() calls
          send,      \* transport.send of every challenge: copies sent, still open
          expired,   \* challenges that a respond() found past their expiresAt
          resp,      \* respond() calls
          nonces,    \* InMemoryNonceStore.store
          sessions,  \* rows of communication.sessions
          life       \* restarts of the responder so far

options == <<pref, token, server>>
vars == <<pref, token, server, call, send, expired, resp, nonces, sessions, life>>

Prefs == {"OFF", "OPT_IN", "REQUIRED"}
Modes == {"OFF", "REQUIRED"}
Attempts == 1 .. MaxRetries + 1
Copies == 1 .. MaxResends + 1
Challenges == Calls \X Attempts
Deliveries == Calls \X Attempts \X Copies
ChallengeOf(d) == <<d[1], d[2]>>
Delivery(ch, k) == <<ch[1], ch[2], k>>
InitiatorOf(d) == DidOf[d[1]]

\* What both sides hash, as far as it can differ between them: the two ephemeral keys
\* (named by the delivery), the authorized token and its fingerprint.
Transcript(d, t, fingerprint) ==
    [delivery |-> d, token |-> t, fingerprint |-> fingerprint]

\* A call without a session, in its n-th attempt.
Unconnected(st, n, error) ==
    [st |-> st, n |-> n, session |-> <<>>, mode |-> "OFF", key |-> <<>>, error |-> error]

\* No transport.send(), no respond(), no row.
NoSend == [copies |-> 0, open |-> FALSE]
NoResp == [st |-> "unsent", token |-> NoToken, fingerprint |-> FALSE, mode |-> "OFF", answer |-> "none"]
NoSession == [st |-> "none", mode |-> "OFF", life |-> 0]

Init ==
    /\ pref \in [Dids -> Prefs]
    /\ token \in [Calls -> {Token, NoToken}]
    /\ server \in Servers
    /\ call = [c \in Calls |-> Unconnected("idle", 0, "none")]
    /\ send = [ch \in Challenges |-> NoSend]
    /\ expired = {}
    /\ resp = [d \in Deliveries |-> NoResp]
    /\ nonces = {}
    /\ sessions = [d \in Deliveries |-> NoSession]
    /\ life = 0

------------------------------------------------------------------------------
(* The initiator and its transport.                                        *)

Waiting(c) == call[c].st = "waiting"
Current(ch) == Waiting(ch[1]) /\ call[ch[1]].n = ch[2]

\* Attempt n of call c: a fresh challenge goes into the transport.
Attempt(c, n) ==
    /\ call' = [call EXCEPT ![c] = Unconnected("waiting", n, "none")]
    /\ resp' = [resp EXCEPT ![<<c, n, 1>>].st = "sent"]

Initiate(c) ==
    /\ call[c].st = "idle"
    /\ Attempt(c, 1)
    /\ send' = [send EXCEPT ![<<c, 1>>] = [copies |-> 1, open |-> TRUE]]
    /\ UNCHANGED <<options, expired, nonces, sessions, life>>

\* initiate() rejects.
Fails(c, error) == [call EXCEPT ![c] = Unconnected("failed", call[c].n, error)]

\* HANDSHAKE_TIMEOUT: the next attempt, or the end of initiate().  sends is the
\* transport's state after whatever ended this attempt.
TimesOut(c, sends) ==
    LET n == call[c].n IN
    \/ /\ n <= MaxRetries
       /\ Attempt(c, n + 1)
       /\ send' = [sends EXCEPT ![<<c, n + 1>>] = [copies |-> 1, open |-> TRUE]]
    \/ /\ n > MaxRetries
       /\ call' = Fails(c, "timeout")
       /\ send' = sends
       /\ resp' = resp

\* mutant: the timer is set for the first attempt only
Timeout_FirstAttempt(c) ==
    /\ Waiting(c)
    /\ call[c].n = 1
    /\ TimesOut(c, send)
    /\ UNCHANGED <<options, expired, nonces, sessions, life>>

\* The timer of the attempt fires first; its transport.send() goes on unheard.
Timeout(c) ==
    /\ Waiting(c)
    /\ TimesOut(c, send)
    /\ UNCHANGED <<options, expired, nonces, sessions, life>>

Closed(ch) == [send EXCEPT ![ch] = [copies |-> send[ch].copies, open |-> FALSE]]

\* attempt <= this.maxRetries, of the copies sent so far
Resendable(k) == k <= MaxResends

\* transport.send() rejects with a plain Error.  Nobody listens to the send of an attempt
\* that was given up.
SendThrows(ch) ==
    \/ /\ Current(ch)
       /\ TimesOut(ch[1], Closed(ch))
    \/ /\ ~ Current(ch)
       /\ send' = Closed(ch)
       /\ UNCHANGED <<call, resp>>

\* An intermediary answers 429 or 5xx, whatever became of the request: the transport
\* sends the same envelope again, or gives up.
Retryable(ch) ==
    /\ send[ch].open
    /\ LET k == send[ch].copies IN
       \/ /\ Resendable(k)
          /\ Cardinality({d \in Deliveries : resp[d].st # "unsent"}) < MaxSent
          /\ send' = [send EXCEPT ![ch].copies = k + 1]
          /\ resp' = [resp EXCEPT ![Delivery(ch, k + 1)].st = "sent"]
          /\ UNCHANGED call
       \/ /\ ~ Resendable(k)
          /\ SendThrows(ch)
    /\ UNCHANGED <<options, expired, nonces, sessions, life>>

\* Another status but 204, an aborted or unreadable body.
BadResponse(ch) ==
    /\ send[ch].open
    /\ SendThrows(ch)
    /\ UNCHANGED <<options, expired, nonces, sessions, life>>

\* A socket error or the transport's own timeout is a ProtocolError('TRANSPORT_ERROR'),
\* which initiate() does not retry.
TransportError(ch) ==
    /\ send[ch].open
    /\ send' = Closed(ch)
    /\ call' = IF Current(ch) THEN Fails(ch[1], "transport") ELSE call
    /\ UNCHANGED <<options, expired, resp, nonces, sessions, life>>

\* 204: transport.send() resolves with null, and initiate() ends with INVALID_HANDSHAKE.
EmptyResponse(ch) ==
    /\ send[ch].open
    /\ send' = Closed(ch)
    /\ call' = IF Current(ch) THEN Fails(ch[1], "empty") ELSE call
    /\ UNCHANGED <<options, expired, resp, nonces, sessions, life>>

\* The checks of an accepted ACK: with a key of its own the initiator wants the token's
\* fingerprint, the same transcript, and no OFF when it requires encryption.
AckHolds(d) ==
    LET t == token[d[1]]
        r == resp[d]
    IN  pref[InitiatorOf(d)] # "OFF" =>
        IF r.mode = "REQUIRED"
        THEN /\ t # NoToken => r.fingerprint
             /\ Transcript(d, t, r.fingerprint) = Transcript(d, r.token, r.fingerprint)
        ELSE pref[InitiatorOf(d)] # "REQUIRED"

\* What the initiator returns for an accepted ACK; without a key of its own it looks at
\* no encryption field.
Established(d) ==
    LET c == d[1]
        encrypted == pref[InitiatorOf(d)] # "OFF" /\ resp[d].mode = "REQUIRED"
    IN  [call EXCEPT ![c] =
            [st |-> "established", n |-> call[c].n, session |-> d,
             mode |-> IF encrypted THEN "REQUIRED" ELSE "OFF",
             key |-> IF encrypted THEN Transcript(d, token[c], resp[d].fingerprint) ELSE <<>>,
             error |-> "none"]]

\* The ACK of delivery d is with the initiator, which asks for the responder's key.
Heard(d) ==
    [call EXCEPT ![d[1]] = [st |-> "verifying", n |-> call[d[1]].n, session |-> d,
                            mode |-> "OFF", key |-> <<>>, error |-> "none"]]

\* The response to the open request arrives: an ACK (200), which clears the timer, or the
\* handler's exception (400), which is a plain Error.
Response(ch) ==
    LET d == Delivery(ch, send[ch].copies) IN
    /\ send[ch].open
    /\ resp[d].st = "replied"
    /\ \/ /\ resp[d].answer = "error" \/ ~ Current(ch)
          /\ SendThrows(ch)
       \/ /\ resp[d].answer # "error"
          /\ Current(ch)
          /\ send' = Closed(ch)
          /\ call' = Heard(d)
          /\ UNCHANGED resp
    /\ UNCHANGED <<options, expired, nonces, sessions, life>>

\* The key is there and the signature holds; then the ACK itself is looked at.
VerifyAck(c) ==
    LET d == call[c].session IN
    /\ call[c].st = "verifying"
    /\ call' = CASE resp[d].answer = "refused" -> Fails(c, "rejected")
                 [] resp[d].answer = "accepted" /\ AckHolds(d) -> Established(d)
                 [] OTHER -> Fails(c, "invalid")
    /\ UNCHANGED <<options, send, expired, resp, nonces, sessions, life>>

\* The resolver throws or has no such key.
AckUnverified(c) ==
    /\ call[c].st = "verifying"
    /\ call' = Fails(c, "unverified")
    /\ UNCHANGED <<options, send, expired, resp, nonces, sessions, life>>

------------------------------------------------------------------------------
(* The responder.                                                          *)

Answers(d, answer) ==
    [resp EXCEPT ![d] = [st |-> "replied", token |-> resp[d].token,
        fingerprint |-> resp[d].fingerprint, mode |-> resp[d].mode, answer |-> answer]]

\* The clock is past expiresAt, and stays there.
ChallengeExpired(d) ==
    /\ resp[d].st = "sent"
    /\ expired' = expired \cup {ChallengeOf(d)}
    /\ resp' = Answers(d, "refused")
    /\ UNCHANGED <<options, call, send, nonces, sessions, life>>

\* verifyInitiator() turns the initiator down.
NotAuthorized(d) ==
    /\ resp[d].st = "sent"
    /\ ChallengeOf(d) \notin expired
    /\ resp' = Answers(d, "refused")
    /\ UNCHANGED <<options, call, send, expired, nonces, sessions, life>>

\* mutant: the answer of claim() is not looked at
ClaimNonce_Unchecked(d) ==
    /\ resp[d].st = "sent"
    /\ ChallengeOf(d) \notin expired
    /\ nonces' = nonces \cup {ChallengeOf(d)}
    /\ resp' = [resp EXCEPT ![d].st = "validating"]
    /\ UNCHANGED <<options, call, send, expired, sessions, life>>

\* Schema, signature, identity and expiry are checked and verifyInitiator() accepts, none
\* of which looks at anything that other calls change; claim() tests and adds the nonce
\* at once.
ClaimNonce(d) ==
    /\ resp[d].st = "sent"
    /\ ChallengeOf(d) \notin expired
    /\ nonces' = nonces \cup {ChallengeOf(d)}
    /\ resp' = IF ChallengeOf(d) \in nonces
               THEN Answers(d, "refused")
               ELSE [resp EXCEPT ![d].st = "validating"]
    /\ UNCHANGED <<options, call, send, expired, sessions, life>>

\* Rows 3 and 8 of the compatibility matrix.
Incompatible(ip, rp) == {ip, rp} = {"OFF", "REQUIRED"}

\* mutant: the responder's preference is forgotten
Negotiated_InitiatorOnly(ip, rp) == IF ip = "REQUIRED" THEN "REQUIRED" ELSE "OFF"

Negotiated(ip, rp) == IF "REQUIRED" \in {ip, rp} THEN "REQUIRED" ELSE "OFF"

\* mutant: without the fail-closed test of the fingerprint
Unauthorized_NoFingerprint(mode, t, fingerprint) ==
    mode = "REQUIRED" /\ t = NoToken

\* Rows 9 and 11, and the fail-closed test of the fingerprint.
Unauthorized(mode, t, fingerprint) ==
    mode = "REQUIRED" /\ (t = NoToken \/ ~ fingerprint)

\* The validator's answer (the challenge's own values without one), the compatibility
\* matrix, the ephemeral key and transcript, with the fingerprint that goes on the wire
\* with REQUIRED; sessionStore.create() is then called.
Validate(d, t, fingerprint) ==
    LET ip == pref[InitiatorOf(d)]
        mode == Negotiated(ip, server.pref)
    IN
    /\ resp[d].st = "validating"
    /\ ~ server.validates => t = token[d[1]] /\ ~ fingerprint
    /\ resp' = IF t # token[d[1]]
               THEN Answers(d, "refused")
               ELSE IF Incompatible(ip, server.pref) \/ Unauthorized(mode, t, fingerprint)
               THEN Answers(d, "error")
               ELSE [resp EXCEPT ![d] = [st |-> "creating", token |-> t,
                        fingerprint |-> fingerprint /\ mode = "REQUIRED",
                        mode |-> mode, answer |-> "none"]]
    /\ UNCHANGED <<options, call, send, expired, nonces, sessions, life>>

\* The validator rejects the authorization.
NotValidated(d) ==
    /\ server.validates
    /\ resp[d].st = "validating"
    /\ resp' = Answers(d, "refused")
    /\ UNCHANGED <<options, call, send, expired, nonces, sessions, life>>

\* uniq_sessions_live_per_pair
PairFree(d) ==
    \A e \in Deliveries : InitiatorOf(e) = InitiatorOf(d) => sessions[e].st # "live"

Persisted(d) ==
    [sessions EXCEPT ![d] = [st |-> "live", mode |-> resp[d].mode, life |-> life]]

\* The session is stored and accepted.
CreateSession(d) ==
    /\ resp[d].st = "creating"
    /\ PairFree(d)
    /\ sessions' = Persisted(d)
    /\ resp' = Answers(d, "accepted")
    /\ UNCHANGED <<options, call, send, expired, nonces, life>>

\* mutant: the failure of create() is swallowed
CreateFails_Acks(d) ==
    /\ resp[d].st = "creating"
    /\ resp' = Answers(d, "accepted")
    /\ UNCHANGED <<options, call, send, expired, nonces, sessions, life>>

\* create() throws, because of the index or of the database: 'Session persistence
\* failed'.
CreateFails(d) ==
    /\ resp[d].st = "creating"
    /\ resp' = Answers(d, "refused")
    /\ UNCHANGED <<options, call, send, expired, nonces, sessions, life>>

\* The INSERT is committed but the connection is lost before create() hears of it.
CreateUnheard(d) ==
    /\ resp[d].st = "creating"
    /\ PairFree(d)
    /\ sessions' = Persisted(d)
    /\ resp' = Answers(d, "refused")
    /\ UNCHANGED <<options, call, send, expired, nonces, life>>

\* A resolver, a store or the validator throws: HTTP 400.
RespondThrows(d) ==
    /\ resp[d].st \in {"sent", "validating"}
    /\ resp' = Answers(d, "error")
    /\ UNCHANGED <<options, call, send, expired, nonces, sessions, life>>

\* The responder's process restarts: its respond() calls and its nonces are gone.
Restart ==
    /\ life < MaxRestarts
    /\ life' = life + 1
    /\ nonces' = {}
    /\ resp' = [d \in Deliveries |->
                 IF resp[d].st \in {"validating", "creating"}
                 THEN [resp[d] EXCEPT !.st = "gone"] ELSE resp[d]]
    /\ UNCHANGED <<options, call, send, expired, sessions>>

------------------------------------------------------------------------------
(* The rest of the session's life (see SessionStore).                      *)

SessionCloses(d) ==
    /\ sessions[d].st = "live"
    /\ sessions' = [sessions EXCEPT ![d].st = "closed"]
    /\ UNCHANGED <<options, call, send, expired, resp, nonces, life>>

Next ==
    \/ \E c \in Calls : Initiate(c) \/ Timeout(c) \/ VerifyAck(c) \/ AckUnverified(c)
    \/ \E ch \in Challenges : \/ Retryable(ch) \/ BadResponse(ch) \/ TransportError(ch)
                             \/ EmptyResponse(ch) \/ Response(ch)
    \/ \E d \in Deliveries :
          \/ ChallengeExpired(d) \/ NotAuthorized(d) \/ ClaimNonce(d) \/ NotValidated(d)
          \/ CreateSession(d) \/ CreateFails(d) \/ CreateUnheard(d)
          \/ RespondThrows(d) \/ SessionCloses(d)
          \/ \E t \in {Token, OtherToken, NoToken}, f \in BOOLEAN : Validate(d, t, f)
    \/ Restart

Spec == Init /\ [][Next]_vars

\* A timer that is set fires, unless the attempt ends before; the resolver, whose answer no timer
\* guards, answers.
InitiatorFairness == \A c \in Calls : WF_vars(Timeout(c)) /\ WF_vars(VerifyAck(c))

FairSpec == Spec /\ InitiatorFairness

------------------------------------------------------------------------------
(* Properties.                                                             *)

CallRecord == [st : {"idle", "waiting", "verifying", "established", "failed"},
               n : 0 .. MaxRetries + 1,
               session : Deliveries \cup {<<>>},
               mode : Modes,
               key : [delivery : Deliveries, token : {Token, NoToken},
                      fingerprint : BOOLEAN] \cup {<<>>},
               error : {"none", "timeout", "transport", "empty", "unverified", "rejected", "invalid"}]
SendRecord == [copies : 0 .. MaxResends + 1, open : BOOLEAN]
RespRecord == [st : {"unsent", "sent", "validating", "creating", "replied", "gone"},
               token : {Token, NoToken}, fingerprint : BOOLEAN, mode : Modes,
               answer : {"none", "accepted", "refused", "error"}]
SessionRecord == [st : {"none", "live", "closed"}, mode : Modes, life : 0 .. MaxRestarts]

\* Calls, sends, deliveries and rows have their types: no attempt beyond maxRetries + 1,
\* no copy beyond the transport's, no undefined token (initiator.ts, http.ts, responder.ts).
TypeOK ==
    /\ pref \in [Dids -> Prefs]
    /\ token \in [Calls -> {Token, NoToken}]
    /\ server \in Servers
    /\ call \in [Calls -> CallRecord]
    /\ send \in [Challenges -> SendRecord]
    /\ expired \subseteq Challenges
    /\ resp \in [Deliveries -> RespRecord]
    /\ nonces \subseteq Challenges
    /\ sessions \in [Deliveries -> SessionRecord]
    /\ life \in 0 .. MaxRestarts

\* Both sides have the session of call c, with one mode and one transcript.
Agreed(c) ==
    LET d == call[c].session IN
    /\ d \in Deliveries
    /\ ChallengeOf(d) = <<c, call[c].n>>
    /\ sessions[d].st # "none"
    /\ sessions[d].mode = call[c].mode
    /\ call[c].mode = "REQUIRED" =>
          call[c].key = Transcript(d, resp[d].token, resp[d].fingerprint)

\* A session that initiate() reports as established is one of its last challenge; the
\* responder has stored it with the mode the initiator has, and both derived their keys
\* from one transcript.
Agreement == \A c \in Calls : call[c].st = "established" => Agreed(c)

\* "the two sides split, orphan sessions form" (responder.ts) must not happen: an
\* acceptance that arrives in time is one the initiator takes.
NoSplit == \A c \in Calls : call[c].error # "invalid"

\* The compatibility matrix, for what is stored: nothing when one side is OFF and the
\* other REQUIRED, encrypted and bound to an authorized token exactly when one side
\* requires encryption.
EncryptedWhenRequired ==
    \A d \in Deliveries : sessions[d].st # "none" =>
        LET prefs == {pref[InitiatorOf(d)], server.pref} IN
        /\ prefs # {"OFF", "REQUIRED"}
        /\ sessions[d].mode = "REQUIRED" <=> "REQUIRED" \in prefs
        /\ sessions[d].mode = "REQUIRED" =>
              /\ server.validates
              /\ resp[d].fingerprint
              /\ resp[d].token = token[d[1]] /\ token[d[1]] # NoToken

\* What the responder stores is what the initiator accepts, and it is encrypted exactly when
\* one side requires that (the compatibility matrix on both sides).
AcceptedTogether == TypeOK /\ NoSplit /\ EncryptedWhenRequired

\* Replay protection: a challenge, however often its INIT arrives, opens at most one
\* session in the life of a responder process.
OneSessionPerChallenge ==
    \A d, e \in Deliveries :
        /\ sessions[d].st # "none" /\ sessions[e].st # "none"
        /\ ChallengeOf(d) = ChallengeOf(e)
        /\ sessions[d].life = sessions[e].life
        => d = e

\* Every initiate() ends, whatever the network and the responder do, if its resolver answers.
EveryInitiateEnds == \A c \in Calls : Waiting(c) ~> call[c].st \in {"established", "failed"}
=============================================================================
