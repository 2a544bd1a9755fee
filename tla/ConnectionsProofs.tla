-------------------------- MODULE ConnectionsProofs --------------------------
(***************************************************************************)
(* Proofs about Handshake, for any number of calls, initiators, retries,   *)
(* resends and restarts.  The inductive invariant says where a delivery    *)
(* can be: untouched before its INIT is sent (Fresh); carrying the values  *)
(* that the compatibility matrix allowed once it is being stored (Stages); *)
(* and holding its challenge's nonce from the claim on, alone, as long as  *)
(* the responder's process lives (Claims); and an ACK that the initiator   *)
(* is verifying answers its own challenge (Acks).                          *)
(*                                                                         *)
(* And about WebSocketTransport, for any number of requests and frames:    *)
(* frames under way are the rest of their message (Rest), which the        *)
(* handler has once and as a whole (WsTold).                               *)
(***************************************************************************)
EXTENDS Handshake, WebSocketTransport, FiniteSetTheorems, TLAPS

\* What has not been sent has no trace at the responder.
Fresh ==
    /\ \A d \in Deliveries : d[3] > send[ChallengeOf(d)].copies => resp[d] = NoResp
    /\ \A ch \in Challenges : ch[2] > call[ch[1]].n => send[ch] = NoSend
    /\ \A c \in Calls : call[c].st = "idle" => call[c].n = 0
    /\ \A ch \in Challenges : send[ch].open => send[ch].copies > 0

\* The values respond() may store for delivery d.
Authorized(d) ==
    /\ resp[d].token = token[d[1]]
    /\ resp[d].mode = Negotiated(pref[InitiatorOf(d)], server.pref)
    /\ ~ Incompatible(pref[InitiatorOf(d)], server.pref)
    /\ ~ Unauthorized(resp[d].mode, resp[d].token, resp[d].fingerprint)
    /\ resp[d].fingerprint => server.validates

Stages ==
    \A d \in Deliveries :
        /\ resp[d].st = "creating" => Authorized(d)
        /\ resp[d].st = "replied" => resp[d].answer # "none"
        /\ resp[d].answer = "accepted" => sessions[d].st # "none"
        /\ sessions[d].st # "none" =>
              resp[d].st = "replied" /\ Authorized(d) /\ sessions[d].mode = resp[d].mode

\* The delivery whose respond() claimed the nonce in this life of the responder.
Admitted(d) ==
    \/ resp[d].st \in {"validating", "creating"}
    \/ sessions[d].st # "none" /\ sessions[d].life = life

Claims ==
    /\ \A d \in Deliveries : Admitted(d) => ChallengeOf(d) \in nonces
    /\ \A d, e \in Deliveries :
          Admitted(d) /\ Admitted(e) /\ ChallengeOf(d) = ChallengeOf(e) => d = e
    /\ \A d \in Deliveries : sessions[d].st # "none" => sessions[d].life <= life

\* What call c verifies is an ACK to its last challenge.
Acked(c) ==
    /\ call[c].session \in Deliveries
    /\ ChallengeOf(call[c].session) = <<c, call[c].n>>
    /\ resp[call[c].session].st = "replied"
    /\ resp[call[c].session].answer \in {"accepted", "refused"}

Acks == \A c \in Calls : call[c].st = "verifying" => Acked(c)

IInv == TypeOK /\ Fresh /\ Stages /\ Claims /\ Acks /\ Agreement /\ NoSplit /\ OneSessionPerChallenge

------------------------------------------------------------------------------
(* Deliveries and challenges.                                              *)

\* A delivery is a copy of the INIT of its challenge.
LEMMA DeliveryFacts ==
    /\ \A d \in Deliveries : /\ d[1] \in Calls /\ d[2] \in Attempts /\ d[3] \in Copies
                             /\ ChallengeOf(d) \in Challenges
                             /\ d = Delivery(ChallengeOf(d), d[3])
    /\ \A ch \in Challenges : ch[1] \in Calls /\ ch[2] \in Attempts /\ ch = <<ch[1], ch[2]>>
    /\ \A ch \in Challenges, k \in Copies :
          Delivery(ch, k) \in Deliveries /\ ChallengeOf(Delivery(ch, k)) = ch
          /\ Delivery(ch, k)[3] = k
BY DEF Deliveries, Challenges, ChallengeOf, Delivery

\* The first INIT of an attempt is a delivery.
LEMMA FirstDelivery ==
    ASSUME NEW c \in Calls, NEW n \in Attempts
    PROVE  /\ <<c, n, 1>> \in Deliveries /\ <<c, n>> \in Challenges
           /\ ChallengeOf(<<c, n, 1>>) = <<c, n>>
BY BoundsAssumption DEF Deliveries, Challenges, ChallengeOf, Copies

\* The responder's options are what Servers allows.
LEMMA ServerFacts ==
    ASSUME TypeOK
    PROVE  server.pref \in Prefs /\ server.validates \in BOOLEAN
BY ServersAssumption DEF TypeOK, Prefs

------------------------------------------------------------------------------
(* The initial states.                                                     *)

\* Nothing has been sent.
LEMMA InitInv == Init => IInv
<1> SUFFICES ASSUME Init PROVE IInv
  OBVIOUS
<1>0. /\ \A d \in Deliveries : resp[d] = NoResp /\ sessions[d] = NoSession
      /\ \A c \in Calls : call[c] = Unconnected("idle", 0, "none")
      /\ \A ch \in Challenges : send[ch] = NoSend
  BY DEF Init
<1>1. TypeOK
  <2>1. Unconnected("idle", 0, "none") \in CallRecord
    BY BoundsAssumption DEF Unconnected, CallRecord, Modes
  <2>2. NoSend \in SendRecord /\ NoResp \in RespRecord /\ NoSession \in SessionRecord
    BY BoundsAssumption DEF NoSend, NoResp, NoSession, SendRecord, RespRecord, SessionRecord, Modes
  <2> QED
    BY <2>1, <2>2, BoundsAssumption DEF Init, TypeOK
<1>2. Fresh
  BY <1>0, DeliveryFacts, BoundsAssumption DEF Fresh, NoSend, Unconnected, Copies
<1>3. Stages /\ Claims /\ OneSessionPerChallenge
  BY <1>0 DEF Stages, Claims, Admitted, OneSessionPerChallenge, NoResp, NoSession
<1>4. Agreement /\ Acks /\ NoSplit
  BY <1>0 DEF Agreement, Acks, NoSplit, Unconnected
<1> QED
  BY <1>1, <1>2, <1>3, <1>4 DEF IInv

------------------------------------------------------------------------------
(* Steps of the initiator and the transport.                               *)

SentResp == [NoResp EXCEPT !.st = "sent"]

\* A step that leaves the responder alone, but for an INIT that it has not seen.
LEMMA InitiatorStep ==
    ASSUME IInv,
           UNCHANGED <<options, expired, nonces, sessions, life>>,
           call' \in [Calls -> CallRecord],
           send' \in [Challenges -> SendRecord],
           resp' \in [Deliveries -> RespRecord],
           \A d \in Deliveries :
              resp'[d] = resp[d] \/ (resp[d] = NoResp /\ resp'[d] = SentResp),
           Fresh',
           \A c \in Calls : call'[c] = call[c] \/ call'[c].st # "established" \/ Agreed(c)',
           \A c \in Calls : call'[c] = call[c] \/ call'[c].st # "verifying" \/ Acked(c)',
           \A c \in Calls : call'[c] = call[c] \/ call'[c].error # "invalid"
    PROVE  IInv'
<1>1. TypeOK'
  BY DEF IInv, TypeOK, options
<1>2. \A d \in Deliveries : sessions[d].st # "none" => resp'[d] = resp[d]
  BY DEF IInv, Stages, NoResp
<1>3. Stages'
  <2> SUFFICES ASSUME NEW d \in Deliveries
               PROVE  /\ resp'[d].st = "creating" => Authorized(d)'
                      /\ resp'[d].st = "replied" => resp'[d].answer # "none"
                      /\ resp'[d].answer = "accepted" => sessions'[d].st # "none"
                      /\ sessions'[d].st # "none" =>
                            resp'[d].st = "replied" /\ Authorized(d)' /\ sessions'[d].mode = resp'[d].mode
    BY DEF Stages
  <2>1. CASE resp'[d] = resp[d]
    BY <2>1 DEF IInv, Stages, Authorized, options, InitiatorOf
  <2>2. CASE resp[d] = NoResp /\ resp'[d] = SentResp
    BY <2>2 DEF IInv, Stages, NoResp, SentResp
  <2> QED
    BY <2>1, <2>2
<1>4. \A d \in Deliveries : Admitted(d)' <=> Admitted(d)
  BY DEF Admitted, NoResp, SentResp
<1>5. Claims'
  BY <1>4 DEF IInv, Claims
<1>6. Agreement'
  <2> SUFFICES ASSUME NEW c \in Calls, call'[c].st = "established", call'[c] = call[c]
               PROVE  Agreed(c)'
    BY DEF Agreement
  <2>1. Agreed(c)
    BY DEF IInv, Agreement
  <2> QED
    BY <1>2, <2>1 DEF Agreed
<1>7. NoSplit' /\ OneSessionPerChallenge'
  BY DEF IInv, NoSplit, OneSessionPerChallenge
<1>8. Acks'
  <2> SUFFICES ASSUME NEW c \in Calls, call'[c].st = "verifying", call'[c] = call[c]
               PROVE  Acked(c)'
    BY DEF Acks
  <2>1. Acked(c)
    BY DEF IInv, Acks
  <2>2. resp'[call[c].session] = resp[call[c].session]
    BY <2>1 DEF Acked, NoResp
  <2> QED
    BY <2>1, <2>2 DEF Acked
<1> QED
  BY <1>1, <1>3, <1>5, <1>6, <1>7, <1>8 DEF IInv

\* Sends that differ from the transport's in what is open.
SameCopies(sends) ==
    /\ sends \in [Challenges -> SendRecord]
    /\ \A ch \in Challenges : /\ sends[ch].copies = send[ch].copies
                              /\ send[ch] = NoSend => sends[ch] = NoSend
                              /\ sends[ch].open => send[ch].open

\* Closing a send leaves its copies.
LEMMA ClosedFacts ==
    ASSUME IInv, NEW ch \in Challenges
    PROVE  SameCopies(Closed(ch)) /\ SameCopies(send)
<1>1. send \in [Challenges -> SendRecord]
  BY DEF IInv, TypeOK
<1>2. send[ch].copies \in 0 .. MaxResends + 1
  <2>1. send[ch] \in SendRecord
    BY <1>1
  <2> QED
    BY <2>1 DEF SendRecord
<1> DEFINE r == [copies |-> send[ch].copies, open |-> FALSE]
<1>3. /\ Closed(ch) \in [Challenges -> SendRecord] /\ Closed(ch)[ch] = r
      /\ \A x \in Challenges : x # ch => Closed(ch)[x] = send[x]
  <2>1. r \in SendRecord
    BY <1>2 DEF SendRecord
  <2> QED
    BY <1>1, <2>1 DEF Closed
<1>4. SameCopies(Closed(ch))
  BY <1>1, <1>3 DEF SameCopies, NoSend
<1> QED
  BY <1>1, <1>4 DEF SameCopies

\* Nothing is sent and no attempt is begun.
LEMMA FreshKept ==
    ASSUME IInv, SameCopies(send'), resp' = resp,
           \A b \in Calls : call'[b].n = call[b].n,
           \A b \in Calls : call'[b].st = "idle" => call'[b] = call[b]
    PROVE  Fresh'
<1>1. ASSUME NEW d \in Deliveries, d[3] > send'[ChallengeOf(d)].copies
      PROVE  resp'[d] = NoResp
  <2>1. send'[ChallengeOf(d)].copies = send[ChallengeOf(d)].copies
    BY DeliveryFacts DEF SameCopies
  <2> QED
    BY <1>1, <2>1 DEF IInv, Fresh
<1>2. ASSUME NEW ch \in Challenges, ch[2] > call'[ch[1]].n
      PROVE  send'[ch] = NoSend
  <2>1. call'[ch[1]].n = call[ch[1]].n
    BY DeliveryFacts
  <2>2. send[ch] = NoSend
    BY <1>2, <2>1 DEF IInv, Fresh
  <2> QED
    BY <2>2 DEF SameCopies
<1>3. ASSUME NEW b \in Calls, call'[b].st = "idle"
      PROVE  call'[b].n = 0
  BY <1>3 DEF IInv, Fresh
<1>4. ASSUME NEW ch \in Challenges, send'[ch].open
      PROVE  send'[ch].copies > 0
  <2>1. send[ch].open /\ send'[ch].copies = send[ch].copies
    BY <1>4 DEF SameCopies
  <2> QED
    BY <2>1 DEF IInv, Fresh
<1> QED
  BY <1>1, <1>2, <1>3, <1>4 DEF Fresh

\* The next attempt of a call.
LEMMA AttemptStep ==
    ASSUME IInv, NEW c \in Calls, NEW n \in Attempts, n = call[c].n + 1,
           NEW sends, SameCopies(sends),
           Attempt(c, n),
           send' = [sends EXCEPT ![<<c, n>>] = [copies |-> 1, open |-> TRUE]],
           UNCHANGED <<options, expired, nonces, sessions, life>>
    PROVE  IInv'
<1> DEFINE ch == <<c, n>>
           d == <<c, n, 1>>
<1>0. /\ call \in [Calls -> CallRecord] /\ send \in [Challenges -> SendRecord]
      /\ resp \in [Deliveries -> RespRecord]
  BY DEF IInv, TypeOK
<1>1. d \in Deliveries /\ ch \in Challenges /\ ChallengeOf(d) = ch /\ d[3] = 1
  BY FirstDelivery
<1>2. ch[1] = c /\ ch[2] = n /\ n > call[c].n /\ n \in Nat
  <2>1. call[c].n \in Nat
    BY <1>0, BoundsAssumption DEF CallRecord
  <2> QED
    BY <2>1
<1>3. send[ch].copies = 0
  BY <1>1, <1>2 DEF IInv, Fresh, NoSend
<1>4. resp[d] = NoResp
  BY <1>1, <1>3 DEF IInv, Fresh
<1>5. /\ resp' = [resp EXCEPT ![d] = SentResp]
      /\ call' = [call EXCEPT ![c] = Unconnected("waiting", n, "none")]
  BY <1>0, <1>1, <1>4 DEF Attempt, SentResp
<1>6. /\ SentResp \in RespRecord /\ Unconnected("waiting", n, "none") \in CallRecord
      /\ [copies |-> 1, open |-> TRUE] \in SendRecord
  <2>1. SentResp \in RespRecord
    BY DEF SentResp, NoResp, RespRecord, Modes
  <2>2. n \in 0 .. MaxRetries + 1 /\ 1 \in 0 .. MaxResends + 1
    BY BoundsAssumption DEF Attempts
  <2>3. Unconnected("waiting", n, "none") \in CallRecord
    BY <2>2 DEF Unconnected, CallRecord, Modes
  <2>4. [copies |-> 1, open |-> TRUE] \in SendRecord
    BY <2>2 DEF SendRecord
  <2> QED
    BY <2>1, <2>3, <2>4
<1>7. /\ call' \in [Calls -> CallRecord] /\ send' \in [Challenges -> SendRecord]
      /\ resp' \in [Deliveries -> RespRecord]
  BY <1>0, <1>5, <1>6 DEF SameCopies
<1>8. /\ \A x \in Challenges : x # ch => /\ send'[x].copies = send[x].copies
                                         /\ send[x] = NoSend => send'[x] = NoSend
                                         /\ send'[x].open => send[x].open
      /\ send'[ch].copies = 1
  BY <1>1 DEF SameCopies
<1>9. /\ \A e \in Deliveries : e # d => resp'[e] = resp[e]
      /\ \A b \in Calls : b # c => call'[b] = call[b]
      /\ call'[c] = Unconnected("waiting", n, "none")
      /\ resp'[d] = SentResp
  BY <1>0, <1>1, <1>5
<1> HIDE DEF ch, d
<1>10. Fresh'
  <2>1. ASSUME NEW e \in Deliveries, e[3] > send'[ChallengeOf(e)].copies
        PROVE  resp'[e] = NoResp
    <3>1. ChallengeOf(e) \in Challenges /\ e[3] \in Nat
      BY DeliveryFacts, BoundsAssumption DEF Copies
    <3>2. e[3] > send[ChallengeOf(e)].copies
      <4>1. CASE ChallengeOf(e) = ch
        BY <1>3, <1>8, <2>1, <3>1, <4>1
      <4>2. CASE ChallengeOf(e) # ch
        BY <1>8, <2>1, <3>1, <4>2
      <4> QED
        BY <4>1, <4>2
    <3>3. e # d
      BY <1>1, <1>8, <2>1
    <3> QED
      BY <1>9, <3>2, <3>3 DEF IInv, Fresh
  <2>2. ASSUME NEW x \in Challenges, x[2] > call'[x[1]].n
        PROVE  send'[x] = NoSend
    <3>1. x[1] \in Calls /\ x[2] \in Nat /\ x = <<x[1], x[2]>>
      BY DeliveryFacts, BoundsAssumption DEF Attempts
    <3>2. x # ch
      BY <1>2, <1>9, <2>2 DEF Unconnected
    <3>3. x[2] > call[x[1]].n
      <4>1. CASE x[1] = c
        <5>1. call[c].n \in Nat
          BY <1>0, BoundsAssumption DEF CallRecord
        <5> QED
          BY <4>1, <1>2, <1>9, <2>2, <3>1, <5>1 DEF Unconnected
      <4>2. CASE x[1] # c
        BY <4>2, <1>9, <2>2, <3>1
      <4> QED
        BY <4>1, <4>2
    <3>4. send[x] = NoSend
      BY <3>3 DEF IInv, Fresh
    <3> QED
      BY <1>8, <3>2, <3>4
  <2>3. ASSUME NEW b \in Calls, call'[b].st = "idle"
        PROVE  call'[b].n = 0
    BY <1>9, <2>3 DEF IInv, Fresh, Unconnected
  <2>4. ASSUME NEW x \in Challenges, send'[x].open
        PROVE  send'[x].copies > 0
    <3>1. CASE x = ch
      BY <1>8, <3>1
    <3>2. CASE x # ch
      <4>1. send[x].open /\ send'[x].copies = send[x].copies
        BY <1>8, <2>4, <3>2
      <4> QED
        BY <4>1 DEF IInv, Fresh
    <3> QED
      BY <3>1, <3>2
  <2> QED
    BY <2>1, <2>2, <2>3, <2>4 DEF Fresh
<1>11. \A e \in Deliveries : resp'[e] = resp[e] \/ (resp[e] = NoResp /\ resp'[e] = SentResp)
  BY <1>4, <1>9
<1>12. \A b \in Calls : /\ call'[b] = call[b] \/ call'[b].st \notin {"established", "verifying"}
                        /\ call'[b] = call[b] \/ call'[b].error # "invalid"
  BY <1>9 DEF Unconnected
<1> QED
  BY <1>7, <1>10, <1>11, <1>12, InitiatorStep

\* A call ends without a session, or goes on as it is.
LEMMA QuietStep ==
    ASSUME IInv, SameCopies(send'), resp' = resp,
           call' = call \/ \E c \in Calls, x \in {"timeout", "transport", "empty", "unverified", "rejected"} :
                              call' = Fails(c, x),
           UNCHANGED <<options, expired, nonces, sessions, life>>
    PROVE  IInv'
<1>0. /\ call \in [Calls -> CallRecord] /\ resp \in [Deliveries -> RespRecord]
      /\ send' \in [Challenges -> SendRecord]
  BY DEF IInv, TypeOK, SameCopies
<1>1. /\ call' \in [Calls -> CallRecord]
      /\ \A b \in Calls : /\ call'[b].n = call[b].n
                          /\ \/ call'[b] = call[b]
                             \/ call'[b].st = "failed" /\ call'[b].error # "invalid"
  <2>1. CASE call' = call
    BY <1>0, <2>1
  <2>2. ASSUME NEW c \in Calls, NEW x \in {"timeout", "transport", "empty", "unverified", "rejected"},
               call' = Fails(c, x)
        PROVE  <1>1!1 /\ <1>1!2
    <3>1. Unconnected("failed", call[c].n, x) \in CallRecord
      BY <1>0 DEF Unconnected, CallRecord, Modes
    <3> QED
      BY <1>0, <2>2, <3>1 DEF Fails, Unconnected
  <2> QED
    BY <2>1, <2>2
<1>2. Fresh'
  BY <1>1, FreshKept
<1> QED
  BY <1>0, <1>1, <1>2, InitiatorStep

\* HANDSHAKE_TIMEOUT.
LEMMA TimesOutStep ==
    ASSUME IInv, NEW c \in Calls, NEW sends, SameCopies(sends), TimesOut(c, sends),
           UNCHANGED <<options, expired, nonces, sessions, life>>
    PROVE  IInv'
<1>0. call[c].n \in 0 .. MaxRetries + 1
  BY DEF IInv, TypeOK, CallRecord
<1>1. CASE call[c].n <= MaxRetries /\ Attempt(c, call[c].n + 1)
           /\ send' = [sends EXCEPT ![<<c, call[c].n + 1>>] = [copies |-> 1, open |-> TRUE]]
  <2>1. call[c].n + 1 \in Attempts
    BY <1>0, <1>1, BoundsAssumption DEF Attempts
  <2> QED
    BY <1>1, <2>1, AttemptStep
<1>2. CASE call' = Fails(c, "timeout") /\ send' = sends /\ resp' = resp
  BY <1>2, QuietStep DEF SameCopies
<1> QED
  BY <1>1, <1>2 DEF TimesOut

\* transport.send() rejects.
LEMMA SendThrowsStep ==
    ASSUME IInv, NEW ch \in Challenges, SendThrows(ch),
           UNCHANGED <<options, expired, nonces, sessions, life>>
    PROVE  IInv'
<1>0. ch[1] \in Calls /\ SameCopies(Closed(ch))
  BY DeliveryFacts, ClosedFacts
<1>1. CASE TimesOut(ch[1], Closed(ch))
  BY <1>0, <1>1, TimesOutStep
<1>2. CASE send' = Closed(ch) /\ UNCHANGED <<call, resp>>
  BY <1>0, <1>2, QuietStep DEF SameCopies
<1> QED
  BY <1>1, <1>2 DEF SendThrows

\* An accepted ACK passes the initiator's checks.
LEMMA AcceptedHolds ==
    ASSUME IInv, NEW d \in Deliveries, sessions[d].st # "none"
    PROVE  AckHolds(d)
<1>1. Authorized(d) /\ server.pref \in Prefs
  BY ServerFacts DEF IInv, Stages
<1>2. d[1] \in Calls /\ DidOf[d[1]] \in Dids
  BY DeliveryFacts, CallsAssumption
<1>3. pref[InitiatorOf(d)] \in Prefs
  BY <1>2 DEF InitiatorOf, IInv, TypeOK
<1> QED
  BY <1>1, <1>3 DEF AckHolds, Authorized, Negotiated, Unauthorized, Prefs

\* What initiate() returns for it is what the responder stored.
LEMMA EstablishedAgrees ==
    ASSUME IInv, NEW d \in Deliveries, ChallengeOf(d) = <<d[1], call[d[1]].n>>,
           sessions[d].st # "none",
           call' = Established(d),
           UNCHANGED <<options, expired, resp, nonces, sessions, life>>
    PROVE  /\ call' \in [Calls -> CallRecord]
           /\ Agreed(d[1])'
           /\ \A b \in Calls : b # d[1] => call'[b] = call[b]
           /\ call'[d[1]].n = call[d[1]].n
           /\ call'[d[1]].st = "established" /\ call'[d[1]].error = "none"
<1> DEFINE c == d[1]
           encrypted == pref[InitiatorOf(d)] # "OFF" /\ resp[d].mode = "REQUIRED"
           r == [st |-> "established", n |-> call[c].n, session |-> d,
                 mode |-> IF encrypted THEN "REQUIRED" ELSE "OFF",
                 key |-> IF encrypted THEN Transcript(d, token[c], resp[d].fingerprint) ELSE <<>>,
                 error |-> "none"]
<1>0. /\ call \in [Calls -> CallRecord] /\ c \in Calls /\ token[c] \in {Token, NoToken}
      /\ resp[d] \in RespRecord /\ server.pref \in Prefs
  BY DeliveryFacts, ServerFacts DEF IInv, TypeOK
<1>1. pref[InitiatorOf(d)] \in Prefs
  <2>1. DidOf[c] \in Dids
    BY <1>0, CallsAssumption
  <2> QED
    BY <2>1 DEF InitiatorOf, IInv, TypeOK
<1>2. Authorized(d) /\ sessions[d].mode = resp[d].mode
  BY DEF IInv, Stages
<1>3. call' = [call EXCEPT ![c] = r]
  BY DEF Established
<1>4. r \in CallRecord
  <2>1. Transcript(d, token[c], resp[d].fingerprint)
          \in [delivery : Deliveries, token : {Token, NoToken}, fingerprint : BOOLEAN]
    BY <1>0 DEF Transcript, RespRecord
  <2>2. r.key \in [delivery : Deliveries, token : {Token, NoToken}, fingerprint : BOOLEAN]
                    \cup {<<>>}
    BY <2>1
  <2>3. r.mode \in Modes
    BY DEF Modes
  <2>4. call[c].n \in 0 .. MaxRetries + 1
    BY <1>0 DEF CallRecord
  <2> HIDE DEF encrypted
  <2> QED
    BY <2>2, <2>3, <2>4 DEF CallRecord
<1>5. call'[c] = r /\ call' \in [Calls -> CallRecord] /\ \A b \in Calls : b # c => call'[b] = call[b]
  BY <1>0, <1>3, <1>4
<1>6. ChallengeOf(d) = <<c, call[c].n>>
  OBVIOUS
<1>7. resp[d].mode = IF encrypted THEN "REQUIRED" ELSE "OFF"
  BY <1>0, <1>1, <1>2 DEF Authorized, Negotiated, Incompatible, Prefs
<1>8. Agreed(c)'
  <2>1. call'[c].session = d /\ call'[c].n = call[c].n /\ call'[c].mode = resp[d].mode
    BY <1>5, <1>7
  <2>2. resp[d].mode = "REQUIRED" =>
           call'[c].key = Transcript(d, resp[d].token, resp[d].fingerprint)
    BY <1>2, <1>5, <1>7 DEF Authorized
  <2> QED
    BY <1>2, <1>6, <2>1, <2>2 DEF Agreed
<1> QED
  BY <1>5, <1>8

\* Every step of the initiator and of its transport.
LEMMA InitiatorInv ==
    ASSUME IInv,
           \/ \E c \in Calls : Initiate(c) \/ Timeout(c) \/ VerifyAck(c) \/ AckUnverified(c)
           \/ \E ch \in Challenges : \/ Retryable(ch) \/ BadResponse(ch) \/ TransportError(ch)
                                    \/ EmptyResponse(ch) \/ Response(ch)
    PROVE  IInv'
<1>0. /\ call \in [Calls -> CallRecord] /\ send \in [Challenges -> SendRecord]
      /\ resp \in [Deliveries -> RespRecord]
  BY DEF IInv, TypeOK
<1>1. ASSUME NEW c \in Calls, Initiate(c) PROVE IInv'
  <2>1. call[c].n = 0 /\ 1 \in Attempts
    BY <1>1, BoundsAssumption DEF Initiate, IInv, Fresh, Attempts
  <2>2. SameCopies(send)
    BY <1>0 DEF SameCopies
  <2>3. /\ Attempt(c, 1) /\ 1 = call[c].n + 1
        /\ send' = [send EXCEPT ![<<c, 1>>] = [copies |-> 1, open |-> TRUE]]
        /\ UNCHANGED <<options, expired, nonces, sessions, life>>
    BY <1>1, <2>1 DEF Initiate
  <2> QED
    BY <2>1, <2>2, <2>3, AttemptStep
<1>2. ASSUME NEW c \in Calls, Timeout(c) PROVE IInv'
  <2>1. SameCopies(send)
    BY <1>0 DEF SameCopies
  <2> QED
    BY <1>2, <2>1, TimesOutStep DEF Timeout
<1>3. ASSUME NEW ch \in Challenges, Retryable(ch) PROVE IInv'
  <2> DEFINE k == send[ch].copies
             d == Delivery(ch, k + 1)
  <2>1. CASE SendThrows(ch)
    BY <1>3, <2>1, SendThrowsStep DEF Retryable
  <2>2. CASE /\ Resendable(k)
             /\ send' = [send EXCEPT ![ch].copies = k + 1]
             /\ resp' = [resp EXCEPT ![d].st = "sent"]
             /\ UNCHANGED call
    <3>1. k \in 0 .. MaxResends + 1 /\ k <= MaxResends
      BY <1>0, <2>2 DEF SendRecord, Resendable
    <3>2. k + 1 \in Copies /\ k + 1 \in 0 .. MaxResends + 1
      BY <3>1, BoundsAssumption DEF Copies
    <3>3. d \in Deliveries /\ ChallengeOf(d) = ch /\ d[3] = k + 1
      BY <3>2, DeliveryFacts
    <3>4. resp[d] = NoResp
      BY <3>1, <3>3 DEF IInv, Fresh
    <3>5. resp' = [resp EXCEPT ![d] = SentResp] /\ SentResp \in RespRecord
      <4>1. SentResp \in RespRecord
        BY DEF SentResp, NoResp, RespRecord, Modes
      <4> QED
        BY <1>0, <2>2, <3>3, <3>4, <4>1 DEF SentResp
    <3>6. /\ send' \in [Challenges -> SendRecord]
          /\ \A x \in Challenges : x # ch => send'[x] = send[x]
          /\ send'[ch].copies = k + 1
      BY <1>0, <2>2, <3>2 DEF SendRecord
    <3>7. /\ resp' \in [Deliveries -> RespRecord] /\ resp'[d] = SentResp
          /\ \A e \in Deliveries : e # d => resp'[e] = resp[e]
      BY <1>0, <3>3, <3>5
    <3>8. ASSUME NEW e \in Deliveries, e[3] > send'[ChallengeOf(e)].copies
          PROVE  resp'[e] = NoResp
      <4>1. ChallengeOf(e) \in Challenges /\ e[3] \in Nat
        BY DeliveryFacts, BoundsAssumption DEF Copies
      <4>2. e[3] > send[ChallengeOf(e)].copies /\ e # d
        <5>1. CASE ChallengeOf(e) = ch
          BY <3>1, <3>3, <3>6, <3>8, <4>1, <5>1
        <5>2. CASE ChallengeOf(e) # ch
          BY <3>3, <3>6, <3>8, <4>1, <5>2
        <5> QED
          BY <5>1, <5>2
      <4> QED
        BY <3>7, <4>2 DEF IInv, Fresh
    <3>9. ASSUME NEW x \in Challenges, x[2] > call'[x[1]].n
          PROVE  send'[x] = NoSend
      <4>1. send[x] = NoSend
        BY <2>2, <3>9 DEF IInv, Fresh
      <4>2. CASE x # ch
        BY <3>6, <4>1, <4>2
      <4>3. CASE x = ch
        BY <1>3, <4>1, <4>3 DEF NoSend, Retryable
      <4> QED
        BY <4>2, <4>3
    <3>10. ASSUME NEW x \in Challenges, send'[x].open
           PROVE  send'[x].copies > 0
      BY <3>1, <3>6, <3>10 DEF IInv, Fresh
    <3>11. Fresh'
      BY <2>2, <3>8, <3>9, <3>10 DEF IInv, Fresh
    <3> QED
      BY <1>0, <1>3, <2>2, <3>4, <3>6, <3>7, <3>11, InitiatorStep DEF IInv, NoSplit, Retryable
  <2> QED
    BY <1>3, <2>1, <2>2 DEF Retryable
<1>4. ASSUME NEW ch \in Challenges, BadResponse(ch) PROVE IInv'
  BY <1>4, SendThrowsStep DEF BadResponse
<1>5. ASSUME NEW ch \in Challenges, TransportError(ch) \/ EmptyResponse(ch) PROVE IInv'
  <2>1. ch[1] \in Calls /\ SameCopies(Closed(ch))
    BY DeliveryFacts, ClosedFacts
  <2>2. SameCopies(send')
    BY <1>5, <2>1 DEF TransportError, EmptyResponse
  <2> QED
    BY <1>5, <2>1, <2>2, QuietStep DEF TransportError, EmptyResponse
<1>6. ASSUME NEW ch \in Challenges, Response(ch) PROVE IInv'
  <2> DEFINE d == Delivery(ch, send[ch].copies)
             r == [st |-> "verifying", n |-> call[d[1]].n, session |-> d,
                   mode |-> "OFF", key |-> <<>>, error |-> "none"]
  <2>0. ch[1] \in Calls /\ SameCopies(Closed(ch)) /\ ch = <<ch[1], ch[2]>>
    BY DeliveryFacts, ClosedFacts
  <2>1. CASE SendThrows(ch)
    BY <1>6, <2>1, SendThrowsStep DEF Response
  <2>2. CASE /\ resp[d].answer # "error" /\ Current(ch) /\ send' = Closed(ch) /\ UNCHANGED resp
             /\ call' = Heard(d)
    <3>0. SameCopies(send')
      BY <2>0, <2>2 DEF SameCopies
    <3>1. send[ch].copies \in Copies
      <4>1. send[ch].copies \in 0 .. MaxResends + 1
        BY <1>0 DEF SendRecord
      <4>2. send[ch].copies # 0
        BY <1>6, <4>1 DEF IInv, Fresh, Response
      <4> QED
        BY <4>1, <4>2, BoundsAssumption DEF Copies
    <3>2. d \in Deliveries /\ ChallengeOf(d) = ch /\ d[1] = ch[1]
      BY <3>1, DeliveryFacts DEF Delivery
    <3>3. resp[d].st = "replied" /\ resp[d].answer \in {"accepted", "refused"}
      BY <1>0, <1>6, <2>2, <3>2 DEF Response, IInv, Stages, RespRecord
    <3>4. call' = [call EXCEPT ![d[1]] = r]
      BY <2>2 DEF Heard
    <3>5. ch = <<d[1], call[d[1]].n>> /\ call[d[1]].n \in 0 .. MaxRetries + 1 /\ d[1] \in Calls
      BY <1>0, <2>0, <2>2, <3>2 DEF Current, CallRecord
    <3> HIDE DEF d
    <3>6. r \in CallRecord /\ r.session = d /\ r.n = call[d[1]].n /\ r.st = "verifying" /\ r.error = "none"
      BY <3>2, <3>5 DEF CallRecord, Modes
    <3> HIDE DEF r
    <3>7. /\ call' \in [Calls -> CallRecord] /\ call'[d[1]] = r
          /\ \A b \in Calls : b # d[1] => call'[b] = call[b]
      BY <1>0, <3>4, <3>5, <3>6
    <3>8. Acked(ch[1])'
      <4>1. resp' = resp /\ call'[ch[1]].session = d /\ call'[ch[1]].n = call[ch[1]].n
        BY <2>2, <3>2, <3>6, <3>7
      <4>2. ChallengeOf(d) = <<ch[1], call[ch[1]].n>>
        BY <3>2, <3>5
      <4> QED BY <3>2, <3>3, <4>1, <4>2 DEF Acked
    <3>9. Fresh'
      BY <2>2, <3>0, <3>6, <3>7, FreshKept
    <3>10. UNCHANGED <<options, expired, nonces, sessions, life>> /\ resp' = resp
           /\ send' \in [Challenges -> SendRecord]
      BY <1>6, <2>2, <3>0 DEF Response, SameCopies
    <3>11. /\ \A b \in Calls : call'[b] = call[b] \/ call'[b].st # "established"
           /\ \A b \in Calls : call'[b] = call[b] \/ call'[b].st # "verifying" \/ Acked(b)'
           /\ \A b \in Calls : call'[b] = call[b] \/ call'[b].error # "invalid"
      BY <3>2, <3>6, <3>7, <3>8
    <3> QED
      BY <1>0, <3>7, <3>9, <3>10, <3>11, InitiatorStep
  <2> QED
    BY <1>6, <2>1, <2>2 DEF Response
<1>7. ASSUME NEW c \in Calls, AckUnverified(c) PROVE IInv'
  <2>1. SameCopies(send')
    BY <1>0, <1>7 DEF SameCopies, AckUnverified
  <2> QED
    BY <1>7, <2>1, QuietStep DEF AckUnverified
<1>8. ASSUME NEW c \in Calls, VerifyAck(c) PROVE IInv'
  <2> DEFINE d == call[c].session
  <2>0. SameCopies(send')
    BY <1>0, <1>8 DEF SameCopies, VerifyAck
  <2>1. Acked(c)
    BY <1>8 DEF IInv, Acks, VerifyAck
  <2>2. d \in Deliveries /\ ChallengeOf(d) = <<c, call[c].n>> /\ d[1] = c
    BY <2>1 DEF Acked, ChallengeOf
  <2>3. UNCHANGED <<options, send, expired, resp, nonces, sessions, life>>
    BY <1>8 DEF VerifyAck
  <2>4. CASE resp[d].answer = "refused"
    <3>1. call' = Fails(c, "rejected")
      BY <1>8, <2>4 DEF VerifyAck
    <3> QED
      BY <2>0, <2>3, <3>1, QuietStep
  <2>5. CASE resp[d].answer = "accepted"
    <3>1. sessions[d].st # "none" /\ AckHolds(d)
      BY <2>2, <2>5, AcceptedHolds DEF IInv, Stages
    <3>2. call' = Established(d)
      BY <1>8, <2>5, <3>1 DEF VerifyAck
    <3> HIDE DEF d
    <3>3. /\ call' \in [Calls -> CallRecord] /\ Agreed(c)'
          /\ \A b \in Calls : b # c => call'[b] = call[b]
          /\ call'[c].n = call[c].n
          /\ call'[c].st = "established" /\ call'[c].error = "none"
      BY <2>2, <2>3, <3>1, <3>2, EstablishedAgrees
    <3>4. \A b \in Calls : call'[b].n = call[b].n
      BY <3>3
    <3>5. \A b \in Calls : call'[b].st = "idle" => call'[b] = call[b]
      BY <3>3
    <3>6. Fresh'
      BY <2>0, <2>3, <3>4, <3>5, FreshKept
    <3> QED
      BY <1>0, <2>0, <2>3, <3>3, <3>6, InitiatorStep DEF SameCopies
  <2> QED
    BY <2>1, <2>4, <2>5 DEF Acked
<1> QED
  BY <1>1, <1>2, <1>3, <1>4, <1>5, <1>6, <1>7, <1>8
------------------------------------------------------------------------------
(* Steps of the responder.                                                 *)

\* A respond() ends with a refusal or an exception, and nothing is stored.
LEMMA AnsweredStep ==
    ASSUME IInv, NEW d \in Deliveries, NEW a \in {"refused", "error"},
           resp[d].st \in {"sent", "validating", "creating"},
           resp' = Answers(d, a),
           nonces \subseteq nonces', nonces' \subseteq Challenges, expired' \subseteq Challenges,
           UNCHANGED <<options, call, send, sessions, life>>
    PROVE  IInv'
<1> DEFINE r == [st |-> "replied", token |-> resp[d].token,
                 fingerprint |-> resp[d].fingerprint, mode |-> resp[d].mode, answer |-> a]
<1>0. resp \in [Deliveries -> RespRecord] /\ sessions[d].st = "none"
  BY DEF IInv, TypeOK, Stages
<1>1. r \in RespRecord
  <2>1. resp[d] \in RespRecord
    BY <1>0
  <2> QED
    BY <2>1 DEF RespRecord
<1>2. /\ resp'[d] = r /\ resp' \in [Deliveries -> RespRecord]
      /\ \A e \in Deliveries : e # d => resp'[e] = resp[e]
  BY <1>0, <1>1 DEF Answers
<1>3. TypeOK'
  BY <1>2 DEF IInv, TypeOK, options
<1>4. Fresh'
  <2>1. resp[d] # NoResp
    BY DEF NoResp
  <2>2. d[3] > send[ChallengeOf(d)].copies => FALSE
    BY <2>1 DEF IInv, Fresh
  <2> QED
    BY <1>2, <2>2 DEF IInv, Fresh
<1>5. Stages'
  <2> SUFFICES ASSUME NEW e \in Deliveries
               PROVE  /\ resp'[e].st = "creating" => Authorized(e)'
                      /\ resp'[e].st = "replied" => resp'[e].answer # "none"
                      /\ resp'[e].answer = "accepted" => sessions'[e].st # "none"
                      /\ sessions'[e].st # "none" =>
                            resp'[e].st = "replied" /\ Authorized(e)' /\ sessions'[e].mode = resp'[e].mode
    BY DEF Stages
  <2>1. CASE e = d
    BY <1>0, <1>2, <2>1
  <2>2. CASE e # d
    BY <1>2, <2>2 DEF IInv, Stages, Authorized, options, InitiatorOf
  <2> QED
    BY <2>1, <2>2
<1>6. \A e \in Deliveries : Admitted(e)' => Admitted(e)
  BY <1>0, <1>2 DEF Admitted
<1>7. Claims'
  BY <1>6 DEF IInv, Claims
<1>8. Agreement'
  <2> SUFFICES ASSUME NEW c \in Calls, call[c].st = "established"
               PROVE  Agreed(c)'
    BY DEF Agreement
  <2>1. Agreed(c)
    BY DEF IInv, Agreement
  <2>2. call[c].session # d
    BY <1>0, <2>1 DEF Agreed
  <2> QED
    BY <1>2, <2>1, <2>2 DEF Agreed
<1>9. NoSplit' /\ OneSessionPerChallenge'
  BY DEF IInv, NoSplit, OneSessionPerChallenge
<1>10. Acks'
  BY <1>2 DEF IInv, Acks, Acked
<1> QED
  BY <1>3, <1>4, <1>5, <1>7, <1>8, <1>9, <1>10 DEF IInv

\* A respond() goes on: its record changes to r, and it has stored nothing.
LEMMA GoesOnStep ==
    ASSUME IInv, NEW d \in Deliveries, NEW r \in RespRecord,
           resp[d].st \in {"sent", "validating"}, r.st \in {"validating", "creating"},
           resp' = [resp EXCEPT ![d] = r], r.answer # "accepted",
           r.st = "creating" => Authorized(d)',
           nonces \subseteq nonces', nonces' \subseteq Challenges, ChallengeOf(d) \in nonces',
           resp[d].st = "sent" => ChallengeOf(d) \notin nonces,
           UNCHANGED <<options, call, send, expired, sessions, life>>
    PROVE  IInv'
<1>0. resp \in [Deliveries -> RespRecord] /\ sessions[d].st = "none"
  BY DEF IInv, TypeOK, Stages
<1>2. /\ resp'[d] = r /\ resp' \in [Deliveries -> RespRecord]
      /\ \A e \in Deliveries : e # d => resp'[e] = resp[e]
  BY <1>0
<1>3. TypeOK'
  BY <1>2 DEF IInv, TypeOK, options
<1>4. Fresh'
  <2>1. resp[d] # NoResp
    BY DEF NoResp
  <2>2. d[3] > send[ChallengeOf(d)].copies => FALSE
    BY <2>1 DEF IInv, Fresh
  <2> QED
    BY <1>2, <2>2 DEF IInv, Fresh
<1>5. Stages'
  <2> SUFFICES ASSUME NEW e \in Deliveries
               PROVE  /\ resp'[e].st = "creating" => Authorized(e)'
                      /\ resp'[e].st = "replied" => resp'[e].answer # "none"
                      /\ resp'[e].answer = "accepted" => sessions'[e].st # "none"
                      /\ sessions'[e].st # "none" =>
                            resp'[e].st = "replied" /\ Authorized(e)' /\ sessions'[e].mode = resp'[e].mode
    BY DEF Stages
  <2>1. CASE e = d
    BY <1>0, <1>2, <2>1
  <2>2. CASE e # d
    BY <1>2, <2>2 DEF IInv, Stages, Authorized, options, InitiatorOf
  <2> QED
    BY <2>1, <2>2
<1>6. \A e \in Deliveries : e # d => (Admitted(e)' => Admitted(e))
  BY <1>2 DEF Admitted
<1>7. \A e \in Deliveries : Admitted(e) /\ ChallengeOf(e) = ChallengeOf(d) => e = d
  <2>1. CASE resp[d].st = "sent"
    BY <2>1 DEF IInv, Claims
  <2>2. CASE resp[d].st = "validating"
    BY <2>2 DEF IInv, Claims, Admitted
  <2> QED
    BY <2>1, <2>2
<1>8. Claims'
  <2>1. \A e \in Deliveries : Admitted(e)' => ChallengeOf(e) \in nonces'
    BY <1>6 DEF IInv, Claims
  <2>2. \A e, x \in Deliveries :
           Admitted(e)' /\ Admitted(x)' /\ ChallengeOf(e) = ChallengeOf(x) => e = x
    BY <1>6, <1>7 DEF IInv, Claims
  <2> QED
    BY <2>1, <2>2 DEF IInv, Claims
<1>9. Agreement'
  <2> SUFFICES ASSUME NEW c \in Calls, call[c].st = "established"
               PROVE  Agreed(c)'
    BY DEF Agreement
  <2>1. Agreed(c)
    BY DEF IInv, Agreement
  <2>2. call[c].session # d
    BY <1>0, <2>1 DEF Agreed
  <2> QED
    BY <1>2, <2>1, <2>2 DEF Agreed
<1>10. NoSplit' /\ OneSessionPerChallenge'
  BY DEF IInv, NoSplit, OneSessionPerChallenge
<1>11. Acks'
  BY <1>2 DEF IInv, Acks, Acked
<1> QED
  BY <1>3, <1>4, <1>5, <1>8, <1>9, <1>10, <1>11 DEF IInv

\* The row is committed, whatever respond() then hears and answers.
LEMMA StoredStep ==
    ASSUME IInv, NEW d \in Deliveries, NEW a \in {"accepted", "refused"},
           resp[d].st = "creating",
           resp' = Answers(d, a), sessions' = Persisted(d),
           UNCHANGED <<options, call, send, expired, nonces, life>>
    PROVE  IInv'
<1> DEFINE r == [st |-> "replied", token |-> resp[d].token,
                 fingerprint |-> resp[d].fingerprint, mode |-> resp[d].mode, answer |-> a]
           s == [st |-> "live", mode |-> resp[d].mode, life |-> life]
<1>0. /\ resp \in [Deliveries -> RespRecord] /\ sessions \in [Deliveries -> SessionRecord]
      /\ life \in 0 .. MaxRestarts /\ sessions[d].st = "none" /\ Authorized(d)
  BY DEF IInv, TypeOK, Stages
<1>1. r \in RespRecord /\ s \in SessionRecord
  <2>1. resp[d] \in RespRecord
    BY <1>0
  <2>2. r \in RespRecord
    BY <2>1 DEF RespRecord
  <2>3. s \in SessionRecord
    BY <1>0, <2>1 DEF RespRecord, SessionRecord
  <2> QED
    BY <2>2, <2>3
<1>2. /\ resp'[d] = r /\ resp' \in [Deliveries -> RespRecord]
      /\ sessions'[d] = s /\ sessions' \in [Deliveries -> SessionRecord]
      /\ \A e \in Deliveries : e # d => resp'[e] = resp[e] /\ sessions'[e] = sessions[e]
  BY <1>0, <1>1 DEF Answers, Persisted
<1>3. TypeOK'
  BY <1>2 DEF IInv, TypeOK, options
<1>4. Fresh'
  <2>1. resp[d] # NoResp
    BY DEF NoResp
  <2>2. d[3] > send[ChallengeOf(d)].copies => FALSE
    BY <2>1 DEF IInv, Fresh
  <2> QED
    BY <1>2, <2>2 DEF IInv, Fresh
<1>5. Stages'
  <2> SUFFICES ASSUME NEW e \in Deliveries
               PROVE  /\ resp'[e].st = "creating" => Authorized(e)'
                      /\ resp'[e].st = "replied" => resp'[e].answer # "none"
                      /\ resp'[e].answer = "accepted" => sessions'[e].st # "none"
                      /\ sessions'[e].st # "none" =>
                            resp'[e].st = "replied" /\ Authorized(e)' /\ sessions'[e].mode = resp'[e].mode
    BY DEF Stages
  <2>1. CASE e = d
    <3>1. Authorized(d)'
      BY <1>0, <1>2 DEF Authorized, options, InitiatorOf
    <3> QED
      BY <1>2, <2>1, <3>1
  <2>2. CASE e # d
    BY <1>2, <2>2 DEF IInv, Stages, Authorized, options, InitiatorOf
  <2> QED
    BY <2>1, <2>2
<1>6. Admitted(d) /\ \A e \in Deliveries : Admitted(e)' => Admitted(e)
  BY <1>2 DEF Admitted
<1>7. Claims'
  <2>1. \A e \in Deliveries : sessions'[e].st # "none" => sessions'[e].life <= life'
    BY <1>0, <1>2 DEF IInv, Claims
  <2> QED
    BY <1>6, <2>1 DEF IInv, Claims
<1>8. Agreement'
  <2> SUFFICES ASSUME NEW c \in Calls, call[c].st = "established"
               PROVE  Agreed(c)'
    BY DEF Agreement
  <2>1. Agreed(c)
    BY DEF IInv, Agreement
  <2>2. call[c].session # d
    BY <1>0, <2>1 DEF Agreed
  <2> QED
    BY <1>2, <2>1, <2>2 DEF Agreed
<1>9. OneSessionPerChallenge'
  <2>1. \A e \in Deliveries :
           sessions[e].st # "none" /\ sessions[e].life = life /\ ChallengeOf(e) = ChallengeOf(d)
           => e = d
    BY <1>6 DEF IInv, Claims, Admitted
  <2> QED
    BY <1>2, <2>1 DEF IInv, OneSessionPerChallenge
<1>10. NoSplit' /\ Acks'
  BY <1>2 DEF IInv, NoSplit, Acks, Acked
<1> QED
  BY <1>3, <1>4, <1>5, <1>7, <1>8, <1>9, <1>10 DEF IInv

\* The end of a session leaves what was agreed.
LEMMA SessionClosesStep ==
    ASSUME IInv, NEW d \in Deliveries, SessionCloses(d)
    PROVE  IInv'
<1>0. sessions \in [Deliveries -> SessionRecord] /\ sessions[d] \in SessionRecord
  BY DEF IInv, TypeOK
<1>1. /\ sessions' \in [Deliveries -> SessionRecord]
      /\ \A e \in Deliveries : /\ sessions'[e].mode = sessions[e].mode
                               /\ sessions'[e].life = sessions[e].life
                               /\ sessions'[e].st # "none" <=> sessions[e].st # "none"
  BY <1>0 DEF SessionCloses, SessionRecord
<1>2. TypeOK' /\ Fresh' /\ Acks' /\ NoSplit'
  BY <1>1 DEF IInv, TypeOK, Fresh, Acks, Acked, NoSplit, SessionCloses, options
<1>3. Stages'
  BY <1>1 DEF IInv, Stages, Authorized, SessionCloses, options, InitiatorOf
<1>4. Claims' /\ OneSessionPerChallenge'
  <2>1. \A e \in Deliveries : Admitted(e)' <=> Admitted(e)
    BY <1>1 DEF Admitted, SessionCloses
  <2> QED
    BY <1>1, <2>1 DEF IInv, Claims, OneSessionPerChallenge, SessionCloses
<1>5. Agreement'
  BY <1>1 DEF IInv, Agreement, Agreed, SessionCloses
<1> QED
  BY <1>2, <1>3, <1>4, <1>5 DEF IInv

\* A restart drops the calls in progress together with the nonces.
LEMMA RestartStep ==
    ASSUME IInv, Restart
    PROVE  IInv'
<1>0. resp \in [Deliveries -> RespRecord] /\ life \in 0 .. MaxRestarts
  BY DEF IInv, TypeOK
<1>1. /\ resp' \in [Deliveries -> RespRecord]
      /\ \A d \in Deliveries :
            \/ resp'[d] = resp[d] /\ resp[d].st \notin {"validating", "creating"}
            \/ /\ resp[d].st \in {"validating", "creating"}
               /\ resp'[d].st = "gone" /\ resp'[d].answer = resp[d].answer
  <2>1. ASSUME NEW d \in Deliveries
        PROVE  /\ [resp[d] EXCEPT !.st = "gone"] \in RespRecord
               /\ [resp[d] EXCEPT !.st = "gone"].st = "gone"
               /\ [resp[d] EXCEPT !.st = "gone"].answer = resp[d].answer
    BY <1>0 DEF RespRecord
  <2> QED
    BY <1>0, <2>1 DEF Restart
<1>2. life' \in 0 .. MaxRestarts /\ life' > life
  BY <1>0, BoundsAssumption DEF Restart
<1>3. TypeOK'
  BY <1>1, <1>2 DEF IInv, TypeOK, Restart, options
<1>4. Fresh' /\ NoSplit' /\ OneSessionPerChallenge'
  <2>1. \A d \in Deliveries : resp[d] = NoResp => resp'[d] = NoResp
    BY <1>1 DEF NoResp
  <2>2. Fresh'
    BY <2>1 DEF IInv, Fresh, Restart
  <2> QED
    BY <2>2 DEF IInv, NoSplit, OneSessionPerChallenge, Restart
<1>5. Stages'
  BY <1>1 DEF IInv, Stages, Authorized, Restart, options, InitiatorOf
<1>6. \A d \in Deliveries : ~ Admitted(d)'
  <2> SUFFICES ASSUME NEW d \in Deliveries PROVE ~ Admitted(d)'
    OBVIOUS
  <2>1. resp'[d].st \notin {"validating", "creating"}
    BY <1>1
  <2>2. sessions[d].st # "none" => sessions[d].life # life'
    <3>1. sessions[d].life \in 0 .. MaxRestarts
      BY DEF IInv, TypeOK, SessionRecord
    <3> QED
      BY <1>0, <1>2, <3>1 DEF IInv, Claims
  <2> QED
    BY <2>1, <2>2 DEF Admitted, Restart
<1>7. Claims'
  <2>1. ASSUME NEW d \in Deliveries, sessions'[d].st # "none"
        PROVE  sessions'[d].life <= life'
    <3>1. sessions[d].life \in 0 .. MaxRestarts
      BY DEF IInv, TypeOK, SessionRecord
    <3> QED
      BY <1>0, <1>2, <2>1, <3>1 DEF IInv, Claims, Restart
  <2> QED
    BY <1>6, <2>1 DEF Claims
<1>8. Agreement'
  <2> SUFFICES ASSUME NEW c \in Calls, call[c].st = "established"
               PROVE  Agreed(c)'
    BY DEF Agreement, Restart
  <2>1. Agreed(c)
    BY DEF IInv, Agreement
  <2>2. resp'[call[c].session] = resp[call[c].session]
    BY <1>1, <2>1 DEF IInv, Stages, Agreed
  <2> QED
    BY <2>1, <2>2 DEF Agreed, Restart
<1>9. Acks'
  <2> SUFFICES ASSUME NEW c \in Calls, call[c].st = "verifying"
               PROVE  Acked(c)'
    BY DEF Acks, Restart
  <2>1. Acked(c)
    BY DEF IInv, Acks
  <2>2. resp'[call[c].session] = resp[call[c].session]
    BY <1>1, <2>1 DEF Acked
  <2> QED
    BY <2>1, <2>2 DEF Acked, Restart
<1> QED
  BY <1>3, <1>4, <1>5, <1>7, <1>8, <1>9 DEF IInv

\* Every step of the responder, and the end of a session.
LEMMA ResponderInv ==
    ASSUME IInv, NEW d \in Deliveries,
           \/ ChallengeExpired(d) \/ NotAuthorized(d) \/ ClaimNonce(d) \/ NotValidated(d)
           \/ CreateSession(d) \/ CreateFails(d) \/ CreateUnheard(d)
           \/ RespondThrows(d) \/ SessionCloses(d)
           \/ \E t \in {Token, OtherToken, NoToken}, f \in BOOLEAN : Validate(d, t, f)
    PROVE  IInv'
<1>0. /\ resp \in [Deliveries -> RespRecord] /\ resp[d] \in RespRecord
      /\ nonces \subseteq Challenges /\ expired \subseteq Challenges
      /\ ChallengeOf(d) \in Challenges /\ token[d[1]] \in {Token, NoToken}
      /\ server.pref \in Prefs
  BY DeliveryFacts, ServerFacts DEF IInv, TypeOK
<1>1. CASE ChallengeExpired(d)
  BY <1>0, <1>1, AnsweredStep DEF ChallengeExpired
<1>2. CASE NotAuthorized(d)
  BY <1>0, <1>2, AnsweredStep DEF NotAuthorized
<1>3. CASE ClaimNonce(d)
  <2>1. CASE ChallengeOf(d) \in nonces
    BY <1>0, <1>3, <2>1, AnsweredStep DEF ClaimNonce
  <2>2. CASE ChallengeOf(d) \notin nonces
    <3> DEFINE r == [resp[d] EXCEPT !.st = "validating"]
    <3>1. r \in RespRecord /\ r.st = "validating" /\ r.answer = resp[d].answer
      BY <1>0 DEF RespRecord
    <3>2. resp' = [resp EXCEPT ![d] = r]
      BY <1>3, <2>2 DEF ClaimNonce
    <3>3. r.answer # "accepted"
      BY <1>3, <3>1 DEF ClaimNonce, IInv, Stages
    <3>4. nonces \subseteq nonces' /\ nonces' \subseteq Challenges /\ ChallengeOf(d) \in nonces'
      BY <1>0, <1>3 DEF ClaimNonce
    <3>5. resp[d].st = "sent" /\ UNCHANGED <<options, call, send, expired, sessions, life>>
      BY <1>3 DEF ClaimNonce
    <3> HIDE DEF r
    <3> QED
      BY <2>2, <3>1, <3>2, <3>3, <3>4, <3>5, GoesOnStep
  <2> QED
    BY <2>1, <2>2
<1>4. CASE NotValidated(d)
  BY <1>0, <1>4, AnsweredStep DEF NotValidated
<1>5. CASE CreateSession(d)
  BY <1>5, StoredStep DEF CreateSession
<1>6. CASE CreateFails(d)
  BY <1>0, <1>6, AnsweredStep DEF CreateFails
<1>7. CASE CreateUnheard(d)
  BY <1>7, StoredStep DEF CreateUnheard
<1>8. CASE RespondThrows(d)
  BY <1>0, <1>8, AnsweredStep DEF RespondThrows
<1>9. CASE SessionCloses(d)
  BY <1>9, SessionClosesStep
<1>10. ASSUME NEW t \in {Token, OtherToken, NoToken}, NEW f \in BOOLEAN, Validate(d, t, f)
       PROVE  IInv'
  <2> DEFINE ip == pref[InitiatorOf(d)]
             mode == Negotiated(ip, server.pref)
             r == [st |-> "creating", token |-> t, fingerprint |-> f /\ mode = "REQUIRED",
                   mode |-> mode, answer |-> "none"]
  <2>0. resp[d].st = "validating" /\ UNCHANGED <<options, call, send, expired, nonces, sessions, life>>
    BY <1>10 DEF Validate
  <2>1. CASE resp' = Answers(d, "refused") \/ resp' = Answers(d, "error")
    BY <1>0, <2>0, <2>1, AnsweredStep
  <2>2. CASE /\ t = token[d[1]] /\ resp' = [resp EXCEPT ![d] = r]
             /\ ~ Incompatible(ip, server.pref) /\ ~ Unauthorized(mode, t, f)
    <3>1. r \in RespRecord
      <4>1. mode \in Modes
        BY DEF Negotiated, Modes
      <4>2. (f /\ mode = "REQUIRED") \in BOOLEAN
        OBVIOUS
      <4> HIDE DEF mode
      <4> QED
        BY <1>0, <2>2, <4>1, <4>2 DEF RespRecord
    <3>2. Authorized(d)'
      <4>1. resp'[d] = r
        BY <1>0, <2>2
      <4>2. f => server.validates
        BY <1>10 DEF Validate
      <4>3. ~ Unauthorized(mode, t, f /\ mode = "REQUIRED")
        BY <2>2 DEF Unauthorized
      <4> HIDE DEF mode
      <4>4. /\ resp'[d].token = t /\ resp'[d].mode = mode
            /\ resp'[d].fingerprint = (f /\ mode = "REQUIRED")
        BY <4>1
      <4>5. pref' = pref /\ server' = server /\ token' = token
        BY <2>0 DEF options
      <4> QED
        BY <2>2, <4>2, <4>3, <4>4, <4>5 DEF Authorized, InitiatorOf, mode
    <3>3. ChallengeOf(d) \in nonces
      BY <2>0 DEF IInv, Claims, Admitted
    <3>4. r.st = "creating" /\ r.answer = "none"
      OBVIOUS
    <3> HIDE DEF r
    <3> QED
      BY <1>0, <2>0, <2>2, <3>1, <3>2, <3>3, <3>4, GoesOnStep
  <2> QED
    BY <1>10, <2>1, <2>2 DEF Validate
<1> QED
  BY <1>1, <1>2, <1>3, <1>4, <1>5, <1>6, <1>7, <1>8, <1>9, <1>10

------------------------------------------------------------------------------
(* The theorems.                                                           *)

\* Every step preserves the invariant.
LEMMA StepInv == IInv /\ [Next]_vars => IInv'
<1> SUFFICES ASSUME IInv, [Next]_vars PROVE IInv'
  OBVIOUS
<1>1. CASE UNCHANGED vars
  <2>1. \A d \in Deliveries : (Admitted(d)' <=> Admitted(d)) /\ (Authorized(d)' <=> Authorized(d))
    BY <1>1 DEF vars, Admitted, Authorized, InitiatorOf
  <2>2. TypeOK' /\ Fresh' /\ NoSplit' /\ OneSessionPerChallenge'
    BY <1>1 DEF vars, IInv, TypeOK, Fresh, NoSplit, OneSessionPerChallenge
  <2>3. Stages' /\ Claims'
    BY <1>1, <2>1 DEF vars, IInv, Stages, Claims
  <2>4. Agreement' /\ Acks'
    BY <1>1 DEF vars, IInv, Agreement, Agreed, Acks, Acked
  <2> QED
    BY <2>2, <2>3, <2>4 DEF IInv
<1>2. CASE Next
  BY <1>2, InitiatorInv, ResponderInv, RestartStep DEF Next
<1> QED
  BY <1>1, <1>2

\* The invariant holds throughout.
THEOREM Invariance == Spec => []IInv
  BY InitInv, StepInv, PTL DEF Spec

\* Every variable keeps its type; no more copies of an INIT are sent than the
\* transport's maxRetries allow.
THEOREM TypeCorrect == Spec => []TypeOK
<1>1. IInv => TypeOK
  BY DEF IInv
<1> QED
  BY <1>1, Invariance, PTL

\* A session that initiate() returns is stored by the responder with the same mode and
\* derived from the same transcript.
THEOREM BothSidesAgree == Spec => []Agreement
<1>1. IInv => Agreement
  BY DEF IInv
<1> QED
  BY <1>1, Invariance, PTL

\* The initiator never turns an acceptance down.
THEOREM NoAcceptanceRefused == Spec => []NoSplit
<1>1. IInv => NoSplit
  BY DEF IInv
<1> QED
  BY <1>1, Invariance, PTL

\* A challenge opens one session in the life of a responder process, however often its
\* INIT is sent.
THEOREM ReplayProtected == Spec => []OneSessionPerChallenge
<1>1. IInv => OneSessionPerChallenge
  BY DEF IInv
<1> QED
  BY <1>1, Invariance, PTL

\* The compatibility matrix holds of every stored session.
THEOREM MatrixHolds == Spec => []EncryptedWhenRequired
<1>1. IInv => EncryptedWhenRequired
  <2> SUFFICES ASSUME IInv, NEW d \in Deliveries, sessions[d].st # "none"
               PROVE  LET prefs == {pref[InitiatorOf(d)], server.pref} IN
                      /\ prefs # {"OFF", "REQUIRED"}
                      /\ sessions[d].mode = "REQUIRED" <=> "REQUIRED" \in prefs
                      /\ sessions[d].mode = "REQUIRED" =>
                            /\ server.validates
                            /\ resp[d].fingerprint
                            /\ resp[d].token = token[d[1]] /\ token[d[1]] # NoToken
    BY DEF EncryptedWhenRequired
  <2>1. Authorized(d) /\ sessions[d].mode = resp[d].mode
    BY DEF IInv, Stages
  <2> QED
    BY <2>1 DEF Authorized, Negotiated, Incompatible, Unauthorized
<1> QED
  BY <1>1, Invariance, PTL

(* No session is stored that its initiator refuses or that breaks the      *)
(* matrix.                                                                 *)
THEOREM AcceptancesMatch == Spec => []AcceptedTogether
<1>1. TypeOK /\ NoSplit /\ EncryptedWhenRequired => AcceptedTogether
  BY DEF AcceptedTogether
<1> QED
  BY <1>1, TypeCorrect, NoAcceptanceRefused, MatrixHolds, PTL

-----------------------------------------------------------------------------
(* WebSocketTransport: whole envelopes on sockets that break.              *)

WsRequestState == [pc : {"idle", "connecting", "open", "done"},
                   outcome : {"none", "answer", "null", "timeout", "error"}]
WsPlace == {"none", "delay", "loading", "connecting", "connected", "failed", "closing", "ended"}
WsPersistent == [pc : WsPlace,
                 stopped : BOOLEAN, failures : 0..MaxAttempts, opened : 0..MaxConnections]

WsTyped ==
    /\ listening \in BOOLEAN
    /\ request \in [WsRequests -> WsRequestState]
    /\ socket \in [WsRequests -> {"none", "open", "closed"}]
    /\ cut \subseteq WsRequests /\ handling \subseteq WsRequests
    /\ replied \subseteq WsRequests /\ pinged \subseteq WsRequests
    /\ up \in [WsRequests -> Seq(1..WsFrames)] /\ down \in [WsRequests -> Seq(1..WsFrames)]
    /\ got \in [WsRequests -> SUBSET (1..WsFrames)] /\ back \in [WsRequests -> SUBSET (1..WsFrames)]
    /\ missed \in [WsRequests -> 0..MaxMissed]

\* Frames under way are the last ones of their message, and what was received are the others.
Rest(frames, received) ==
    frames # << >> =>
        /\ Len(frames) <= WsFrames
        /\ \A i \in 1..Len(frames) : frames[i] = WsFrames - Len(frames) + i
        /\ received = 1..(WsFrames - Len(frames))

\* One request: nothing was sent before its socket opened, the handler has it once and only when
\* all of it came, and what comes back is the rest of the handler's reply.
WsTold(r) ==
    /\ request[r].pc # "done" => request[r].outcome = "none"
    /\ request[r].pc \in {"idle", "connecting"} =>
          up[r] = << >> /\ got[r] = {} /\ r \notin handling /\ r \notin replied
    /\ Rest(up[r], got[r]) /\ Rest(down[r], back[r])
    /\ r \in handling \cup replied => up[r] = << >>
    /\ r \in handling => r \notin replied
    /\ down[r] # << >> \/ back[r] # {} => r \in replied
    /\ request[r].outcome = "answer" => r \in replied /\ down[r] = << >>
    /\ got[r] # {} => socket[r] = "open"

\* The persistent connection makes an attempt only as long as it has one left.
WsPersists ==
    /\ persistent \in WsPersistent
    /\ persistent.pc \in {"loading", "connecting"} => persistent.failures < MaxAttempts

WsInv == WsTyped /\ WsPersists /\ \A r \in WsRequests : WsTold(r)

\* A step leaves a request alone.
WsSame(t) ==
    /\ request'[t] = request[t] /\ socket'[t] = socket[t]
    /\ up'[t] = up[t] /\ down'[t] = down[t] /\ got'[t] = got[t] /\ back'[t] = back[t]
    /\ t \in handling' <=> t \in handling
    /\ t \in replied' <=> t \in replied

LEMMA WsSameTold ==
    ASSUME NEW t \in WsRequests, WsTold(t), WsSame(t)
    PROVE  WsTold(t)'
BY DEF WsTold, WsSame, Rest

\* The first of the remaining frames completes the message exactly if it is the last.
LEMMA NextFrame ==
    ASSUME NEW frames \in Seq(1..WsFrames), NEW received, frames # << >>, Rest(frames, received)
    PROVE  /\ Tail(frames) \in Seq(1..WsFrames)
           /\ received \cup {Head(frames)} \in SUBSET (1..WsFrames)
           /\ Complete(received \cup {Head(frames)}) <=> Tail(frames) = << >>
           /\ Rest(Tail(frames), received \cup {Head(frames)})
<1>1. PICK n \in Nat : n = Len(frames) /\ n >= 1 /\ n <= WsFrames
  BY WsAssumption DEF Rest
<1>2. Head(frames) = WsFrames - n + 1 /\ received = 1..(WsFrames - n)
  BY <1>1, WsAssumption DEF Rest
<1>3. received \cup {Head(frames)} = 1..(WsFrames - n + 1)
  BY <1>1, <1>2, WsAssumption
<1>4. Cardinality(1..(WsFrames - n + 1)) = WsFrames - n + 1
  BY <1>1, FS_Interval, WsAssumption
<1>5. Tail(frames) \in Seq(1..WsFrames) /\ Len(Tail(frames)) = n - 1
  BY <1>1
<1>6. Tail(frames) = << >> <=> n = 1
  <2>1. PICK t \in Seq(1..WsFrames) : t = Tail(frames) /\ Len(t) = n - 1
    BY <1>5
  <2>2. t = << >> <=> Len(t) = 0
    OBVIOUS
  <2>3. Len(t) = 0 <=> n = 1
    BY <1>1, <2>1
  <2> QED BY <2>1, <2>2, <2>3
<1>7. Complete(received \cup {Head(frames)}) <=> n = 1
  <2>1. Complete(received \cup {Head(frames)}) <=> Cardinality(1..(WsFrames - n + 1)) = WsFrames
    BY <1>3 DEF Complete
  <2>2. WsFrames - n + 1 = WsFrames <=> n = 1
    BY <1>1, WsAssumption
  <2> QED BY <1>4, <2>1, <2>2
<1>8. Rest(Tail(frames), received \cup {Head(frames)})
  <2> SUFFICES ASSUME Tail(frames) # << >>
               PROVE  /\ n - 1 <= WsFrames
                      /\ \A i \in 1..(n - 1) : Tail(frames)[i] = WsFrames - (n - 1) + i
                      /\ 1..(WsFrames - n + 1) = 1..(WsFrames - (n - 1))
    BY <1>3, <1>5 DEF Rest
  <2>1. \A i \in 1..(n - 1) : Tail(frames)[i] = frames[i + 1]
    BY <1>1
  <2>2. \A i \in 1..n : frames[i] = WsFrames - n + i
    BY <1>1 DEF Rest
  <2> QED BY <1>1, <2>1, <2>2, WsAssumption
<1> QED BY <1>1, <1>3, <1>5, <1>6, <1>7, <1>8, WsAssumption

\* A whole message.
LEMMA WholeMessage == /\ SplitIntoFrames \in Seq(1..WsFrames) /\ Rest(SplitIntoFrames, {})
<1>1. SplitIntoFrames \in Seq(1..WsFrames) /\ Len(SplitIntoFrames) = WsFrames
  BY WsAssumption DEF SplitIntoFrames
<1>2. \A i \in 1..WsFrames : SplitIntoFrames[i] = i
  BY DEF SplitIntoFrames
<1> QED BY <1>1, <1>2, WsAssumption DEF Rest

LEMMA EmptyMessage == << >> \in Seq(1..WsFrames) /\ \A received : Rest(<< >>, received)
BY DEF Rest

\* A step of one request, and of nothing else.
LEMMA OneRequest ==
    ASSUME WsInv, WsTyped', UNCHANGED persistent, NEW r \in WsRequests, WsTold(r)',
           \A t \in WsRequests \ {r} : WsSame(t)
    PROVE  WsInv'
<1>1. \A t \in WsRequests \ {r} : WsTold(t)'
  BY WsSameTold DEF WsInv
<1>2. WsPersists'
  BY DEF WsInv, WsPersists
<1> QED BY <1>1, <1>2 DEF WsInv

LEMMA WsState ==
    ASSUME WsTyped, NEW r \in WsRequests
    PROVE  /\ request[r] \in WsRequestState
           /\ request[r].pc \in {"idle", "connecting", "open", "done"}
           /\ \A pc \in {"connecting", "open"} :
                 /\ [request[r] EXCEPT !.pc = pc] \in WsRequestState
                 /\ [request[r] EXCEPT !.pc = pc].pc = pc
                 /\ [request[r] EXCEPT !.pc = pc].outcome = request[r].outcome
           /\ \A o \in {"none", "answer", "null", "timeout", "error"} :
                 [pc |-> "done", outcome |-> o] \in WsRequestState
<1>1. PICK q \in WsRequestState : q = request[r]
  BY DEF WsTyped
<1> QED BY <1>1 DEF WsRequestState

-----------------------------------------------------------------------------
LEMMA StartSendInv == ASSUME WsInv, NEW r \in WsRequests, StartSend(r) PROVE WsInv'
<1> DEFINE q == [request[r] EXCEPT !.pc = "connecting"]
<1>1. request[r].pc = "idle" /\ request' = [request EXCEPT ![r] = q]
      /\ UNCHANGED <<listening, back, serverVars, wireVars, persistent>>
  BY DEF StartSend
<1>2. q \in WsRequestState /\ q.pc = "connecting" /\ q.outcome = request[r].outcome
  BY WsState DEF WsInv
<1> HIDE DEF q
<1>3. WsTyped'
  BY <1>1, <1>2 DEF WsInv, WsTyped, serverVars, wireVars
<1>4. request'[r] = q /\ \A t \in WsRequests \ {r} : request'[t] = request[t]
  BY <1>1 DEF WsInv, WsTyped
<1>5. \A t \in WsRequests \ {r} : WsSame(t)
  BY <1>1, <1>4 DEF WsSame, serverVars, wireVars
<1>6. WsTold(r)'
  BY <1>1, <1>2, <1>4 DEF WsInv, WsTold, serverVars, wireVars, Rest
<1> QED BY <1>1, <1>3, <1>5, <1>6, OneRequest

LEMMA ConnectInv == ASSUME WsInv, NEW r \in WsRequests, Connect(r) PROVE WsInv'
<1> DEFINE q == [request[r] EXCEPT !.pc = "open"]
<1>1. /\ request[r].pc = "connecting" /\ request' = [request EXCEPT ![r] = q]
      /\ socket' = [socket EXCEPT ![r] = "open"] /\ up' = [up EXCEPT ![r] = SplitIntoFrames]
      /\ UNCHANGED <<listening, back, got, handling, replied, missed, pinged, cut, down, persistent>>
  BY DEF Connect
<1>2. q \in WsRequestState /\ q.pc = "open" /\ q.outcome = request[r].outcome
  BY WsState DEF WsInv
<1> HIDE DEF q
<1>3. WsTyped'
  BY <1>1, <1>2, WholeMessage DEF WsInv, WsTyped
<1>4. /\ request'[r] = q /\ socket'[r] = "open" /\ up'[r] = SplitIntoFrames
      /\ \A t \in WsRequests \ {r} : request'[t] = request[t] /\ socket'[t] = socket[t] /\ up'[t] = up[t]
  BY <1>1 DEF WsInv, WsTyped
<1>5. \A t \in WsRequests \ {r} : WsSame(t)
  BY <1>1, <1>4 DEF WsSame
<1>6. got[r] = {}
  BY <1>1 DEF WsInv, WsTold
<1>7. WsTold(r)'
  BY <1>1, <1>2, <1>4, <1>6, WholeMessage DEF WsInv, WsTold
<1> QED BY <1>1, <1>3, <1>5, <1>7, OneRequest

\* A send settles without an answer.
LEMMA SettleInv ==
    ASSUME WsInv, NEW r \in WsRequests, NEW o \in {"null", "timeout", "error"}, Settle(r, o),
           UNCHANGED <<listening, back, serverVars, wireVars, persistent>>
    PROVE  WsInv'
<1> DEFINE q == [pc |-> "done", outcome |-> o]
<1>1. request' = [request EXCEPT ![r] = q] /\ UNCHANGED <<listening, back, serverVars, wireVars, persistent>>
  BY DEF Settle
<1>2. q \in WsRequestState /\ q.pc = "done" /\ q.outcome # "answer"
  BY WsState DEF WsInv
<1> HIDE DEF q
<1>3. WsTyped'
  BY <1>1, <1>2 DEF WsInv, WsTyped, serverVars, wireVars
<1>4. request'[r] = q /\ \A t \in WsRequests \ {r} : request'[t] = request[t]
  BY <1>1 DEF WsInv, WsTyped
<1>5. \A t \in WsRequests \ {r} : WsSame(t)
  BY <1>1, <1>4 DEF WsSame, serverVars, wireVars
<1>6. WsTold(r)'
  BY <1>1, <1>2, <1>4 DEF WsInv, WsTold, serverVars, wireVars, Rest
<1> QED BY <1>1, <1>3, <1>5, <1>6, OneRequest

LEMMA ClientReceiveInv == ASSUME WsInv, NEW r \in WsRequests, ClientReceive(r) PROVE WsInv'
<1> DEFINE q == [pc |-> "done", outcome |-> "answer"]
           f == back[r] \cup {Head(down[r])}
<1>1. /\ request[r].pc = "open" /\ down[r] # << >>
      /\ down' = [down EXCEPT ![r] = Tail(down[r])]
      /\ IF Complete(f) THEN back' = [back EXCEPT ![r] = {}] /\ request' = [request EXCEPT ![r] = q]
         ELSE back' = [back EXCEPT ![r] = f] /\ UNCHANGED request
      /\ UNCHANGED <<listening, serverVars, cut, up, persistent>>
  BY DEF ClientReceive, Settle
<1>2. q \in WsRequestState /\ q.pc = "done" /\ q.outcome = "answer"
  BY WsState DEF WsInv
<1> HIDE DEF q
<1>3. /\ Tail(down[r]) \in Seq(1..WsFrames) /\ f \in SUBSET (1..WsFrames)
      /\ Complete(f) <=> Tail(down[r]) = << >>
      /\ Rest(Tail(down[r]), f)
  BY <1>1, NextFrame DEF WsInv, WsTyped, WsTold
<1> HIDE DEF f
<1>4. r \in replied /\ request[r].outcome = "none"
  BY <1>1 DEF WsInv, WsTold
<1>5. CASE Complete(f)
  <2>1. WsTyped'
    BY <1>1, <1>2, <1>3, <1>5 DEF WsInv, WsTyped, serverVars
  <2>2. /\ request'[r] = q /\ back'[r] = {} /\ down'[r] = << >>
        /\ \A t \in WsRequests \ {r} : request'[t] = request[t] /\ back'[t] = back[t] /\ down'[t] = down[t]
    BY <1>1, <1>3, <1>5 DEF WsInv, WsTyped
  <2>3. \A t \in WsRequests \ {r} : WsSame(t)
    BY <1>1, <2>2 DEF WsSame, serverVars
  <2>4. WsTold(r)'
    BY <1>1, <1>2, <1>4, <2>2 DEF WsInv, WsTold, serverVars, Rest
  <2> QED BY <1>1, <2>1, <2>3, <2>4, OneRequest
<1>6. CASE ~Complete(f)
  <2>1. WsTyped'
    BY <1>1, <1>3, <1>6 DEF WsInv, WsTyped, serverVars
  <2>2. /\ request'[r] = request[r] /\ back'[r] = f /\ down'[r] = Tail(down[r])
        /\ \A t \in WsRequests \ {r} : request'[t] = request[t] /\ back'[t] = back[t] /\ down'[t] = down[t]
    BY <1>1, <1>6 DEF WsInv, WsTyped
  <2>3. \A t \in WsRequests \ {r} : WsSame(t)
    BY <1>1, <2>2 DEF WsSame, serverVars
  <2>4. Rest(down'[r], back'[r]) /\ Rest(up'[r], got'[r])
    BY <1>1, <1>3, <2>2 DEF WsInv, WsTold, serverVars
  <2>5. WsTold(r)'
    BY <1>1, <1>4, <2>2, <2>4 DEF WsInv, WsTold, serverVars
  <2> QED BY <1>1, <2>1, <2>3, <2>5, OneRequest
<1> QED BY <1>5, <1>6

LEMMA ServerReceiveInv == ASSUME WsInv, NEW r \in WsRequests, ServerReceive(r) PROVE WsInv'
<1> DEFINE f == got[r] \cup {Head(up[r])}
<1>1. /\ socket[r] = "open" /\ up[r] # << >>
      /\ up' = [up EXCEPT ![r] = Tail(up[r])]
      /\ IF Complete(f) THEN got' = [got EXCEPT ![r] = {}] /\ handling' = handling \cup {r}
         ELSE got' = [got EXCEPT ![r] = f] /\ UNCHANGED handling
      /\ UNCHANGED <<listening, sendVars, socket, replied, missed, pinged, cut, down, persistent>>
  BY DEF ServerReceive
<1>3. /\ Tail(up[r]) \in Seq(1..WsFrames) /\ f \in SUBSET (1..WsFrames)
      /\ Complete(f) <=> Tail(up[r]) = << >>
      /\ Rest(Tail(up[r]), f)
  BY <1>1, NextFrame DEF WsInv, WsTyped, WsTold
<1> HIDE DEF f
<1>4. r \notin handling /\ r \notin replied /\ request[r].pc \notin {"idle", "connecting"}
  BY <1>1 DEF WsInv, WsTold
<1>5. CASE Complete(f)
  <2>1. WsTyped'
    BY <1>1, <1>3, <1>5 DEF WsInv, WsTyped, sendVars
  <2>2. /\ got'[r] = {} /\ up'[r] = << >> /\ r \in handling'
        /\ \A t \in WsRequests \ {r} : got'[t] = got[t] /\ up'[t] = up[t] /\ (t \in handling' <=> t \in handling)
    BY <1>1, <1>3, <1>5 DEF WsInv, WsTyped
  <2>3. \A t \in WsRequests \ {r} : WsSame(t)
    BY <1>1, <2>2 DEF WsSame, sendVars
  <2>4. WsTold(r)'
    BY <1>1, <1>4, <2>2 DEF WsInv, WsTold, sendVars, Rest
  <2> QED BY <1>1, <2>1, <2>3, <2>4, OneRequest
<1>6. CASE ~Complete(f)
  <2>1. WsTyped'
    BY <1>1, <1>3, <1>6 DEF WsInv, WsTyped, sendVars
  <2>2. /\ got'[r] = f /\ up'[r] = Tail(up[r]) /\ handling' = handling
        /\ \A t \in WsRequests \ {r} : got'[t] = got[t] /\ up'[t] = up[t]
    BY <1>1, <1>6 DEF WsInv, WsTyped
  <2>3. \A t \in WsRequests \ {r} : WsSame(t)
    BY <1>1, <2>2 DEF WsSame, sendVars
  <2>4. Rest(down'[r], back'[r]) /\ Rest(up'[r], got'[r])
    BY <1>1, <1>3, <2>2 DEF WsInv, WsTold, sendVars
  <2>5. WsTold(r)'
    BY <1>1, <1>4, <2>2, <2>4 DEF WsInv, WsTold, sendVars
  <2> QED BY <1>1, <2>1, <2>3, <2>5, OneRequest
<1> QED BY <1>5, <1>6

\* What 'close' leaves of a socket.
LEMMA Dropped ==
    ASSUME WsInv, NEW r \in WsRequests, DropSocket(r)
    PROVE  /\ socket' \in [WsRequests -> {"none", "open", "closed"}] /\ pinged' \subseteq WsRequests
           /\ got' \in [WsRequests -> SUBSET (1..WsFrames)] /\ up' \in [WsRequests -> Seq(1..WsFrames)]
           /\ socket'[r] = "closed" /\ got'[r] = {} /\ up'[r] = << >>
           /\ \A t \in WsRequests \ {r} : socket'[t] = socket[t] /\ got'[t] = got[t] /\ up'[t] = up[t]
BY EmptyMessage DEF DropSocket, WsInv, WsTyped

LEMMA HandlerEndsInv ==
    ASSUME WsInv, NEW r \in WsRequests, NEW reply \in BOOLEAN, HandlerEnds(r, reply) PROVE WsInv'
<1>1. /\ r \in handling /\ handling' = handling \ {r}
      /\ replied' = IF reply THEN replied \cup {r} ELSE replied
      /\ UNCHANGED <<listening, sendVars, missed, cut, persistent>>
  BY DEF HandlerEnds
<1>2. /\ r \notin replied /\ up[r] = << >> /\ down[r] = << >> /\ back[r] = {} /\ request[r].outcome # "answer"
      /\ request[r].pc \notin {"idle", "connecting"}
  BY <1>1 DEF WsInv, WsTold
<1>3. CASE socket[r] = "open"
  <2> DEFINE d == IF reply THEN SplitIntoFrames ELSE << >>
  <2>1. DropSocket(r) /\ down' = [down EXCEPT ![r] = d]
    BY <1>3 DEF HandlerEnds
  <2>2. d \in Seq(1..WsFrames) /\ Rest(d, {}) /\ (d # << >> => reply)
    BY WholeMessage, EmptyMessage
  <2> HIDE DEF d
  <2>3. WsTyped'
    BY <1>1, <2>1, <2>2, Dropped DEF WsInv, WsTyped, sendVars
  <2>4. down'[r] = d /\ \A t \in WsRequests \ {r} : down'[t] = down[t]
    BY <2>1 DEF WsInv, WsTyped
  <2>5. \A t \in WsRequests \ {r} : WsSame(t)
    BY <1>1, <2>1, <2>4, Dropped DEF WsSame, sendVars
  <2>6. WsTold(r)'
    <3>1. socket'[r] = "closed" /\ got'[r] = {} /\ up'[r] = << >>
      BY <2>1, Dropped
    <3>2. r \notin handling' /\ (r \in replied' <=> reply)
      BY <1>1, <1>2
    <3>3. request' = request /\ back' = back
      BY <1>1 DEF sendVars
    <3>4. Rest(up'[r], got'[r]) /\ Rest(down'[r], back'[r])
      BY <3>1, <3>3, <2>2, <2>4, <1>2, EmptyMessage
    <3> QED BY <3>1, <3>2, <3>3, <3>4, <1>2, <2>2, <2>4 DEF WsInv, WsTold
  <2> QED BY <1>1, <2>3, <2>5, <2>6, OneRequest
<1>4. CASE socket[r] # "open"
  <2>1. UNCHANGED <<socket, got, pinged, up, down>>
    BY <1>4 DEF HandlerEnds
  <2>2. WsTyped'
    BY <1>1, <2>1 DEF WsInv, WsTyped, sendVars
  <2>3. \A t \in WsRequests \ {r} : WsSame(t)
    BY <1>1, <2>1 DEF WsSame, sendVars
  <2>4. WsTold(r)'
    <3>1. r \notin handling' /\ (r \in replied => r \in replied')
      BY <1>1
    <3> QED BY <1>1, <1>2, <2>1, <3>1 DEF WsInv, WsTold, Rest, sendVars
  <2> QED BY <1>1, <2>2, <2>3, <2>4, OneRequest
<1> QED BY <1>3, <1>4

\* The socket of a request is dropped, by its client's close or by the heartbeat.
LEMMA DropInv ==
    ASSUME WsInv, NEW r \in WsRequests, DropSocket(r),
           UNCHANGED <<listening, sendVars, handling, replied, missed, cut, down, persistent>>
    PROVE  WsInv'
<1>1. WsTyped'
  BY Dropped DEF WsInv, WsTyped, sendVars
<1>2. \A t \in WsRequests \ {r} : WsSame(t)
  BY Dropped DEF WsSame, sendVars
<1>3. WsTold(r)'
  BY Dropped DEF WsInv, WsTold, Rest, sendVars
<1> QED BY <1>1, <1>2, <1>3, OneRequest

\* A step that touches no request's messages.
LEMMA QuietInv ==
    ASSUME WsInv, WsTyped', WsPersists', UNCHANGED <<request, socket, up, down, got, back, handling, replied>>
    PROVE  WsInv'
<1>1. \A t \in WsRequests : WsSame(t)
  BY DEF WsSame
<1> QED BY <1>1, WsSameTold DEF WsInv

LEMMA HeartbeatInv == ASSUME WsInv, NEW r \in WsRequests, Heartbeat(r) PROVE WsInv'
<1>1. CASE TooManyMissed(r)
  BY <1>1, DropInv DEF Heartbeat
<1>2. CASE ~TooManyMissed(r)
  <2> DEFINE m == IF missed[r] < MaxMissed THEN missed[r] + 1 ELSE missed[r]
  <2>1. /\ missed' = [missed EXCEPT ![r] = m] /\ pinged' = pinged \cup {r}
        /\ UNCHANGED <<socket, got, up>> /\ UNCHANGED <<listening, sendVars, handling, replied, cut, down, persistent>>
    BY <1>2 DEF Heartbeat
  <2>2. m \in 0..MaxMissed
    BY WsAssumption DEF WsInv, WsTyped
  <2> HIDE DEF m
  <2>3. WsTyped'
    BY <2>1, <2>2 DEF WsInv, WsTyped, sendVars
  <2>4. WsPersists'
    BY <2>1 DEF WsInv, WsPersists
  <2> QED BY <2>1, <2>3, <2>4, QuietInv DEF sendVars
<1> QED BY <1>1, <1>2

LEMMA PongInv == ASSUME WsInv, NEW r \in WsRequests, Pong(r) PROVE WsInv'
<1>1. /\ missed' = [missed EXCEPT ![r] = 0] /\ pinged' = pinged \ {r}
      /\ UNCHANGED <<listening, sendVars, socket, got, handling, replied, wireVars, persistent>>
  BY DEF Pong
<1>2. WsTyped'
  BY <1>1, WsAssumption DEF WsInv, WsTyped, sendVars, wireVars
<1>3. WsPersists'
  BY <1>1 DEF WsInv, WsPersists
<1> QED BY <1>1, <1>2, <1>3, QuietInv DEF sendVars, wireVars

LEMMA CutLinkInv == ASSUME WsInv, NEW r \in WsRequests, CutLink(r) PROVE WsInv'
<1>1. cut' = cut \cup {r} /\ UNCHANGED <<listening, sendVars, serverVars, up, down, persistent>>
  BY DEF CutLink
<1>2. WsTyped'
  BY <1>1 DEF WsInv, WsTyped, sendVars, serverVars
<1>3. WsPersists'
  BY <1>1 DEF WsInv, WsPersists
<1> QED BY <1>1, <1>2, <1>3, QuietInv DEF sendVars, serverVars

LEMMA ListenInv == ASSUME WsInv, Listen PROVE WsInv'
<1>1. WsTyped'
  BY DEF Listen, WsInv, WsTyped, sendVars, serverVars, wireVars
<1>2. WsPersists'
  BY DEF Listen, WsInv, WsPersists
<1> QED BY <1>1, <1>2, QuietInv DEF Listen, sendVars, serverVars, wireVars

LEMMA CloseServerInv == ASSUME WsInv, CloseServer PROVE WsInv'
<1>1. /\ listening' = FALSE
      /\ socket' = [r \in WsRequests |-> IF socket[r] = "open" THEN "closed" ELSE socket[r]]
      /\ got' = [r \in WsRequests |-> {}] /\ pinged' = {} /\ up' = [r \in WsRequests |-> << >>]
      /\ UNCHANGED <<sendVars, handling, replied, missed, cut, down, persistent>>
  BY DEF CloseServer
<1>2. WsTyped'
  BY <1>1, EmptyMessage DEF WsInv, WsTyped, sendVars
<1>3. WsPersists'
  BY <1>1 DEF WsInv, WsPersists
<1>4. ASSUME NEW t \in WsRequests PROVE WsTold(t)'
  <2>1. got'[t] = {} /\ up'[t] = << >>
    BY <1>1
  <2> QED BY <1>1, <2>1 DEF WsInv, WsTold, Rest, sendVars
<1> QED BY <1>2, <1>3, <1>4 DEF WsInv

\* The persistent connection moves on.
LEMMA PersistentInv ==
    ASSUME WsInv, WsPersists', UNCHANGED <<listening, sendVars, serverVars, wireVars>>
    PROVE  WsInv'
<1>1. WsTyped'
  BY DEF WsInv, WsTyped, sendVars, serverVars, wireVars
<1> QED BY <1>1, QuietInv DEF sendVars, serverVars, wireVars

\* One field of the persistent connection is replaced.
LEMMA PersistentPut ==
    ASSUME NEW p \in WsPersistent
    PROVE  /\ \A v \in WsPlace :
                 /\ [p EXCEPT !.pc = v] \in WsPersistent /\ [p EXCEPT !.pc = v].pc = v
                 /\ [p EXCEPT !.pc = v].failures = p.failures /\ [p EXCEPT !.pc = v].opened = p.opened
           /\ \A n \in 0..MaxAttempts :
                 /\ [p EXCEPT !.failures = n] \in WsPersistent /\ [p EXCEPT !.failures = n].pc = p.pc
           /\ \A n \in 0..MaxConnections :
                 /\ [p EXCEPT !.opened = n] \in WsPersistent /\ [p EXCEPT !.opened = n].pc = p.pc
                 /\ [p EXCEPT !.opened = n].failures = p.failures
           /\ [p EXCEPT !.stopped = TRUE] \in WsPersistent /\ [p EXCEPT !.stopped = TRUE].pc = p.pc
           /\ [p EXCEPT !.stopped = TRUE].failures = p.failures /\ [p EXCEPT !.stopped = TRUE].stopped = TRUE
BY Zenon DEF WsPersistent

\* What a step makes of the persistent connection, field by field.
LEMMA PersistentNext ==
    ASSUME WsPersists,
           \/ Schedule("none") \/ Schedule("delay") \/ OpenSocket \/ PersistentConnected
           \/ PersistentFails \/ PersistentCloses \/ Stop
    PROVE  WsPersists' /\ UNCHANGED <<listening, sendVars, serverVars, wireVars>>
<1> DEFINE due == persistent.stopped \/ persistent.failures >= MaxAttempts
<1>0. PICK p \in WsPersistent : p = persistent
  BY DEF WsPersists
<1>p. "connecting" \in WsPlace /\ "connected" \in WsPlace /\ "failed" \in WsPlace
  BY DEF WsPlace
<1>1. ASSUME NEW x \in {"none", "delay"}, Schedule(x)
      PROVE  WsPersists'
  <2>1. persistent' = [p EXCEPT !.pc = IF p.stopped \/ p.failures >= MaxAttempts THEN "ended" ELSE "loading"]
    BY <1>0, <1>1 DEF Schedule, PersistentGoes
  <2> QED BY <1>0, <2>1, WsAssumption DEF WsPersists, WsPersistent, WsPlace
<1>2. ASSUME OpenSocket PROVE WsPersists'
  <2>1. PICK a \in WsPersistent : a = [p EXCEPT !.pc = "connecting"] /\ a.pc = "connecting" /\ a.failures = p.failures
                                  /\ a.opened = p.opened
    BY <1>p, PersistentPut
  <2>2. persistent' = [a EXCEPT !.opened = p.opened + 1] /\ p.opened < MaxConnections /\ p.pc = "loading"
    BY <1>0, <1>2, <2>1 DEF OpenSocket, PersistentAt
  <2>3. persistent' \in WsPersistent /\ persistent'.pc = "connecting" /\ persistent'.failures = p.failures
    <3>1. PICK n \in 0..MaxConnections : n = p.opened + 1
      BY <2>2, WsAssumption DEF WsPersistent, WsPlace
    <3> QED BY <2>1, <2>2, <3>1, PersistentPut
  <2> QED BY <1>0, <2>2, <2>3 DEF WsPersists
<1>3. ASSUME PersistentConnected PROVE WsPersists'
  <2>1. PICK a \in WsPersistent : a = [p EXCEPT !.pc = "connected"] /\ a.pc = "connected"
    BY <1>p, PersistentPut
  <2>2. persistent' = [a EXCEPT !.failures = 0]
    BY <1>0, <1>3, <2>1 DEF PersistentConnected, FailuresAfter
  <2>3. persistent' \in WsPersistent /\ persistent'.pc = "connected"
    <3>1. 0 \in 0..MaxAttempts
      BY WsAssumption
    <3> QED BY <2>1, <2>2, <3>1, PersistentPut
  <2> QED BY <2>3 DEF WsPersists
<1>4. ASSUME PersistentFails PROVE WsPersists'
  <2>1. PICK a \in WsPersistent : a = [p EXCEPT !.pc = "failed"] /\ a.pc = "failed"
    BY <1>p, PersistentPut
  <2>2. persistent' = [a EXCEPT !.failures = p.failures + 1] /\ p.pc = "connecting"
    BY <1>0, <1>4, <2>1 DEF PersistentFails, FailuresAfter, PersistentAt
  <2>3. p.failures + 1 \in 0..MaxAttempts
    BY <1>0, <2>2, WsAssumption DEF WsPersists, WsPersistent
  <2>4. persistent' \in WsPersistent /\ persistent'.pc = "failed"
    BY <2>1, <2>2, <2>3 DEF WsPersistent, WsPlace
  <2> QED BY <2>4 DEF WsPersists
<1>5. ASSUME PersistentCloses PROVE WsPersists'
  <2>1. persistent' = [p EXCEPT !.pc = IF p.stopped \/ p.failures >= MaxAttempts THEN "ended" ELSE "delay"]
    BY <1>0, <1>5 DEF PersistentCloses, PersistentGoes
  <2> QED BY <1>0, <2>1, WsAssumption DEF WsPersists, WsPersistent, WsPlace
<1>6. ASSUME Stop PROVE WsPersists'
  <2> DEFINE c == IF p.pc = "connected" THEN "closing" ELSE p.pc
  <2>1. PICK a \in WsPersistent : a = [p EXCEPT !.stopped = TRUE] /\ a.pc = p.pc /\ a.failures = p.failures /\ a.stopped
    BY <1>p, PersistentPut
  <2>2. persistent' = [a EXCEPT !.pc = c]
    BY <1>0, <1>6, <2>1 DEF Stop
  <2>3. /\ persistent' \in WsPersistent /\ persistent'.pc = c /\ persistent'.failures = p.failures
        /\ persistent'.stopped
    BY <2>1, <2>2 DEF WsPersistent, WsPlace
  <2> QED BY <1>0, <2>3 DEF WsPersists
<1>7. UNCHANGED <<listening, sendVars, serverVars, wireVars>>
  BY DEF Schedule, OpenSocket, PersistentConnected, PersistentFails, PersistentCloses, Stop
<1> QED BY <1>1, <1>2, <1>3, <1>4, <1>5, <1>6, <1>7

LEMMA WsStep == WsInv /\ [WsNext]_wsVars => WsInv'
<1> SUFFICES ASSUME WsInv, [WsNext]_wsVars PROVE WsInv'
  OBVIOUS
<1>1. ASSUME NEW r \in WsRequests, ConnectError(r) \/ ClientSeesClose(r) \/ SendTimeout(r) PROVE WsInv'
  BY <1>1, SettleInv DEF ConnectError, ClientSeesClose, SendTimeout
<1>2. ASSUME NEW r \in WsRequests, ServerSeesClose(r) PROVE WsInv'
  BY <1>2, DropInv DEF ServerSeesClose
<1>3. ASSUME \/ Schedule("none") \/ Schedule("delay") \/ OpenSocket \/ PersistentConnected
             \/ PersistentFails \/ PersistentCloses \/ Stop
      PROVE  WsInv'
  BY <1>3, PersistentNext, PersistentInv DEF WsInv
<1>4. CASE UNCHANGED wsVars
  <2>1. WsTyped' /\ WsPersists'
    BY <1>4 DEF wsVars, sendVars, serverVars, wireVars, WsInv, WsTyped, WsPersists
  <2> QED BY <1>4, <2>1, QuietInv DEF wsVars, sendVars, serverVars, wireVars
<1> QED
  BY <1>1, <1>2, <1>3, <1>4, StartSendInv, ConnectInv, ClientReceiveInv, ServerReceiveInv, HeartbeatInv,
     PongInv, CutLinkInv, HandlerEndsInv, ListenInv, CloseServerInv DEF WsNext

LEMMA WsStart == WsInit => WsInv
<1> SUFFICES ASSUME WsInit PROVE WsInv
  OBVIOUS
<1>1. [pc |-> "idle", outcome |-> "none"] \in WsRequestState
  BY DEF WsRequestState
<1>2. WsTyped
  <2>1. request \in [WsRequests -> WsRequestState] /\ missed \in [WsRequests -> 0..MaxMissed]
    BY <1>1, WsAssumption DEF WsInit
  <2>2. /\ up \in [WsRequests -> Seq(1..WsFrames)] /\ down \in [WsRequests -> Seq(1..WsFrames)]
    BY EmptyMessage DEF WsInit
  <2>3. /\ got \in [WsRequests -> SUBSET (1..WsFrames)] /\ back \in [WsRequests -> SUBSET (1..WsFrames)]
        /\ socket \in [WsRequests -> {"none", "open", "closed"}]
    BY DEF WsInit
  <2> QED BY <2>1, <2>2, <2>3 DEF WsInit, WsTyped
<1>3. WsPersists
  BY WsAssumption DEF WsInit, WsPersists, WsPersistent, WsPlace
<1>4. \A r \in WsRequests : WsTold(r)
  BY DEF WsInit, WsTold, Rest
<1> QED BY <1>2, <1>3, <1>4 DEF WsInv

\* The handler sees whole envelopes only, an answer is the whole of the handler's reply and no
\* buffer outlives its socket, wherever links break, sockets are terminated and timers fire (send,
\* listen and its heartbeat, websocket.ts): for any number of requests and frames.
THEOREM TransportHolds == WsSpec => []TransportIsSound
<1>1. WsInv => TransportIsSound
  <2> SUFFICES ASSUME WsInv PROVE TransportIsSound
    OBVIOUS
  <2>1. WsTypeOK
    <3>1. persistent.failures \in 0..MaxAttempts /\ persistent.opened \in 0..MaxConnections
      BY DEF WsInv, WsPersists, WsPersistent
    <3>2. \A r \in WsRequests : /\ request[r].pc \in {"idle", "connecting", "open", "done"}
                                /\ request[r].outcome \in {"none", "answer", "null", "timeout", "error"}
      BY DEF WsInv, WsTyped, WsRequestState
    <3> QED BY <3>1, <3>2 DEF WsInv, WsTyped, WsTypeOK
  <2>2. SendsResolveTruly /\ NoBufferLeaks
    BY DEF WsInv, WsTold, SendsResolveTruly, NoBufferLeaks
  <2> QED BY <2>1, <2>2 DEF WsInv, WsPersists, TransportIsSound
<1> QED BY <1>1, WsStart, WsStep, PTL DEF WsSpec
=============================================================================
