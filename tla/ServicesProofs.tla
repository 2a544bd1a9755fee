--------------------------- MODULE ServicesProofs ---------------------------
(***************************************************************************)
(* Proofs about what is served to others (MCServices): the audit-access    *)
(* middleware with its nonces and the disclosures an audit key pays for    *)
(* (AuditAccess), the sealed bodies of an encrypted session                *)
(* (SessionCrypto), the managed services (ManagedService), single sign-on, *)
(* tenant binding and the admin console (Tenancy), the ledger's HTTP routes*)
(* (LedgerRoutes) and the MCP bridge (McpBridge), each with an inductive   *)
(* invariant that is proved for every set of callers and every bound; the  *)
(* last section brings them to ServicesSpec, in which one of them runs.    *)
(***************************************************************************)
EXTENDS MCServices, Sums, SequenceTheorems

-----------------------------------------------------------------------------
(* AuditAccess: what a nonce was used for.                                 *)

AaDecision == [q : AaRequest, decision : {"allowed", "denied"}, at : 0..MaxAaTime]
AaPlace == {"idle", "key", "nonce", "check"}
AaTime == 0..MaxAaTime
AaDelivery == [pc : AaPlace, q : AaRequest, at : AaTime]

\* A nonce that was checked at t is in the store until t + NonceTtl.
NonceKept(q, t) ==
    q.nonce # NoNonce => t <= aaNow /\ (t + NonceTtl <= aaNow \/ t + NonceTtl <= nonceStore[q.nonce])

\* Two checks that pass for one nonce are NonceTtl apart.
Spaced(q, t, r, u) == q.nonce # NoNonce /\ q.nonce = r.nonce => t + NonceTtl <= u \/ u + NonceTtl <= t

AaTyped ==
    /\ aaNow \in 0..MaxAaTime /\ aaSent \subseteq AaRequest
    /\ nonceStore \in [AaNonces -> 0..(MaxAaTime + NonceTtl)]
    /\ aaKeyAlive \in BOOLEAN /\ aaHandled \in 0..MaxAaHandled
    /\ aaCall \in [AaDeliveries -> AaDelivery] /\ metaLedger \in Seq(AaDecision)

AaKept ==
    /\ \A k \in DOMAIN metaLedger : NonceKept(metaLedger[k].q, metaLedger[k].at)
    /\ \A d \in AaDeliveries : aaCall[d].pc = "check" => NonceKept(aaCall[d].q, aaCall[d].at)

AaSpaced ==
    /\ \A k, j \in DOMAIN metaLedger :
          k # j => Spaced(metaLedger[k].q, metaLedger[k].at, metaLedger[j].q, metaLedger[j].at)
    /\ \A d \in AaDeliveries : aaCall[d].pc = "check" =>
          /\ \A k \in DOMAIN metaLedger :
                Spaced(metaLedger[k].q, metaLedger[k].at, aaCall[d].q, aaCall[d].at)
          /\ \A e \in AaDeliveries : d # e /\ aaCall[e].pc = "check" =>
                Spaced(aaCall[e].q, aaCall[e].at, aaCall[d].q, aaCall[d].at)

AaInv == AaTyped /\ AaKept /\ AaSpaced

LEMMA AaRequests ==
    /\ IdleDelivery \in AaDelivery /\ IdleDelivery.pc = "idle"
    /\ \A q \in AaRequest : q.nonce \in AaNonces \cup {NoNonce} /\ q.stamp \in 0..MaxAaTime
<1>1. PICK p \in AaPrincipals : TRUE
  BY AaAssumption
<1>2. [requester |-> p, signer |-> p, nonce |-> NoNonce, stamp |-> 0, delegated |-> FALSE] \in AaRequest
  BY AaAssumption DEF AaRequest
<1>3. (CHOOSE q \in AaRequest : TRUE) \in AaRequest
  BY <1>2
<1>4. IdleDelivery \in AaDelivery /\ IdleDelivery.pc = "idle"
  BY <1>3, AaAssumption DEF IdleDelivery, AaDelivery, AaPlace, AaTime
<1> QED BY <1>4 DEF AaRequest

LEMMA AaFields ==
    /\ \A r \in AaDelivery : r.pc \in {"idle", "key", "nonce", "check"} /\ r.q \in AaRequest /\ r.at \in 0..MaxAaTime
    /\ \A r \in AaDecision : r.q \in AaRequest /\ r.at \in 0..MaxAaTime
  BY DEF AaDelivery, AaDecision, AaPlace, AaTime

\* A delivery that moves on or ends, and is not about to be decided, disturbs nothing.
LEMMA AaMoves ==
    ASSUME AaInv, NEW d \in AaDeliveries, NEW w \in AaDelivery, w.pc # "check",
           aaCall' = [aaCall EXCEPT ![d] = w], UNCHANGED <<aaNow, nonceStore, aaKeyAlive, metaLedger>>,
           aaSent' \subseteq AaRequest, aaHandled' \in 0..MaxAaHandled
    PROVE  AaInv'
<1>1. AaTyped'
  BY DEF AaInv, AaTyped
<1>2. /\ \A e \in AaDeliveries : aaCall'[e].pc = "check" => aaCall[e].pc = "check" /\ aaCall'[e] = aaCall[e]
      /\ metaLedger' = metaLedger /\ aaNow' = aaNow /\ nonceStore' = nonceStore
  BY DEF AaInv, AaTyped
<1>3. AaKept'
  BY <1>2 DEF AaInv, AaKept, NonceKept
<1>4. AaSpaced'
  BY <1>2 DEF AaInv, AaSpaced, Spaced
<1> QED BY <1>1, <1>3, <1>4 DEF AaInv

LEMMA AaSigns == AaInv /\ (\E q \in AaRequest : SignRequest(q)) => AaInv'
<1> SUFFICES ASSUME AaInv, NEW q \in AaRequest, SignRequest(q) PROVE AaInv'
  OBVIOUS
<1>1. /\ aaSent' \subseteq AaRequest
      /\ UNCHANGED <<aaNow, nonceStore, aaKeyAlive, aaCall, metaLedger, aaHandled>>
  BY DEF SignRequest, AaInv, AaTyped
<1>2. AaTyped'
  BY <1>1 DEF AaInv, AaTyped
<1>3. AaKept' /\ AaSpaced'
  BY <1>1 DEF AaInv, AaKept, AaSpaced, NonceKept, Spaced
<1> QED BY <1>2, <1>3 DEF AaInv

LEMMA AaHandles ==
    ASSUME AaInv, NEW d \in AaDeliveries,
           \/ \E q \in aaSent : ReceiveRequest(d, q)
           \/ VerifySignature(d) \/ AccessFails(d)
    PROVE  AaInv'
<1>1. CASE \E q \in aaSent : ReceiveRequest(d, q)
  <2>1. PICK q \in AaRequest : ReceiveRequest(d, q)
    BY <1>1 DEF AaInv, AaTyped
  <2> DEFINE w == [pc |-> "key", q |-> q, at |-> 0]
  <2>2. w \in AaDelivery /\ w.pc # "check"
    BY AaAssumption DEF AaDelivery, AaPlace, AaTime
  <2>3. /\ aaCall' = [aaCall EXCEPT ![d] = w] /\ UNCHANGED <<aaNow, nonceStore, aaKeyAlive, metaLedger>>
        /\ aaSent' \subseteq AaRequest /\ aaHandled' \in 0..MaxAaHandled
    BY <2>1, AaAssumption DEF ReceiveRequest, AaInv, AaTyped
  <2> HIDE DEF w
  <2> QED BY <2>2, <2>3, AaMoves
<1>2. CASE AaEnd(d) /\ UNCHANGED <<aaNow, aaSent, nonceStore, aaKeyAlive, metaLedger, aaHandled>>
  <2>1. /\ aaCall' = [aaCall EXCEPT ![d] = IdleDelivery] /\ UNCHANGED <<aaNow, nonceStore, aaKeyAlive, metaLedger>>
        /\ aaSent' \subseteq AaRequest /\ aaHandled' \in 0..MaxAaHandled
    BY <1>2 DEF AaEnd, AaInv, AaTyped
  <2> QED BY <2>1, AaRequests, AaMoves
<1>3. CASE AaGoto(d, "nonce") /\ UNCHANGED <<aaNow, aaSent, nonceStore, aaKeyAlive, metaLedger, aaHandled>>
  <2>1. aaCall[d] \in AaDelivery /\ "nonce" \in AaPlace /\ aaNow \in AaTime
    BY DEF AaInv, AaTyped, AaPlace, AaTime
  <2> DEFINE w == [pc |-> "nonce", q |-> aaCall[d].q, at |-> aaNow]
  <2>2. w \in AaDelivery /\ w.pc # "check"
    BY <2>1, AaFields DEF AaDelivery, AaTime
  <2>3. /\ aaCall' = [aaCall EXCEPT ![d] = w] /\ UNCHANGED <<aaNow, nonceStore, aaKeyAlive, metaLedger>>
        /\ aaSent' \subseteq AaRequest /\ aaHandled' \in 0..MaxAaHandled
    BY <1>3 DEF AaGoto, AaInv, AaTyped
  <2> HIDE DEF w
  <2> QED BY <2>2, <2>3, AaMoves
<1>4. VerifySignature(d) \/ AccessFails(d) => <1>2!1 \/ <1>3!1
  BY DEF VerifySignature, AccessFails
<1> QED BY <1>1, <1>2, <1>3, <1>4

\* A check that passes comes NonceTtl after every other one that passed for its nonce.
LEMMA AaStores ==
    ASSUME AaInv, NEW d \in AaDeliveries, CheckAndStore(d)
    PROVE  AaInv'
<1> DEFINE q == aaCall[d].q
<1>1. /\ aaCall[d] \in AaDelivery /\ q \in AaRequest /\ aaNow \in AaTime /\ "check" \in AaPlace
      /\ q.nonce \in AaNonces \cup {NoNonce} /\ aaNow \in Nat /\ NonceTtl \in Nat
  BY AaRequests, AaFields, AaAssumption DEF AaInv, AaTyped, AaPlace, AaTime
<1>2. CASE AaEnd(d) /\ UNCHANGED nonceStore
  <2>1. /\ aaCall' = [aaCall EXCEPT ![d] = IdleDelivery] /\ UNCHANGED <<aaNow, nonceStore, aaKeyAlive, metaLedger>>
        /\ aaSent' \subseteq AaRequest /\ aaHandled' \in 0..MaxAaHandled
    BY <1>2 DEF AaEnd, AaInv, AaTyped, CheckAndStore
  <2> QED BY <2>1, AaRequests, AaMoves
<1>3. CASE /\ AaGoto(d, "check")
           /\ \/ q.nonce = NoNonce /\ UNCHANGED nonceStore
              \/ /\ q.nonce # NoNonce /\ nonceStore[q.nonce] <= aaNow
                 /\ nonceStore' = [nonceStore EXCEPT ![q.nonce] = aaNow + NonceTtl]
  <2>1. PICK w \in AaDelivery : /\ w = [pc |-> "check", q |-> q, at |-> aaNow]
                                /\ w.pc = "check" /\ w.q = q /\ w.at = aaNow
    <3> HIDE DEF q
    <3>1. [pc |-> "check", q |-> q, at |-> aaNow] \in AaDelivery
      BY <1>1 DEF AaDelivery
    <3> QED BY <3>1
  <2>2. /\ aaCall' = [aaCall EXCEPT ![d] = w]
        /\ UNCHANGED <<aaNow, aaSent, aaKeyAlive, metaLedger, aaHandled>>
    BY <1>3, <2>1 DEF AaGoto, CheckAndStore
  <2>3. nonceStore' \in [AaNonces -> 0..(MaxAaTime + NonceTtl)]
    <3>1. aaNow + NonceTtl \in 0..(MaxAaTime + NonceTtl)
      BY <1>1, AaAssumption DEF AaTime
    <3> QED BY <1>1, <1>3, <3>1 DEF AaInv, AaTyped
  <2>4. AaTyped'
    BY <2>2, <2>3 DEF AaInv, AaTyped
  <2>5. aaCall'[d] = w /\ \A e \in AaDeliveries : e # d => aaCall'[e] = aaCall[e]
    BY <2>2 DEF AaInv, AaTyped
  <2>6. ASSUME NEW r \in AaRequest, NEW t \in AaTime, NonceKept(r, t)
        PROVE  NonceKept(r, t)' /\ Spaced(r, t, q, aaNow)
    <3>1. t \in Nat /\ r.nonce \in AaNonces \cup {NoNonce}
      BY AaAssumption, AaRequests DEF AaTime
    <3>2. r.nonce \in AaNonces => nonceStore[r.nonce] \in Nat
      BY AaAssumption DEF AaInv, AaTyped
    <3>3. CASE r.nonce = NoNonce
      BY <3>3 DEF NonceKept, Spaced
    <3>4. CASE r.nonce # NoNonce /\ r.nonce # q.nonce
      <4>1. nonceStore'[r.nonce] = nonceStore[r.nonce] /\ aaNow' = aaNow
        BY <1>3, <2>2, <3>1, <3>4 DEF AaInv, AaTyped
      <4> QED BY <2>6, <3>4, <4>1 DEF NonceKept, Spaced
    <3>5. CASE r.nonce # NoNonce /\ r.nonce = q.nonce
      <4>1. nonceStore[r.nonce] <= aaNow /\ nonceStore'[r.nonce] = aaNow + NonceTtl /\ aaNow' = aaNow
        BY <1>3, <2>2, <3>1, <3>5 DEF AaInv, AaTyped
      <4> QED BY <1>1, <2>6, <3>1, <3>2, <3>5, <4>1 DEF NonceKept, Spaced
    <3> QED BY <3>3, <3>4, <3>5
  <2>7. NonceKept(q, aaNow)'
    <3>1. q' = q /\ aaNow' = aaNow
      BY <2>1, <2>2, <2>5
    <3>2. q.nonce # NoNonce => nonceStore'[q.nonce] = aaNow + NonceTtl
      BY <1>1, <1>3 DEF AaInv, AaTyped
    <3> QED BY <1>1, <3>1, <3>2 DEF NonceKept
  <2>8. /\ \A k \in DOMAIN metaLedger : metaLedger[k].q \in AaRequest /\ metaLedger[k].at \in AaTime
        /\ \A e \in AaDeliveries : aaCall[e].q \in AaRequest /\ aaCall[e].at \in AaTime
    BY AaFields DEF AaInv, AaTyped, AaTime
  <2>9. \A k \in DOMAIN metaLedger : /\ NonceKept(metaLedger[k].q, metaLedger[k].at)'
                                     /\ Spaced(metaLedger[k].q, metaLedger[k].at, q, aaNow)
    BY <2>2, <2>6, <2>8 DEF AaInv, AaKept
  <2>10. \A e \in AaDeliveries : e # d /\ aaCall[e].pc = "check" =>
             /\ NonceKept(aaCall[e].q, aaCall[e].at)'
             /\ Spaced(aaCall[e].q, aaCall[e].at, q, aaNow)
    BY <2>5, <2>6, <2>8 DEF AaInv, AaKept
  <2>11. AaKept'
    BY <2>1, <2>2, <2>5, <2>7, <2>9, <2>10 DEF AaKept
  <2>12. AaSpaced'
    BY <2>1, <2>2, <2>5, <2>9, <2>10 DEF AaInv, AaSpaced, Spaced
  <2> QED BY <2>4, <2>11, <2>12 DEF AaInv
<1>4. <1>2!1 \/ <1>3!1
  <2>1. q.nonce # NoNonce => nonceStore[q.nonce] \in Nat
    BY <1>1, AaAssumption DEF AaInv, AaTyped
  <2> QED BY <1>1, <2>1 DEF CheckAndStore, NonceExpiry
<1> QED BY <1>2, <1>3, <1>4

LEMMA AaDecides ==
    ASSUME AaInv, NEW d \in AaDeliveries, CheckAccess(d)
    PROVE  AaInv'
<1>1. PICK r \in AaDecision : /\ metaLedger' = Append(metaLedger, r)
                              /\ r.q = aaCall[d].q /\ r.at = aaCall[d].at
  <2>1. aaCall[d].q \in AaRequest /\ aaCall[d].at \in 0..MaxAaTime
    BY AaFields DEF AaInv, AaTyped
  <2> QED BY <2>1 DEF CheckAccess, AaDecision
<1>2. /\ aaCall[d].pc = "check" /\ aaCall' = [aaCall EXCEPT ![d] = IdleDelivery]
      /\ UNCHANGED <<aaNow, aaSent, nonceStore, aaKeyAlive, aaHandled>>
  BY DEF CheckAccess, AaEnd
<1>3. AaTyped'
  <2>1. metaLedger' \in Seq(AaDecision)
    BY <1>1 DEF AaInv, AaTyped
  <2> QED BY <1>2, <2>1, AaRequests DEF AaInv, AaTyped
<1>4. /\ DOMAIN metaLedger' = DOMAIN metaLedger \cup {Len(metaLedger) + 1}
      /\ Len(metaLedger) + 1 \notin DOMAIN metaLedger
      /\ metaLedger'[Len(metaLedger) + 1] = r
      /\ \A k \in DOMAIN metaLedger : metaLedger'[k] = metaLedger[k]
  BY <1>1 DEF AaInv, AaTyped
<1>5. \A e \in AaDeliveries : aaCall'[e].pc = "check" => e # d /\ aaCall[e].pc = "check" /\ aaCall'[e] = aaCall[e]
  BY <1>2, AaRequests DEF AaInv, AaTyped
<1>6. NonceKept(r.q, r.at)
  BY <1>1, <1>2 DEF AaInv, AaKept
<1>7. AaKept'
  BY <1>2, <1>4, <1>5, <1>6 DEF AaInv, AaKept, NonceKept
<1>8. /\ \A k \in DOMAIN metaLedger : Spaced(metaLedger[k].q, metaLedger[k].at, r.q, r.at)
      /\ \A e \in AaDeliveries : e # d /\ aaCall[e].pc = "check" =>
            Spaced(aaCall[e].q, aaCall[e].at, r.q, r.at)
  BY <1>1, <1>2 DEF AaInv, AaSpaced
<1>9. AaSpaced'
  <2>1. \A k, j \in DOMAIN metaLedger' :
          k # j => Spaced(metaLedger'[k].q, metaLedger'[k].at, metaLedger'[j].q, metaLedger'[j].at)
    BY <1>4, <1>8 DEF AaInv, AaSpaced, Spaced
  <2>2. \A e \in AaDeliveries : aaCall'[e].pc = "check" =>
          \A k \in DOMAIN metaLedger' : Spaced(metaLedger'[k].q, metaLedger'[k].at, aaCall'[e].q, aaCall'[e].at)
    BY <1>4, <1>5, <1>8 DEF AaInv, AaSpaced, Spaced
  <2>3. \A e, f \in AaDeliveries : e # f /\ aaCall'[e].pc = "check" /\ aaCall'[f].pc = "check" =>
          Spaced(aaCall'[f].q, aaCall'[f].at, aaCall'[e].q, aaCall'[e].at)
    BY <1>5 DEF AaInv, AaSpaced, Spaced
  <2> QED BY <2>1, <2>2, <2>3 DEF AaSpaced, Spaced
<1> QED BY <1>3, <1>7, <1>9 DEF AaInv

LEMMA AaPasses == AaInv /\ (CleanupNonces \/ DelegatedKeyEnds \/ AaTick \/ UNCHANGED aaVars) => AaInv'
<1> SUFFICES ASSUME AaInv, CleanupNonces \/ DelegatedKeyEnds \/ AaTick \/ UNCHANGED aaVars PROVE AaInv'
  OBVIOUS
<1>1. UNCHANGED <<aaSent, aaCall, metaLedger, aaHandled>>
  BY DEF CleanupNonces, DelegatedKeyEnds, AaTick, aaVars
<1>2. AaTyped'
  <2>1. aaNow' \in 0..MaxAaTime
    BY AaAssumption DEF AaInv, AaTyped, CleanupNonces, DelegatedKeyEnds, AaTick, aaVars
  <2>3. aaKeyAlive' \in BOOLEAN
    BY Zenon DEF AaInv, AaTyped, CleanupNonces, DelegatedKeyEnds, AaTick, aaVars
  <2>2. nonceStore' \in [AaNonces -> 0..(MaxAaTime + NonceTtl)]
    <3>1. CASE CleanupNonces
      BY <3>1, AaAssumption DEF AaInv, AaTyped, CleanupNonces
    <3>2. CASE UNCHANGED nonceStore
      BY <3>2 DEF AaInv, AaTyped
    <3> QED BY <3>1, <3>2 DEF DelegatedKeyEnds, AaTick, aaVars
  <2> QED BY <1>1, <2>1, <2>2, <2>3 DEF AaInv, AaTyped
<1>3. AaSpaced'
  BY <1>1 DEF AaInv, AaSpaced, Spaced
<1>4. ASSUME NEW q \in AaRequest, NEW t \in 0..MaxAaTime, NonceKept(q, t)
      PROVE  NonceKept(q, t)'
  <2>1. /\ t \in Nat /\ aaNow \in Nat /\ NonceTtl \in Nat /\ q.nonce \in AaNonces \cup {NoNonce}
        /\ q.nonce \in AaNonces => nonceStore[q.nonce] \in Nat
    BY AaAssumption, AaRequests DEF AaInv, AaTyped
  <2>2. /\ aaNow' \in Nat /\ aaNow <= aaNow'
        /\ q.nonce \in AaNonces =>
             nonceStore'[q.nonce] = nonceStore[q.nonce] \/ nonceStore[q.nonce] <= aaNow
    BY <2>1, AaAssumption DEF AaInv, AaTyped, CleanupNonces, DelegatedKeyEnds, AaTick, aaVars
  <2>3. q.nonce \in AaNonces => nonceStore'[q.nonce] \in Nat
    BY <1>2, AaAssumption DEF AaTyped
  <2> QED BY <1>4, <2>1, <2>2, <2>3 DEF NonceKept
<1>5. AaKept'
  <2>1. /\ \A k \in DOMAIN metaLedger : metaLedger[k].q \in AaRequest /\ metaLedger[k].at \in 0..MaxAaTime
        /\ \A e \in AaDeliveries : aaCall[e].q \in AaRequest /\ aaCall[e].at \in 0..MaxAaTime
    BY AaFields DEF AaInv, AaTyped
  <2> QED BY <1>1, <1>4, <2>1 DEF AaInv, AaKept
<1> QED BY <1>2, <1>3, <1>5 DEF AaInv

LEMMA AaStep == AaInv /\ [AaNext]_aaVars => AaInv'
  BY AaSigns, AaHandles, AaStores, AaDecides, AaPasses DEF AaNext

LEMMA AaStart == AaInit => AaInv
<1> SUFFICES ASSUME AaInit PROVE AaInv
  OBVIOUS
<1>1. AaTyped
  BY AaAssumption, AaRequests DEF AaInit, AaTyped
<1>2. AaKept /\ AaSpaced
  BY AaRequests DEF AaInit, AaKept, AaSpaced
<1> QED BY <1>1, <1>2 DEF AaInv

LEMMA AaConcludes == AaInv => AaTypeOK /\ DecidedOncePerNonce
<1> SUFFICES ASSUME AaInv PROVE AaTypeOK /\ DecidedOncePerNonce
  OBVIOUS
<1>1. AaTypeOK
  <2>1. \A k \in DOMAIN metaLedger : metaLedger[k] \in [q : AaRequest, decision : {"allowed", "denied"}, at : 0..MaxAaTime]
    <3>1. \A k \in DOMAIN metaLedger : metaLedger[k] \in AaDecision
      BY DEF AaInv, AaTyped
    <3> QED BY <3>1 DEF AaDecision
  <2> QED BY <2>1 DEF AaInv, AaTyped, AaTypeOK, AaDelivery, AaPlace, AaTime
<1>2. ASSUME NEW k \in DOMAIN metaLedger, NEW j \in DOMAIN metaLedger, k # j,
             metaLedger[j].q = metaLedger[k].q, metaLedger[k].q.nonce # NoNonce,
             metaLedger[k].at <= metaLedger[j].at
      PROVE  metaLedger[k].q.stamp >= metaLedger[k].at \/ metaLedger[j].at > metaLedger[k].q.stamp + SkewMax
  <2>1. /\ metaLedger[k].q \in AaRequest /\ metaLedger[k].at \in 0..MaxAaTime /\ metaLedger[j].at \in 0..MaxAaTime
    BY AaFields DEF AaInv, AaTyped
  <2>2. metaLedger[k].q.stamp \in Nat /\ metaLedger[k].at \in Nat /\ metaLedger[j].at \in Nat
    BY <2>1, AaRequests, AaAssumption
  <2>3. \/ metaLedger[k].at + NonceTtl <= metaLedger[j].at
        \/ metaLedger[j].at + NonceTtl <= metaLedger[k].at
    BY <1>2 DEF AaInv, AaSpaced, Spaced
  <2> QED BY <1>2, <2>2, <2>3, AaAssumption
<1>3. DecidedOncePerNonce
  BY <1>2 DEF DecidedOncePerNonce
<1> QED BY <1>1, <1>3

-----------------------------------------------------------------------------
(* AuditAccess: what an audit-share challenge pays for.                    *)

AsPlace == {"idle", "key", "signature", "consume", "policy", "entries", "events"}
AsCount == 0..(MaxPosition + 1)
AsPositions == SUBSET (0..MaxPosition)
AsCall == [pc : AsPlace, q : ShareRequest, checkpoint : AsCount, got : AsPositions]
PaidPlace == {"policy", "entries", "events"}

\* What a request was found to be when it reached its place.
Earned(r) ==
    /\ r.pc \in {"signature", "consume"} \cup PaidPlace => r.q.requester = r.q.key.to
    /\ r.pc \in {"entries", "events"} => WithinKeyScope(r.q.key, r.q.scope)
    /\ r.pc = "events" => Unbroken(r.got)

AsTyped ==
    /\ chains \in [AsScopes -> AsPositions] /\ appended \in [AsScopes -> AsPositions]
    /\ issued \subseteq AsChallenges /\ asLive \subseteq AsKeys /\ tenantAllows \subseteq AsScopes
    /\ shareCall \in [AsCalls -> AsCall] /\ disclosed \subseteq Disclosure
    /\ asStarted \in 0..MaxAsCalls

\* Every disclosure and every request in flight was started.
AsActive == {c \in AsCalls : shareCall[c].pc # "idle"}
AsCounted == IsFiniteSet(disclosed) /\ Cardinality(AsActive) + Cardinality(disclosed) <= asStarted

\* A challenge is outstanding, or paid for one request past it, or for one disclosure.
AsPaid ==
    /\ \A c \in AsCalls : shareCall[c].pc \in PaidPlace =>
          /\ shareCall[c].q.challenge \notin issued
          /\ \A e \in AsCalls : e # c /\ shareCall[e].pc \in PaidPlace =>
                                shareCall[e].q.challenge # shareCall[c].q.challenge
          /\ \A d \in disclosed : d.q.challenge # shareCall[c].q.challenge
    /\ \A d \in disclosed : d.q.challenge \notin issued
    /\ \A d, e \in disclosed : d # e => d.q.challenge # e.q.challenge

AsEarned ==
    /\ \A c \in AsCalls : Earned(shareCall[c])
    /\ \A d \in disclosed : /\ d.q.requester = d.q.key.to /\ WithinKeyScope(d.q.key, d.q.scope)
                            /\ Unbroken(d.positions)
                            /\ d.q.v3 => d.positions = 0..(d.checkpoint - 1) /\ d.checkpoint > 0

AsInv == AsTyped /\ AsCounted /\ AsPaid /\ AsEarned

LEMMA AsFields ==
    /\ IdleShare \in AsCall /\ IdleShare.pc = "idle" /\ Earned(IdleShare)
    /\ \A r \in AsCall : /\ r.pc \in AsPlace /\ r.q \in ShareRequest /\ r.checkpoint \in AsCount
                         /\ r.got \in AsPositions
    /\ \A q \in ShareRequest : q.challenge \in AsChallenges /\ q.scope \in AsScopes
    /\ \A d \in Disclosure : d.q \in ShareRequest
<1>1. PICK k \in AsKeys, r \in AsRequesters, s \in AsScopes, x \in AsChallenges : TRUE
  BY AsAssumption
<1>2. [key |-> k, requester |-> r, scope |-> s, challenge |-> x, v3 |-> FALSE] \in ShareRequest
  BY DEF ShareRequest
<1>3. (CHOOSE q \in ShareRequest : TRUE) \in ShareRequest
  BY <1>2
<1>4. IdleShare \in AsCall /\ IdleShare.pc = "idle"
  <2>1. "idle" \in AsPlace /\ 0 \in AsCount /\ {} \in AsPositions
    BY AsAssumption DEF AsPlace, AsCount, AsPositions
  <2> QED BY <1>3, <2>1 DEF IdleShare, AsCall
<1>5. Earned(IdleShare)
  BY <1>4 DEF Earned, PaidPlace
<1> QED BY <1>4, <1>5 DEF AsCall, ShareRequest, Disclosure

\* A set of positions has a least one and a greatest one.
LEMMA LeastPosition ==
    ASSUME NEW T \in SUBSET Nat, T # {}
    PROVE  \E n \in T : \A m \in T : n <= m
<1> DEFINE R == {p \in Nat \X Nat : p[1] < p[2]}
<1>1. R = OpToRel(<, Nat)
  BY Zenon DEF OpToRel
<1>2. IsWellFoundedOn(R, Nat)
  BY <1>1, NatLessThanWellFounded, Zenon
<1> HIDE DEF R
<1>3. \E x \in T : \A y \in T : ~(<<y, x>> \in R)
  BY <1>2, WFMin, Zenon
<1>4. \A x, y \in Nat : y < x => <<y, x>> \in R
  BY DEF R
<1>5. PICK x \in T : \A y \in T : ~(<<y, x>> \in R)
  BY <1>3
<1>6. ASSUME NEW y \in T PROVE x <= y
  <2>1. x \in Nat /\ y \in Nat /\ ~(y < x)
    BY <1>4, <1>5
  <2> QED BY <2>1
<1> QED BY <1>6

LEMMA GreatestPosition ==
    ASSUME NEW b \in Nat, NEW S \in SUBSET (0..b), S # {}
    PROVE  \E n \in S : \A m \in S : m <= n
<1> DEFINE T == {k \in Nat : \E m \in S : k = b - m}
<1>1. \A m \in S : b - m \in T
  OBVIOUS
<1>2. PICK k \in T : \A l \in T : k <= l
  <2>1. T # {} /\ T \in SUBSET Nat
    BY <1>1
  <2> HIDE DEF T
  <2> QED BY <2>1, LeastPosition, Zenon
<1>3. PICK n \in S : k = b - n
  OBVIOUS
<1>4. \A m \in S : b - n <= b - m
  BY <1>1, <1>2, <1>3
<1> QED BY <1>3, <1>4

\* A chain without a gap is counted by its last position.
LEMMA UnbrokenCount ==
    ASSUME NEW S \in AsPositions, Unbroken(S)
    PROVE  S = 0..(Cardinality(S) - 1)
<1>1. CASE S = {}
  BY <1>1, FS_EmptySet
<1>2. CASE S # {}
  <2>1. PICK n \in S : \A m \in S : m <= n
    BY <1>2, AsAssumption, GreatestPosition DEF AsPositions
  <2>2. n \in Nat /\ S \subseteq Nat
    BY AsAssumption DEF AsPositions
  <2>3. S = 0..n
    <3>1. \A m \in S : m \in 0..n
      BY <2>1, <2>2
    <3>2. \A m \in 0..n : m \in S
      BY <2>1, Zenon DEF Unbroken
    <3> QED BY <3>1, <3>2
  <2>4. Cardinality(0..n) = n + 1
    BY <2>2, FS_Interval
  <2> QED BY <2>2, <2>3, <2>4
<1> QED BY <1>1, <1>2

LEMMA PositionsCount ==
    ASSUME NEW S \in AsPositions
    PROVE  IsFiniteSet(S) /\ Cardinality(S) \in AsCount
<1>1. IsFiniteSet(0..MaxPosition) /\ Cardinality(0..MaxPosition) = MaxPosition + 1
  BY AsAssumption, FS_Interval
<1>2. IsFiniteSet(S) /\ Cardinality(S) <= MaxPosition + 1
  BY <1>1, FS_Subset DEF AsPositions
<1>3. Cardinality(S) \in Nat
  BY <1>2, FS_CardinalityType
<1> QED BY <1>2, <1>3, AsAssumption DEF AsCount

LEMMA AsMoves ==
    ASSUME AsInv, NEW c \in AsCalls, NEW w \in AsCall, shareCall' = [shareCall EXCEPT ![c] = w],
           UNCHANGED <<chains, appended, asLive, tenantAllows, disclosed>>, issued' \subseteq issued, Earned(w),
           w.pc \in PaidPlace => /\ w.q = shareCall[c].q
                                 /\ \/ shareCall[c].pc \in PaidPlace
                                    \/ w.q.challenge \in issued /\ w.q.challenge \notin issued',
           \/ asStarted' = asStarted /\ (w.pc # "idle" => shareCall[c].pc # "idle")
           \/ asStarted < MaxAsCalls /\ asStarted' = asStarted + 1
    PROVE  AsInv'
<1>1. AsTyped'
  BY AsAssumption DEF AsInv, AsTyped
<1>2. shareCall'[c] = w /\ \A e \in AsCalls : e # c => shareCall'[e] = shareCall[e]
  BY DEF AsInv, AsTyped
<1>3. AsEarned'
  <2>1. \A e \in AsCalls : Earned(shareCall'[e])
    BY <1>2 DEF AsInv, AsEarned
  <2> QED BY <2>1 DEF AsInv, AsEarned, Earned, WithinKeyScope, Unbroken
<1>4. AsPaid'
  BY <1>2 DEF AsInv, AsPaid
<1>5. AsCounted'
  <2>1. IsFiniteSet(AsActive) /\ Cardinality(AsActive) \in Nat /\ Cardinality(disclosed) \in Nat /\ asStarted \in Nat
    <3>1. IsFiniteSet(AsActive)
      BY AsAssumption, FS_Subset DEF AsActive
    <3> QED BY <3>1, FS_CardinalityType, AsAssumption DEF AsInv, AsCounted, AsTyped
  <2>2. CASE asStarted' = asStarted /\ (w.pc # "idle" => shareCall[c].pc # "idle")
    <3>1. AsActive' \subseteq AsActive
      BY <1>2, <2>2 DEF AsActive
    <3>2. Cardinality(AsActive') \in Nat /\ Cardinality(AsActive') <= Cardinality(AsActive)
      BY <2>1, <3>1, FS_Subset, FS_CardinalityType
    <3> QED BY <2>1, <2>2, <3>2 DEF AsInv, AsCounted
  <2>3. CASE asStarted' = asStarted + 1
    <3>1. AsActive' \subseteq AsActive \cup {c}
      BY <1>2, <2>3 DEF AsActive
    <3>2. IsFiniteSet(AsActive \cup {c}) /\ Cardinality(AsActive \cup {c}) <= Cardinality(AsActive) + 1
      <4>1. /\ IsFiniteSet(AsActive \cup {c})
            /\ \/ Cardinality(AsActive \cup {c}) = Cardinality(AsActive)
               \/ Cardinality(AsActive \cup {c}) = Cardinality(AsActive) + 1
        BY <2>1, FS_AddElement, Zenon
      <4> QED BY <2>1, <4>1
    <3>3. /\ Cardinality(AsActive') \in Nat /\ Cardinality(AsActive \cup {c}) \in Nat
          /\ Cardinality(AsActive') <= Cardinality(AsActive \cup {c})
      BY <3>1, <3>2, FS_Subset, FS_CardinalityType
    <3> QED BY <2>1, <2>3, <3>2, <3>3 DEF AsInv, AsCounted
  <2> QED BY <2>2, <2>3
<1> QED BY <1>1, <1>3, <1>4, <1>5 DEF AsInv

\* A request that ends, or goes to the next place.
LEMMA AsEnds ==
    ASSUME AsInv, NEW c \in AsCalls, AsEnd(c), issued' \subseteq issued,
           UNCHANGED <<chains, appended, asLive, tenantAllows, disclosed, asStarted>>
    PROVE  AsInv'
<1>1. shareCall' = [shareCall EXCEPT ![c] = IdleShare] /\ IdleShare.pc \notin PaidPlace
  BY AsFields DEF AsEnd, PaidPlace
<1> QED BY <1>1, AsFields, AsMoves

LEMMA AsGoes ==
    ASSUME AsInv, NEW c \in AsCalls, NEW pc \in AsPlace, AsGoto(c, pc), shareCall[c].pc # "idle",
           issued' \subseteq issued,
           UNCHANGED <<chains, appended, asLive, tenantAllows, disclosed, asStarted>>,
           pc \in {"signature", "consume"} \cup PaidPlace => shareCall[c].q.requester = shareCall[c].q.key.to,
           pc \in {"entries", "events"} => WithinKeyScope(shareCall[c].q.key, shareCall[c].q.scope),
           pc # "events",
           pc \in PaidPlace => \/ shareCall[c].pc \in PaidPlace
                               \/ shareCall[c].q.challenge \in issued /\ shareCall[c].q.challenge \notin issued'
    PROVE  AsInv'
<1>1. PICK r \in AsCall : r = shareCall[c]
  BY DEF AsInv, AsTyped
<1>2. PICK w \in AsCall : w = [r EXCEPT !.pc = pc] /\ w.pc = pc /\ w.q = r.q
  <2>1. [r EXCEPT !.pc = pc] \in AsCall
    BY DEF AsCall
  <2>2. [r EXCEPT !.pc = pc].pc = pc /\ [r EXCEPT !.pc = pc].q = r.q
    BY DEF AsCall
  <2> QED BY <2>1, <2>2
<1>3. shareCall' = [shareCall EXCEPT ![c] = w]
  BY <1>1, <1>2 DEF AsGoto
<1>4. Earned(w)
  BY <1>1, <1>2 DEF Earned
<1> QED BY <1>1, <1>2, <1>3, <1>4, AsMoves

LEMMA AsChecks ==
    ASSUME AsInv, NEW c \in AsCalls,
           \/ \E q \in ShareRequest : CheckChallenge(c, q)
           \/ VerifyDelegatedKey(c) \/ VerifyRequester(c) \/ ConsumeChallenge(c) \/ CheckScope(c)
           \/ FetchEntries(c) \/ ShareThrows(c)
    PROVE  AsInv'
<1>0. /\ \A p \in {"signature", "consume", "policy", "entries"} : p \in AsPlace
      /\ \A p \in {"idle", "key", "signature", "consume"} : p \notin PaidPlace
      /\ \A p \in {"policy", "entries", "events"} : p \in PaidPlace
  BY DEF AsPlace, PaidPlace
<1>1. CASE \E q \in ShareRequest : CheckChallenge(c, q)
  <2>1. PICK q \in ShareRequest : CheckChallenge(c, q)
    BY <1>1
  <2>2. PICK n \in AsCount : n = IF q.v3 THEN Cardinality(appended[q.scope]) ELSE 0
    <3>1. appended[q.scope] \in AsPositions
      BY AsFields DEF AsInv, AsTyped
    <3>2. Cardinality(appended[q.scope]) \in AsCount /\ 0 \in AsCount
      BY <3>1, PositionsCount, AsAssumption DEF AsCount
    <3> QED BY <3>2
  <2>3. PICK w \in AsCall : w = [pc |-> "key", q |-> q, got |-> {}, checkpoint |-> n] /\ w.pc = "key"
    <3>1. "key" \in AsPlace /\ {} \in AsPositions
      BY DEF AsPlace, AsPositions
    <3>2. [pc |-> "key", q |-> q, got |-> {}, checkpoint |-> n] \in AsCall
      BY <3>1 DEF AsCall
    <3> QED BY <3>2
  <2>4. /\ shareCall' = [shareCall EXCEPT ![c] = w] /\ asStarted < MaxAsCalls /\ asStarted' = asStarted + 1
        /\ UNCHANGED <<chains, appended, asLive, tenantAllows, disclosed>> /\ issued' \subseteq issued
    BY <2>1, <2>2, <2>3 DEF CheckChallenge
  <2>5. Earned(w) /\ w.pc \notin PaidPlace
    BY <2>3 DEF Earned, PaidPlace
  <2> QED BY <2>4, <2>5, AsMoves
<1>2. CASE AsEnd(c) /\ UNCHANGED <<chains, appended, issued, asLive, tenantAllows, disclosed, asStarted>>
  BY <1>2, AsEnds
<1>3. CASE VerifyDelegatedKey(c)
  <2>1. CASE AsGoto(c, "signature") /\ shareCall[c].q.key.to = shareCall[c].q.requester
    BY <1>0, <1>3, <2>1, AsGoes DEF VerifyDelegatedKey
  <2> QED BY <1>2, <1>3, <2>1 DEF VerifyDelegatedKey
<1>4. CASE VerifyRequester(c)
  <2>1. CASE AsGoto(c, "consume")
    <3>1. shareCall[c].pc = "signature" /\ shareCall[c].q.requester = shareCall[c].q.key.to
      BY <1>4 DEF VerifyRequester, AsInv, AsEarned, Earned
    <3> QED BY <1>0, <1>4, <2>1, <3>1, AsGoes DEF VerifyRequester
  <2> QED BY <1>2, <1>4, <2>1 DEF VerifyRequester
<1>5. CASE ConsumeChallenge(c)
  <2>1. CASE AsGoto(c, "policy") /\ shareCall[c].q.challenge \in issued
    <3>1. /\ shareCall[c].pc = "consume" /\ shareCall[c].q.requester = shareCall[c].q.key.to
          /\ issued' = issued \ {shareCall[c].q.challenge}
      BY <1>5 DEF ConsumeChallenge, AsInv, AsEarned, Earned
    <3> QED BY <1>0, <1>5, <2>1, <3>1, AsGoes DEF ConsumeChallenge
  <2>2. CASE AsEnd(c)
    BY <1>5, <2>2, AsEnds DEF ConsumeChallenge
  <2> QED BY <1>5, <2>1, <2>2 DEF ConsumeChallenge, Outstanding
<1>6. CASE CheckScope(c)
  <2>1. CASE AsGoto(c, "entries") /\ WithinKeyScope(shareCall[c].q.key, shareCall[c].q.scope)
    <3>1. shareCall[c].pc = "policy" /\ shareCall[c].q.requester = shareCall[c].q.key.to
      BY <1>6 DEF CheckScope, AsInv, AsEarned, Earned, PaidPlace
    <3> QED BY <1>0, <1>6, <2>1, <3>1, AsGoes DEF CheckScope
  <2> QED BY <1>2, <1>6, <2>1 DEF CheckScope
<1>7. CASE FetchEntries(c)
  <2> DEFINE got == chains[shareCall[c].q.scope]
  <2>1. CASE /\ Unbroken(got)
             /\ shareCall' = [shareCall EXCEPT ![c] =
                    [pc |-> "events", q |-> @.q, checkpoint |-> @.checkpoint, got |-> got]]
    <3>1. PICK r \in AsCall : r = shareCall[c] /\ r.pc = "entries" /\ Earned(r) /\ r.q \in ShareRequest
                              /\ r.checkpoint \in AsCount
      BY <1>7, AsFields DEF FetchEntries, AsInv, AsTyped, AsEarned
    <3>2. got \in AsPositions /\ "events" \in AsPlace
      BY <3>1, AsFields DEF AsInv, AsTyped, AsPlace
    <3>3. PICK w \in AsCall : /\ w = [pc |-> "events", q |-> r.q, checkpoint |-> r.checkpoint, got |-> got]
                              /\ w.pc = "events" /\ w.q = r.q /\ w.got = got
      <4> HIDE DEF got
      <4>1. [pc |-> "events", q |-> r.q, checkpoint |-> r.checkpoint, got |-> got] \in AsCall
        BY <3>1, <3>2 DEF AsCall
      <4> QED BY <4>1
    <3>4. shareCall' = [shareCall EXCEPT ![c] = w]
      BY <2>1, <3>1, <3>3
    <3>5. Earned(w)
      BY <2>1, <3>1, <3>3 DEF Earned, PaidPlace
    <3> QED BY <1>0, <1>7, <3>1, <3>3, <3>4, <3>5, AsMoves DEF FetchEntries
  <2> QED BY <1>2, <1>7, <2>1 DEF FetchEntries
<1>8. ShareThrows(c) => <1>2!1
  BY DEF ShareThrows
<1> QED BY <1>1, <1>2, <1>3, <1>4, <1>5, <1>6, <1>7, <1>8

LEMMA AsDiscloses ==
    ASSUME AsInv, NEW c \in AsCalls, Disclose(c)
    PROVE  AsInv'
<1> DEFINE r == shareCall[c]
           d == [q |-> r.q, positions |-> r.got, checkpoint |-> r.checkpoint, n |-> Cardinality(disclosed) + 1]
<1>1. CASE UNCHANGED disclosed
  <2>1. AsEnd(c) /\ UNCHANGED <<chains, appended, issued, asLive, tenantAllows, disclosed, asStarted>>
    BY <1>1 DEF Disclose
  <2> QED BY <2>1, AsEnds
<1>2. CASE /\ r.q.v3 => Unbroken(r.got) /\ TailMatches(c)
           /\ disclosed' = disclosed \cup {d}
  <2>1. /\ r \in AsCall /\ r.pc = "events" /\ r.q \in ShareRequest /\ r.got \in AsPositions
        /\ r.checkpoint \in AsCount /\ Earned(r) /\ r.pc \in PaidPlace
    BY AsFields DEF Disclose, AsInv, AsTyped, AsEarned, PaidPlace
  <2>2. /\ shareCall' = [shareCall EXCEPT ![c] = IdleShare]
        /\ UNCHANGED <<chains, appended, issued, asLive, tenantAllows, asStarted>>
    BY DEF Disclose, AsEnd
  <2>3. shareCall'[c] = IdleShare /\ \A e \in AsCalls : e # c => shareCall'[e] = shareCall[e]
    BY <2>2 DEF AsInv, AsTyped
  <2>4. /\ IsFiniteSet(AsActive) /\ Cardinality(AsActive) \in Nat /\ c \in AsActive
        /\ Cardinality(disclosed) \in Nat /\ asStarted \in Nat
    <3>1. IsFiniteSet(AsActive)
      BY AsAssumption, FS_Subset DEF AsActive
    <3> QED BY <2>1, <3>1, FS_CardinalityType, AsAssumption DEF AsInv, AsCounted, AsTyped, AsActive
  <2>5. Cardinality(AsActive \ {c}) = Cardinality(AsActive) - 1 /\ Cardinality(AsActive \ {c}) \in Nat
    <3>1. IsFiniteSet(AsActive \ {c}) /\ Cardinality(AsActive \ {c}) = Cardinality(AsActive) - 1
      BY <2>4, FS_RemoveElement, Zenon
    <3> QED BY <3>1, FS_CardinalityType
  <2>6. AsActive' = AsActive \ {c}
    BY <2>3, AsFields DEF AsActive
  <2>7. d \in Disclosure
    <3>1. Cardinality(disclosed) + 1 \in 1..MaxAsCalls
      BY <2>4, <2>5, AsAssumption DEF AsInv, AsCounted, AsTyped
    <3> HIDE DEF r
    <3> QED BY <2>1, <3>1 DEF Disclosure, AsPositions, AsCount
  <2>8. d.q = r.q /\ d.positions = r.got /\ d.checkpoint = r.checkpoint
    OBVIOUS
  <2> HIDE DEF d, r
  <2>9. AsTyped'
    BY <1>2, <2>2, <2>7, AsFields DEF AsInv, AsTyped
  <2>10. AsCounted'
    <3>1. IsFiniteSet(disclosed \cup {d}) /\ Cardinality(disclosed \cup {d}) \in Nat
          /\ (\/ Cardinality(disclosed \cup {d}) = Cardinality(disclosed)
              \/ Cardinality(disclosed \cup {d}) = Cardinality(disclosed) + 1)
      BY FS_AddElement, FS_CardinalityType, Zenon DEF AsInv, AsCounted
    <3> QED BY <1>2, <2>2, <2>4, <2>5, <2>6, <3>1 DEF AsInv, AsCounted
  <2>11. AsPaid'
    <3>1. \A e \in AsCalls : shareCall'[e].pc \in PaidPlace => e # c /\ shareCall[e].pc \in PaidPlace /\ shareCall'[e] = shareCall[e]
      BY <2>3, AsFields DEF PaidPlace
    <3>2. /\ d.q.challenge \notin issued
          /\ \A e \in AsCalls : e # c /\ shareCall[e].pc \in PaidPlace => shareCall[e].q.challenge # d.q.challenge
          /\ \A f \in disclosed : f.q.challenge # d.q.challenge
      BY <2>1, <2>8 DEF AsInv, AsPaid, r
    <3> QED BY <1>2, <2>2, <3>1, <3>2 DEF AsInv, AsPaid
  <2>12. AsEarned'
    <3>1. \A e \in AsCalls : Earned(shareCall'[e])
      BY <2>3, AsFields DEF AsInv, AsEarned
    <3>2. d.q.requester = d.q.key.to /\ WithinKeyScope(d.q.key, d.q.scope) /\ Unbroken(d.positions)
      BY <2>1, <2>8 DEF Earned
    <3>3. d.q.v3 => d.positions = 0..(d.checkpoint - 1) /\ d.checkpoint > 0
      <4>1. Unbroken(r.got) => r.got = 0..(Cardinality(r.got) - 1)
        BY <2>1, UnbrokenCount
      <4>2. d.q.v3 => r.got # {} /\ Cardinality(r.got) = r.checkpoint /\ Unbroken(r.got)
        BY <1>2, <2>8 DEF TailMatches, r
      <4>3. r.checkpoint \in Nat
        BY <2>1, AsAssumption DEF AsCount
      <4> QED BY <2>8, <4>1, <4>2, <4>3
    <3> QED BY <1>2, <3>1, <3>2, <3>3 DEF AsInv, AsEarned
  <2> QED BY <2>9, <2>10, <2>11, <2>12 DEF AsInv
<1>3. <1>1!1 \/ <1>2!1
  BY DEF Disclose
<1> QED BY <1>1, <1>2, <1>3

\* Entries, challenges, keys and policies come and go around the requests.
LEMMA AsAround ==
    ASSUME AsInv,
           \/ \E s \in AsScopes : \/ AppendEntry(s) \/ WithdrawPolicy(s)
                                  \/ \E i \in 0..MaxPosition : CutEntry(s, i)
           \/ \E x \in AsChallenges : IssueChallenge(x)
           \/ \E k \in AsKeys : KeyEnds(k)
           \/ UNCHANGED asVars
    PROVE  AsInv'
<1>1. UNCHANGED <<shareCall, disclosed, asStarted>>
  BY DEF AppendEntry, WithdrawPolicy, CutEntry, IssueChallenge, KeyEnds, asVars
<1>2. AsCounted'
  BY <1>1 DEF AsInv, AsCounted, AsActive
<1>3. AsEarned'
  BY <1>1 DEF AsInv, AsEarned, Earned, WithinKeyScope, Unbroken
<1>4. AsTyped'
  <2>1. ASSUME NEW s \in AsScopes, AppendEntry(s)
        PROVE  chains' \in [AsScopes -> AsPositions] /\ appended' \in [AsScopes -> AsPositions]
    <3>1. Cardinality(appended[s]) \in 0..MaxPosition
      BY <2>1, PositionsCount, AsAssumption DEF AppendEntry, AsInv, AsTyped, AsCount
    <3>2. chains[s] \cup {Cardinality(appended[s])} \in AsPositions /\ appended[s] \cup {Cardinality(appended[s])} \in AsPositions
      BY <3>1 DEF AsInv, AsTyped, AsPositions
    <3> QED BY <2>1, <3>2 DEF AppendEntry, AsInv, AsTyped
  <2>2. ASSUME NEW s \in AsScopes, NEW i \in 0..MaxPosition, CutEntry(s, i)
        PROVE  chains' \in [AsScopes -> AsPositions] /\ UNCHANGED appended
    <3>1. chains[s] \ {i} \in AsPositions
      BY DEF AsInv, AsTyped, AsPositions
    <3> QED BY <2>2, <3>1 DEF CutEntry, AsInv, AsTyped
  <2>3. chains' \in [AsScopes -> AsPositions] /\ appended' \in [AsScopes -> AsPositions]
    BY <2>1, <2>2 DEF WithdrawPolicy, IssueChallenge, KeyEnds, asVars, AsInv, AsTyped
  <2>4. issued' \subseteq AsChallenges /\ asLive' \subseteq AsKeys /\ tenantAllows' \subseteq AsScopes
    BY DEF AppendEntry, WithdrawPolicy, CutEntry, IssueChallenge, KeyEnds, asVars, AsInv, AsTyped
  <2> QED BY <1>1, <2>3, <2>4 DEF AsInv, AsTyped
<1>5. AsPaid'
  <2>1. ASSUME NEW x \in issued', x \notin issued
        PROVE  /\ \A d \in disclosed : d.q.challenge # x
               /\ \A c \in AsCalls : shareCall[c].pc \in PaidPlace => shareCall[c].q.challenge # x
    BY <2>1 DEF AppendEntry, WithdrawPolicy, CutEntry, IssueChallenge, KeyEnds, asVars, PaidPlace
  <2> QED BY <1>1, <2>1 DEF AsInv, AsPaid
<1> QED BY <1>2, <1>3, <1>4, <1>5 DEF AsInv

LEMMA AsStep == AsInv /\ [AsNext]_asVars => AsInv'
  BY AsChecks, AsDiscloses, AsAround DEF AsNext

LEMMA AsStart == AsInit => AsInv
<1> SUFFICES ASSUME AsInit PROVE AsInv
  OBVIOUS
<1>1. AsTyped
  <2>1. {} \in AsPositions
    BY DEF AsPositions
  <2> QED BY <2>1, AsAssumption, AsFields DEF AsInit, AsTyped
<1>2. AsCounted
  <2>1. AsActive = {}
    BY AsFields DEF AsInit, AsActive
  <2> QED BY <2>1, FS_EmptySet DEF AsInit, AsCounted
<1>3. AsPaid /\ AsEarned
  BY AsFields DEF AsInit, AsPaid, AsEarned, PaidPlace
<1> QED BY <1>1, <1>2, <1>3 DEF AsInv

LEMMA AsConcludes == AsInv => AsTypeOK /\ OneDisclosurePerChallenge /\ CheckpointedChainsAreWhole
<1> SUFFICES ASSUME AsInv PROVE AsTypeOK /\ OneDisclosurePerChallenge /\ CheckpointedChainsAreWhole
  OBVIOUS
<1>1. AsTypeOK
  <2>1. \A c \in AsCalls : /\ shareCall[c].pc \in AsPlace /\ shareCall[c].q \in ShareRequest
                           /\ shareCall[c].checkpoint \in AsCount /\ shareCall[c].got \in AsPositions
    BY AsFields DEF AsInv, AsTyped
  <2> QED BY <2>1 DEF AsInv, AsTyped, AsTypeOK, AsPlace, AsCount, AsPositions
<1>2. OneDisclosurePerChallenge /\ CheckpointedChainsAreWhole
  BY DEF AsInv, AsPaid, AsEarned, OneDisclosurePerChallenge, CheckpointedChainsAreWhole
<1> QED BY <1>1, <1>2

-----------------------------------------------------------------------------
(* SessionCrypto: the handles of an end, what was sealed under them and    *)
(* what was opened.                                                        *)

ScToken == ScTokens \cup {NullToken}
ScKey == [root : Nat, gen : Nat]
HandleState == {"ACTIVE", "PENDING_REKEY", "CLOSED"}
ScHandle == [key : ScKey, token : ScToken, state : HandleState, next : Nat, zeroized : BOOLEAN]
ScEntry == [current : Nat, previous : Nat]
ScBody == [from : ScEnds, key : ScKey, seq : Nat, token : ScToken]

\* The handles hs, the entry en, the timers tm and the age sw of the window of one end: keys are
\* never derived twice, the current one is the newest, what the entry lets go of is closed, and a
\* timer runs exactly while the current handle waits for it.
EndHolds(hs, en, tm, sw) ==
    /\ \A i, j \in 1..Len(hs) : i # j => hs[i].key # hs[j].key
    /\ en.current = 0 => en.previous = 0 /\ tm = {}
    /\ en.current # 0 =>
         /\ en.current = Len(hs) /\ en.previous < en.current
         /\ \A i \in 1..Len(hs) : hs[i].key.root = hs[en.current].key.root
                                  => hs[i].key.gen <= hs[en.current].key.gen
         /\ hs[en.current].state = "PENDING_REKEY" => tm = {sw}
         /\ hs[en.current].state # "PENDING_REKEY" => tm = {} /\ en.previous = 0
         /\ hs[en.current].state = "ACTIVE" /\ hs[en.current].key.gen > 0 => sw >= ScWindow
    /\ \A i \in 1..Len(hs) : /\ hs[i].zeroized <=> (i # en.current /\ i # en.previous)
                             /\ hs[i].zeroized <=> hs[i].state = "CLOSED"

ScTyped ==
    /\ agreed \in Seq(ScToken) /\ handles \in [ScEnds -> Seq(ScHandle)]
    /\ entry \in [ScEnds -> ScEntry] /\ timers \in [ScEnds -> SUBSET (0..MaxScTime)]
    /\ swapped \in [ScEnds -> 0..MaxScTime] /\ sealed \in Seq(ScBody) /\ Len(sealed) <= MaxSealed
    /\ opened \in [ScEnds -> Seq(Nat)] /\ DOMAIN seen = ScEnds
    /\ \A e \in ScEnds : \A k \in DOMAIN seen[e] : seen[e][k] \in Nat

ScHandles == \A e \in ScEnds : EndHolds(handles[e], entry[e], timers[e], swapped[e])

\* A handle has numbered what was sealed under its key, in order.
ScNumbered ==
    /\ \A e \in ScEnds : \A i \in 1..Len(handles[e]) : handles[e][i].next <= Len(sealed)
    /\ \A n \in 1..Len(sealed) : \E i \in 1..Len(handles[sealed[n].from]) :
          /\ handles[sealed[n].from][i].key = sealed[n].key
          /\ sealed[n].seq < handles[sealed[n].from][i].next
    /\ \A m, n \in 1..Len(sealed) :
          m < n /\ sealed[m].from = sealed[n].from /\ sealed[m].key = sealed[n].key => sealed[m].seq < sealed[n].seq

\* What was opened under a key is what the tracker has passed.
ScTracked ==
    \A e \in ScEnds :
      /\ \A i \in 1..Len(opened[e]) :
            /\ opened[e][i] \in 1..Len(sealed) /\ sealed[opened[e][i]].from = ScPeer(e)
            /\ sealed[opened[e][i]].key \in DOMAIN seen[e]
            /\ sealed[opened[e][i]].seq <= seen[e][sealed[opened[e][i]].key]
      /\ \A i, j \in 1..Len(opened[e]) :
            i < j /\ sealed[opened[e][i]].key = sealed[opened[e][j]].key => opened[e][i] < opened[e][j]

ScInv == ScTyped /\ ScHandles /\ ScNumbered /\ ScTracked

\* Fields of handles and what zeroize and encrypt change of them.
LEMMA HandleFields ==
    /\ \A h \in ScHandle : /\ h.key \in ScKey /\ h.token \in ScToken /\ h.state \in HandleState
                           /\ h.next \in Nat /\ h.zeroized \in BOOLEAN
    /\ \A k \in ScKey : k.root \in Nat /\ k.gen \in Nat
    /\ \A en \in ScEntry : en.current \in Nat /\ en.previous \in Nat
  BY DEF ScHandle, ScKey, ScEntry

LEMMA ZeroizedFields ==
    ASSUME NEW h \in ScHandle
    PROVE  /\ Zeroized(h) \in ScHandle /\ Zeroized(h).key = h.key /\ Zeroized(h).next = h.next
           /\ Zeroized(h).zeroized = TRUE /\ Zeroized(h).state = "CLOSED"
<1>1. PICK g \in ScHandle : /\ g = [h EXCEPT !.zeroized = TRUE] /\ g.key = h.key /\ g.next = h.next
                            /\ g.zeroized = TRUE
  <2>1. [h EXCEPT !.zeroized = TRUE] \in ScHandle
    BY DEF ScHandle
  <2>2. /\ [h EXCEPT !.zeroized = TRUE].key = h.key /\ [h EXCEPT !.zeroized = TRUE].next = h.next
        /\ [h EXCEPT !.zeroized = TRUE].zeroized = TRUE
    BY DEF ScHandle
  <2> QED BY <2>1, <2>2
<1>2. PICK f \in ScHandle : /\ f = [g EXCEPT !.state = "CLOSED"] /\ f.key = h.key /\ f.next = h.next
                            /\ f.zeroized = TRUE /\ f.state = "CLOSED"
  <2>1. "CLOSED" \in HandleState
    BY DEF HandleState
  <2>2. [g EXCEPT !.state = "CLOSED"] \in ScHandle
    BY <2>1 DEF ScHandle
  <2>3. /\ [g EXCEPT !.state = "CLOSED"].key = g.key /\ [g EXCEPT !.state = "CLOSED"].next = g.next
        /\ [g EXCEPT !.state = "CLOSED"].zeroized = g.zeroized /\ [g EXCEPT !.state = "CLOSED"].state = "CLOSED"
    BY DEF ScHandle
  <2> QED BY <1>1, <2>2, <2>3
<1>3. Zeroized(h) = f
  BY <1>1, <1>2 DEF Zeroized
<1> QED BY <1>2, <1>3

LEMMA HandlePut ==
    ASSUME NEW h \in ScHandle
    PROVE  /\ \A s \in HandleState :
                 /\ [h EXCEPT !.state = s] \in ScHandle /\ [h EXCEPT !.state = s].key = h.key
                 /\ [h EXCEPT !.state = s].next = h.next /\ [h EXCEPT !.state = s].zeroized = h.zeroized
                 /\ [h EXCEPT !.state = s].state = s
           /\ \A n \in Nat :
                 /\ [h EXCEPT !.next = n] \in ScHandle /\ [h EXCEPT !.next = n].key = h.key
                 /\ [h EXCEPT !.next = n].next = n /\ [h EXCEPT !.next = n].zeroized = h.zeroized
                 /\ [h EXCEPT !.next = n].state = h.state
  BY Zenon DEF ScHandle

\* An end that makes, swaps or closes handles and seals nothing.
LEMMA ScChanges ==
    ASSUME ScInv, NEW e \in ScEnds, NEW hs \in Seq(ScHandle), NEW en \in ScEntry,
           NEW tm \in SUBSET (0..MaxScTime), NEW sw \in 0..MaxScTime,
           handles' = [handles EXCEPT ![e] = hs], entry' = [entry EXCEPT ![e] = en],
           timers' = [timers EXCEPT ![e] = tm], swapped' = [swapped EXCEPT ![e] = sw],
           UNCHANGED <<agreed, seen, sealed, opened>>,
           Len(handles[e]) <= Len(hs),
           \A i \in 1..Len(handles[e]) : hs[i].key = handles[e][i].key /\ hs[i].next = handles[e][i].next,
           \A i \in 1..Len(hs) : i \notin 1..Len(handles[e]) => hs[i].next = 0,
           EndHolds(hs, en, tm, sw)
    PROVE  ScInv'
<1>1. ScTyped'
  BY DEF ScInv, ScTyped
<1>2. /\ handles'[e] = hs /\ entry'[e] = en /\ timers'[e] = tm /\ swapped'[e] = sw
      /\ \A f \in ScEnds : f # e => /\ handles'[f] = handles[f] /\ entry'[f] = entry[f]
                                    /\ timers'[f] = timers[f] /\ swapped'[f] = swapped[f]
  BY DEF ScInv, ScTyped
<1>3. ScHandles'
  <2>1. \A f \in ScEnds : EndHolds(handles'[f], entry'[f], timers'[f], swapped'[f])
    BY <1>2, Zenon DEF ScInv, ScHandles
  <2> QED BY <2>1, Zenon DEF ScHandles, EndHolds
<1>4. Len(hs) \in Nat /\ Len(sealed) \in Nat /\ \A f \in ScEnds : Len(handles[f]) \in Nat
  BY DEF ScInv, ScTyped
<1>5. \A n \in 1..Len(sealed) : sealed[n].from \in ScEnds
  <2>1. \A n \in 1..Len(sealed) : sealed[n] \in ScBody
    BY DEF ScInv, ScTyped
  <2> QED BY <2>1 DEF ScBody
<1>6. ScNumbered'
  <2>1. \A f \in ScEnds : \A i \in 1..Len(handles'[f]) : handles'[f][i].next <= Len(sealed)
    BY <1>2, <1>4 DEF ScInv, ScNumbered
  <2>2. ASSUME NEW n \in 1..Len(sealed)
        PROVE  \E i \in 1..Len(handles'[sealed[n].from]) :
                  /\ handles'[sealed[n].from][i].key = sealed[n].key
                  /\ sealed[n].seq < handles'[sealed[n].from][i].next
    <3>1. PICK i \in 1..Len(handles[sealed[n].from]) :
                  /\ handles[sealed[n].from][i].key = sealed[n].key
                  /\ sealed[n].seq < handles[sealed[n].from][i].next
      BY DEF ScInv, ScNumbered
    <3> QED BY <1>2, <1>4, <1>5, <3>1
  <2> QED BY <2>1, <2>2 DEF ScInv, ScNumbered
<1>7. ScTracked'
  BY DEF ScInv, ScTracked
<1> QED BY <1>1, <1>3, <1>6, <1>7 DEF ScInv

\* What is known of one end.
LEMMA ScEnd ==
    ASSUME ScInv, NEW e \in ScEnds
    PROVE  /\ handles[e] \in Seq(ScHandle) /\ entry[e] \in ScEntry /\ timers[e] \in SUBSET (0..MaxScTime)
           /\ swapped[e] \in 0..MaxScTime /\ EndHolds(handles[e], entry[e], timers[e], swapped[e])
           /\ Len(handles[e]) \in Nat /\ entry[e].current \in Nat /\ entry[e].previous \in Nat
           /\ \A i \in 1..Len(handles[e]) : handles[e][i] \in ScHandle
           /\ Registered(e) => /\ entry[e].current \in 1..Len(handles[e]) /\ Current(e) \in ScHandle
                               /\ Current(e).state \in {"ACTIVE", "PENDING_REKEY"}
<1>1. /\ handles[e] \in Seq(ScHandle) /\ entry[e] \in ScEntry /\ timers[e] \in SUBSET (0..MaxScTime)
      /\ swapped[e] \in 0..MaxScTime /\ EndHolds(handles[e], entry[e], timers[e], swapped[e])
      /\ Len(handles[e]) \in Nat
  BY DEF ScInv, ScTyped, ScHandles
<1>2. entry[e].current \in Nat /\ entry[e].previous \in Nat
  BY <1>1, HandleFields
<1>3. \A i \in 1..Len(handles[e]) : handles[e][i] \in ScHandle
  BY <1>1
<1>4. ASSUME Registered(e)
      PROVE  /\ entry[e].current \in 1..Len(handles[e]) /\ Current(e) \in ScHandle
             /\ Current(e).state \in {"ACTIVE", "PENDING_REKEY"}
  <2>1. entry[e].current \in 1..Len(handles[e])
    BY <1>1, <1>2, <1>4 DEF Registered, EndHolds
  <2>2. Current(e) \in ScHandle /\ Current(e).state # "CLOSED"
    BY <1>1, <1>3, <2>1 DEF Current, EndHolds
  <2> QED BY <2>1, <2>2, HandleFields DEF HandleState
<1> QED BY <1>1, <1>2, <1>3, <1>4

LEMMA ScCreates ==
    ASSUME ScInv, NEW e \in ScEnds, NEW r \in 1..Len(agreed), CreateSession(e, r)
    PROVE  ScInv'
<1> DEFINE h == NewHandle([root |-> r, gen |-> 0], agreed[r], "ACTIVE")
           hs == Append(handles[e], h)
           en == [current |-> Len(handles[e]) + 1, previous |-> 0]
<1>0. r \in Nat /\ agreed[r] \in ScToken
  BY DEF ScInv, ScTyped
<1>1. /\ h \in ScHandle /\ h.state = "ACTIVE" /\ h.next = 0 /\ h.zeroized = FALSE
      /\ h.key.root = r /\ h.key.gen = 0
  BY <1>0 DEF NewHandle, ScHandle, ScKey, HandleState
<1>2. /\ entry[e].current = 0 /\ entry[e].previous = 0 /\ timers[e] = {} /\ Len(handles[e]) \in Nat
      /\ \A i \in 1..Len(handles[e]) : handles[e][i].key.root # r
  BY ScEnd DEF CreateSession, Registered, Underived, EndHolds
<1>3. /\ handles' = [handles EXCEPT ![e] = hs] /\ entry' = [entry EXCEPT ![e] = en]
      /\ timers' = [timers EXCEPT ![e] = timers[e]] /\ swapped' = [swapped EXCEPT ![e] = swapped[e]]
      /\ UNCHANGED <<agreed, seen, sealed, opened>>
  BY DEF CreateSession, ScInv, ScTyped
<1> HIDE DEF h
<1>4. /\ hs \in Seq(ScHandle) /\ Len(hs) = Len(handles[e]) + 1 /\ hs[Len(handles[e]) + 1] = h
      /\ \A i \in 1..Len(handles[e]) : hs[i] = handles[e][i]
  BY <1>1, ScEnd
<1>5. en \in ScEntry /\ en.current = Len(handles[e]) + 1 /\ en.previous = 0
  BY <1>2 DEF ScEntry
<1> HIDE DEF hs, en
<1>6. EndHolds(hs, en, timers[e], swapped[e])
  <2> DEFINE n == Len(handles[e])
  <2>0. 1..Len(hs) = 1..n \cup {n + 1} /\ n + 1 \notin 1..n /\ n \in Nat
    BY <1>2, <1>4
  <2>1. \A i, j \in 1..Len(hs) : i # j => hs[i].key # hs[j].key
    <3>1. \A i, j \in 1..n : i # j => hs[i].key # hs[j].key
      BY <1>4, ScEnd DEF EndHolds
    <3>2. \A i \in 1..n : hs[i].key # hs[n + 1].key
      BY <1>1, <1>2, <1>4
    <3> QED BY <2>0, <3>1, <3>2
  <2>2. \A i \in 1..Len(hs) : hs[i].key.root = hs[en.current].key.root => hs[i].key.gen <= hs[en.current].key.gen
    BY <1>1, <1>2, <1>4, <1>5, <2>0
  <2>3. \A i \in 1..Len(hs) : /\ hs[i].zeroized <=> (i # en.current /\ i # en.previous)
                              /\ hs[i].zeroized <=> hs[i].state = "CLOSED"
    <3>1. \A i \in 1..n : /\ hs[i].zeroized <=> (i # en.current /\ i # en.previous)
                          /\ hs[i].zeroized <=> hs[i].state = "CLOSED"
      <4>1. \A i \in 1..n : /\ handles[e][i].zeroized <=> (i # 0 /\ i # 0)
                            /\ handles[e][i].zeroized <=> handles[e][i].state = "CLOSED"
        BY <1>2, ScEnd DEF EndHolds
      <4> QED BY <1>4, <1>5, <2>0, <4>1
    <3> QED BY <1>1, <1>4, <1>5, <2>0, <3>1
  <2> QED BY <1>1, <1>2, <1>4, <1>5, <2>0, <2>1, <2>2, <2>3 DEF EndHolds
<1>7. /\ Len(handles[e]) <= Len(hs)
      /\ \A i \in 1..Len(hs) : i \notin 1..Len(handles[e]) => hs[i].next = 0
  BY <1>1, <1>2, <1>4
<1> QED BY <1>3, <1>4, <1>5, <1>6, <1>7, ScEnd, ScChanges

LEMMA ScSwaps ==
    ASSUME ScInv, NEW e \in ScEnds, NEW key \in ScKey, SwapForDualKey(e, key),
           \A i \in 1..Len(handles[e]) :
               handles[e][i].key # key /\ (handles[e][i].key.root = key.root => handles[e][i].key.gen <= key.gen)
    PROVE  ScInv'
<1> DEFINE h == NewHandle(key, Current(e).token, "PENDING_REKEY")
           hs == Append(handles[e], h)
           en == [current |-> Len(handles[e]) + 1, previous |-> entry[e].current]
           n == Len(handles[e])
<1>0. /\ Registered(e) /\ Current(e) \in ScHandle /\ Current(e).state = "ACTIVE" /\ Current(e).token \in ScToken
      /\ entry[e].current = n /\ n \in Nat \ {0} /\ entry[e].previous = 0 /\ timers[e] = {}
  <2>1. Registered(e) /\ Current(e).state # "PENDING_REKEY"
    BY DEF SwapForDualKey, MaySwap
  <2>2. Current(e) \in ScHandle /\ Current(e).state = "ACTIVE" /\ entry[e].current \in 1..n
    BY <2>1, ScEnd
  <2>3. Current(e).token \in ScToken
    BY <2>2, HandleFields
  <2>4. entry[e].current = n /\ entry[e].previous = 0 /\ timers[e] = {}
    BY <2>1, ScEnd DEF EndHolds, Registered, Current
  <2> QED BY <2>1, <2>2, <2>3, <2>4, ScEnd
<1>1. h \in ScHandle /\ h.state = "PENDING_REKEY" /\ h.next = 0 /\ h.zeroized = FALSE /\ h.key = key
  BY <1>0 DEF NewHandle, ScHandle, HandleState
<1>3. /\ handles' = [handles EXCEPT ![e] = hs] /\ entry' = [entry EXCEPT ![e] = en]
      /\ timers' = [timers EXCEPT ![e] = {0}] /\ swapped' = [swapped EXCEPT ![e] = 0]
      /\ UNCHANGED <<agreed, seen, sealed, opened>>
  <2>1. timers[e] \cup {0} = {0}
    BY <1>0
  <2> QED BY <2>1 DEF SwapForDualKey
<1> HIDE DEF h
<1>4. /\ hs \in Seq(ScHandle) /\ Len(hs) = n + 1 /\ hs[n + 1] = h
      /\ \A i \in 1..n : hs[i] = handles[e][i]
  BY <1>1, ScEnd
<1>5. en \in ScEntry /\ en.current = n + 1 /\ en.previous = n
  BY <1>0 DEF ScEntry
<1> HIDE DEF hs, en
<1>6. EndHolds(hs, en, {0}, 0)
  <2>0. 1..Len(hs) = 1..n \cup {n + 1} /\ n + 1 \notin 1..n /\ n \in Nat
    BY <1>0, <1>4
  <2>1. \A i, j \in 1..Len(hs) : i # j => hs[i].key # hs[j].key
    <3>1. \A i, j \in 1..n : i # j => hs[i].key # hs[j].key
      BY <1>4, ScEnd DEF EndHolds
    <3>2. \A i \in 1..n : hs[i].key # hs[n + 1].key
      BY <1>1, <1>4
    <3> QED BY <2>0, <3>1, <3>2
  <2>2. \A i \in 1..Len(hs) : hs[i].key.root = hs[en.current].key.root => hs[i].key.gen <= hs[en.current].key.gen
    <3>1. key.gen \in Nat
      BY HandleFields
    <3> QED BY <1>1, <1>4, <1>5, <2>0, <3>1
  <2>3. \A i \in 1..Len(hs) : /\ hs[i].zeroized <=> (i # en.current /\ i # en.previous)
                              /\ hs[i].zeroized <=> hs[i].state = "CLOSED"
    <3>1. \A i \in 1..n : /\ hs[i].zeroized <=> (i # en.current /\ i # en.previous)
                          /\ hs[i].zeroized <=> hs[i].state = "CLOSED"
      <4>1. \A i \in 1..n : /\ handles[e][i].zeroized <=> (i # n /\ i # 0)
                            /\ handles[e][i].zeroized <=> handles[e][i].state = "CLOSED"
        BY <1>0, ScEnd DEF EndHolds
      <4> QED BY <1>4, <1>5, <2>0, <4>1
    <3> QED BY <1>1, <1>4, <1>5, <2>0, <3>1
  <2>4. hs[en.current].state = "PENDING_REKEY" /\ en.current = Len(hs) /\ en.previous < en.current
    BY <1>0, <1>1, <1>4, <1>5
  <2> QED BY <1>5, <2>0, <2>1, <2>2, <2>3, <2>4 DEF EndHolds
<1>7. /\ Len(handles[e]) <= Len(hs) /\ 0 \in 0..MaxScTime
      /\ \A i \in 1..Len(hs) : i \notin 1..Len(handles[e]) => hs[i].next = 0
  BY <1>0, <1>1, <1>4, ScAssumption
<1>8. {0} \in SUBSET (0..MaxScTime)
  BY <1>7
<1> QED BY <1>3, <1>4, <1>5, <1>6, <1>7, <1>8, ScChanges

LEMMA ScRekeys ==
    ASSUME ScInv, NEW e \in ScEnds, ChainRekey(e) \/ \E r \in 1..Len(agreed) : FullRekey(e, r)
    PROVE  ScInv'
<1>0. /\ Registered(e) /\ Current(e) \in ScHandle
      /\ Current(e).key \in ScKey /\ Current(e).key.root \in Nat /\ Current(e).key.gen \in Nat
      /\ \A i \in 1..Len(handles[e]) :
            /\ handles[e][i].key \in ScKey /\ handles[e][i].key.gen \in Nat
            /\ handles[e][i].key.root = Current(e).key.root => handles[e][i].key.gen <= Current(e).key.gen
  <2>1. Registered(e)
    BY DEF ChainRekey, FullRekey
  <2>2. Current(e) \in ScHandle /\ \A i \in 1..Len(handles[e]) : handles[e][i] \in ScHandle
    BY <2>1, ScEnd
  <2>3. \A i \in 1..Len(handles[e]) :
            handles[e][i].key.root = Current(e).key.root => handles[e][i].key.gen <= Current(e).key.gen
    BY <2>1, ScEnd DEF EndHolds, Current, Registered
  <2> QED BY <2>1, <2>2, <2>3, HandleFields
<1>1. CASE ChainRekey(e)
  <2>1. PICK c \in ScKey : c = Current(e).key
    BY <1>0
  <2>2. PICK k \in ScKey : k = [c EXCEPT !.gen = @ + 1] /\ k.root = c.root /\ k.gen = c.gen + 1
    <3>1. c.gen + 1 \in Nat
      BY <1>0, <2>1
    <3>2. [c EXCEPT !.gen = c.gen + 1] \in ScKey
      BY <3>1 DEF ScKey
    <3> QED BY <3>2 DEF ScKey
  <2>3. SwapForDualKey(e, k)
    BY <1>1, <2>1, <2>2 DEF ChainRekey
  <2>4. \A i \in 1..Len(handles[e]) :
           handles[e][i].key # k /\ (handles[e][i].key.root = k.root => handles[e][i].key.gen <= k.gen)
    <3>1. \A i \in 1..Len(handles[e]) : handles[e][i].key.root = c.root => handles[e][i].key.gen <= c.gen
      BY <1>0, <2>1
    <3>2. c.gen \in Nat /\ \A i \in 1..Len(handles[e]) : handles[e][i].key.gen \in Nat
      BY <1>0, <2>1
    <3>3. k.root = c.root /\ k.gen = c.gen + 1
      BY <2>2
    <3> QED BY <3>1, <3>2, <3>3
  <2> QED BY <2>3, <2>4, ScSwaps
<1>2. CASE \E r \in 1..Len(agreed) : FullRekey(e, r)
  <2>1. PICK r \in 1..Len(agreed) : FullRekey(e, r)
    BY <1>2
  <2>2. PICK k \in ScKey : k = [root |-> r, gen |-> Current(e).key.gen + 1] /\ k.root = r
    <3>1. r \in Nat /\ Current(e).key.gen + 1 \in Nat
      BY <1>0 DEF ScInv, ScTyped
    <3>2. [root |-> r, gen |-> Current(e).key.gen + 1] \in ScKey
      BY <3>1 DEF ScKey
    <3> QED BY <3>2
  <2>3. SwapForDualKey(e, k)
    BY <2>1, <2>2 DEF FullRekey
  <2>4. \A i \in 1..Len(handles[e]) :
           handles[e][i].key # k /\ (handles[e][i].key.root = k.root => handles[e][i].key.gen <= k.gen)
    BY <1>0, <2>1, <2>2 DEF FullRekey, Underived
  <2> QED BY <2>3, <2>4, ScSwaps
<1> QED BY <1>1, <1>2

LEMMA ScCloses ==
    ASSUME ScInv, NEW e \in ScEnds, CloseSession(e)
    PROVE  ScInv'
<1> DEFINE n == Len(handles[e])
           hs == [i \in 1..n |-> IF i \in {entry[e].current, entry[e].previous} THEN Zeroized(handles[e][i])
                                 ELSE handles[e][i]]
<1>0. n \in Nat /\ \A i \in 1..n : handles[e][i] \in ScHandle
  BY ScEnd
<1>1. /\ handles' = [handles EXCEPT ![e] = hs] /\ entry' = [entry EXCEPT ![e] = NoKeyEntry]
      /\ timers' = [timers EXCEPT ![e] = {}] /\ swapped' = [swapped EXCEPT ![e] = swapped[e]]
      /\ UNCHANGED <<agreed, seen, sealed, opened>>
  BY DEF CloseSession, ClearTimer, ScInv, ScTyped
<1>2. \A i \in 1..n : hs[i] \in ScHandle
  BY <1>0, ZeroizedFields
<1>3. hs \in Seq(ScHandle) /\ Len(hs) = n
  <2>1. hs \in [1..n -> ScHandle]
    BY <1>2
  <2> HIDE DEF hs
  <2> QED BY <1>0, <2>1
<1>4. \A i \in 1..n : /\ hs[i].key = handles[e][i].key /\ hs[i].next = handles[e][i].next
                      /\ hs[i].zeroized /\ hs[i].state = "CLOSED"
  <2>1. ASSUME NEW i \in 1..n, i \in {entry[e].current, entry[e].previous}
        PROVE  /\ hs[i].key = handles[e][i].key /\ hs[i].next = handles[e][i].next
               /\ hs[i].zeroized /\ hs[i].state = "CLOSED"
    BY <1>0, <2>1, ZeroizedFields
  <2>2. ASSUME NEW i \in 1..n, i \notin {entry[e].current, entry[e].previous}
        PROVE  /\ hs[i].key = handles[e][i].key /\ hs[i].next = handles[e][i].next
               /\ hs[i].zeroized /\ hs[i].state = "CLOSED"
    <3>1. hs[i] = handles[e][i]
      BY <2>2
    <3> QED BY <2>2, <3>1, ScEnd DEF EndHolds
  <2> QED BY <2>1, <2>2
<1>5. NoKeyEntry \in ScEntry /\ NoKeyEntry.current = 0 /\ NoKeyEntry.previous = 0
  BY DEF NoKeyEntry, ScEntry
<1>7. \A i, j \in 1..n : i # j => handles[e][i].key # handles[e][j].key
  BY ScEnd DEF EndHolds
<1> HIDE DEF hs
<1>6. EndHolds(hs, NoKeyEntry, {}, swapped[e])
  <2>1. \A i, j \in 1..n : i # j => hs[i].key # hs[j].key
    BY <1>4, <1>7
  <2>2. \A i \in 1..Len(hs) : /\ hs[i].zeroized <=> (i # NoKeyEntry.current /\ i # NoKeyEntry.previous)
                              /\ hs[i].zeroized <=> hs[i].state = "CLOSED"
    BY <1>3, <1>4, <1>5
  <2> QED BY <1>3, <1>5, <2>1, <2>2 DEF EndHolds
<1>8. n <= Len(hs) /\ \A i \in 1..Len(hs) : i \notin 1..n => hs[i].next = 0
  BY <1>0, <1>3
<1> QED BY <1>1, <1>3, <1>4, <1>5, <1>6, <1>8, ScEnd, ScChanges

\* A timer that is due is the one of the open window, which ends whole.
LEMMA ScExpires ==
    ASSUME ScInv, NEW e \in ScEnds, NEW a \in timers[e], ExpireDualKeyWindow(e, a)
    PROVE  ScInv'
<1> DEFINE n == Len(handles[e])
           cur == entry[e].current
           prev == entry[e].previous
           dropped == DropPrevious(e, handles[e])
           settled == SettleCurrent(e, dropped)
           en == [entry[e] EXCEPT !.previous = 0]
<1>0. /\ Registered(e) /\ cur \in 1..n /\ n \in Nat /\ cur = n /\ prev \in Nat /\ prev < cur
      /\ Current(e).state = "PENDING_REKEY" /\ timers[e] = {swapped[e]} /\ swapped[e] >= ScWindow
  <2>1. a >= ScWindow /\ timers[e] # {}
    BY DEF ExpireDualKeyWindow
  <2>2. Registered(e)
    BY <2>1, ScEnd DEF Registered, EndHolds
  <2>3. Current(e).state = "PENDING_REKEY" /\ cur = n /\ prev < cur
    BY <2>1, <2>2, ScEnd DEF Registered, EndHolds, Current
  <2>4. timers[e] = {swapped[e]}
    BY <2>2, <2>3, ScEnd DEF Registered, EndHolds, Current
  <2> QED BY <2>1, <2>2, <2>3, <2>4, ScEnd
<1>1. /\ handles' = [handles EXCEPT ![e] = settled] /\ entry' = [entry EXCEPT ![e] = en]
      /\ timers' = [timers EXCEPT ![e] = {}] /\ swapped' = [swapped EXCEPT ![e] = swapped[e]]
      /\ UNCHANGED <<agreed, seen, sealed, opened>>
  <2>1. timers[e] \ {a} = {}
    BY <1>0
  <2>2. handles' = [handles EXCEPT ![e] = settled]
    BY <1>0 DEF ExpireDualKeyWindow
  <2>3. entry' = [entry EXCEPT ![e] = en]
    BY <1>0 DEF ExpireDualKeyWindow
  <2> QED BY <2>1, <2>2, <2>3 DEF ExpireDualKeyWindow, ScInv, ScTyped
<1>2. \A i \in 1..n : handles[e][i] \in ScHandle
  BY ScEnd
<1>3. /\ dropped \in Seq(ScHandle) /\ Len(dropped) = n
      /\ \A i \in 1..n : dropped[i] = IF i = prev THEN Zeroized(handles[e][i]) ELSE handles[e][i]
  <2>1. CASE prev = 0
    BY <1>0, <2>1, ScEnd DEF DropPrevious
  <2>2. CASE prev # 0
    <3>1. prev \in 1..n /\ Zeroized(handles[e][prev]) \in ScHandle
      <4>1. prev \in 1..n
        BY <1>0, <2>2
      <4>2. PICK h \in ScHandle : h = handles[e][prev]
        BY <1>2, <4>1
      <4> QED BY <4>1, <4>2, ZeroizedFields
    <3>2. dropped = [handles[e] EXCEPT ![prev] = Zeroized(handles[e][prev])]
      BY <2>2 DEF DropPrevious
    <3> HIDE DEF dropped
    <3> QED BY <3>1, <3>2, ScEnd
  <2> QED BY <2>1, <2>2
<1>4. dropped[cur] = handles[e][cur] /\ dropped[cur].state = "PENDING_REKEY"
  BY <1>0, <1>3 DEF Current
<1> HIDE DEF dropped
<1>5. PICK g \in ScHandle : /\ g = [handles[e][cur] EXCEPT !.state = "ACTIVE"]
                            /\ g.key = handles[e][cur].key /\ g.next = handles[e][cur].next
                            /\ g.zeroized = handles[e][cur].zeroized /\ g.state = "ACTIVE"
  <2>1. "ACTIVE" \in HandleState /\ handles[e][cur] \in ScHandle
    BY <1>0, <1>2 DEF HandleState
  <2> QED BY <2>1, HandlePut
<1>6. settled = [dropped EXCEPT ![cur] = g]
  BY <1>3, <1>4, <1>5 DEF SettleCurrent
<1> HIDE DEF settled
<1>7. /\ settled \in Seq(ScHandle) /\ Len(settled) = n /\ settled[cur] = g
      /\ \A i \in 1..n : i # cur => settled[i] = dropped[i]
  BY <1>0, <1>3, <1>6
<1>8. en \in ScEntry /\ en.current = cur /\ en.previous = 0
  <2>1. entry[e] \in ScEntry
    BY ScEnd
  <2> QED BY <2>1 DEF ScEntry
<1> HIDE DEF en
<1>9. \A i \in 1..n : /\ settled[i].key = handles[e][i].key /\ settled[i].next = handles[e][i].next
                      /\ settled[i].zeroized <=> i # cur
                      /\ settled[i].zeroized <=> settled[i].state = "CLOSED"
  <2>0. \A i \in 1..n : /\ handles[e][i].zeroized <=> (i # cur /\ i # prev)
                        /\ handles[e][i].zeroized <=> handles[e][i].state = "CLOSED"
    BY ScEnd DEF EndHolds
  <2>1. ASSUME NEW i \in 1..n, i = prev, i # cur
        PROVE  /\ settled[i].key = handles[e][i].key /\ settled[i].next = handles[e][i].next
               /\ settled[i].zeroized /\ settled[i].state = "CLOSED"
    <3>1. PICK h \in ScHandle : h = handles[e][i]
      BY <1>2
    <3>2. settled[i] = Zeroized(h)
      BY <1>3, <1>7, <2>1, <3>1
    <3>3. /\ Zeroized(h).key = h.key /\ Zeroized(h).next = h.next
          /\ Zeroized(h).zeroized = TRUE /\ Zeroized(h).state = "CLOSED"
      BY ZeroizedFields
    <3> QED BY <3>1, <3>2, <3>3
  <2>2. ASSUME NEW i \in 1..n, i # prev, i # cur
        PROVE  settled[i] = handles[e][i]
    BY <1>3, <1>7, <2>2
  <2>3. ~g.zeroized
    BY <1>0, <1>5, <2>0
  <2> SUFFICES ASSUME NEW i \in 1..n
               PROVE  /\ settled[i].key = handles[e][i].key /\ settled[i].next = handles[e][i].next
                      /\ settled[i].zeroized <=> i # cur
                      /\ settled[i].zeroized <=> settled[i].state = "CLOSED"
    OBVIOUS
  <2>4. CASE i = cur
    BY <1>5, <1>7, <2>3, <2>4
  <2>5. CASE i # cur /\ i = prev
    BY <2>1, <2>5
  <2>6. CASE i # cur /\ i # prev
    BY <2>0, <2>2, <2>6
  <2> QED BY <2>4, <2>5, <2>6
<1>10. EndHolds(settled, en, {}, swapped[e])
  <2>1. \A i, j \in 1..n : i # j => settled[i].key # settled[j].key
    <3>1. \A i, j \in 1..n : i # j => handles[e][i].key # handles[e][j].key
      BY ScEnd DEF EndHolds
    <3> QED BY <1>9, <3>1
  <2>2. \A i \in 1..n : settled[i].key.root = settled[cur].key.root => settled[i].key.gen <= settled[cur].key.gen
    <3>1. \A i \in 1..n : handles[e][i].key.root = handles[e][cur].key.root => handles[e][i].key.gen <= handles[e][cur].key.gen
      BY <1>0, ScEnd DEF EndHolds
    <3> QED BY <1>0, <1>9, <3>1
  <2>3. settled[cur].state = "ACTIVE"
    BY <1>5, <1>7
  <2>4. \A i \in 1..Len(settled) : /\ settled[i].zeroized <=> (i # en.current /\ i # en.previous)
                                   /\ settled[i].zeroized <=> settled[i].state = "CLOSED"
    BY <1>7, <1>8, <1>9
  <2> QED BY <1>0, <1>7, <1>8, <2>1, <2>2, <2>3, <2>4 DEF EndHolds
<1>11. n <= Len(settled) /\ \A i \in 1..Len(settled) : i \notin 1..n => settled[i].next = 0
  BY <1>0, <1>7
<1>12. /\ \A i \in 1..n : settled[i].key = handles[e][i].key /\ settled[i].next = handles[e][i].next
       /\ {} \in SUBSET (0..MaxScTime) /\ swapped[e] \in 0..MaxScTime
  BY <1>9, ScEnd
<1> QED BY <1>1, <1>7, <1>8, <1>10, <1>11, <1>12, ScChanges

\* A body takes a number its handle has not given out, and no other handle has its key.
LEMMA ScSeals ==
    ASSUME ScInv, NEW e \in ScEnds, NEW ref \in ScTokens, Seal(e, ref)
    PROVE  ScInv'
<1> DEFINE n == Len(handles[e])
           cur == entry[e].current
           L == Len(sealed)
<1>0. /\ Registered(e) /\ cur \in 1..n /\ n \in Nat /\ L \in Nat /\ L < MaxSealed /\ MaxSealed \in Nat
      /\ UNCHANGED <<agreed, entry, timers, swapped, seen, opened>>
      /\ handles[e] \in Seq(ScHandle) /\ \A i \in 1..n : handles[e][i] \in ScHandle
  BY ScEnd, ScAssumption DEF Seal, ScInv, ScTyped
<1>1. PICK h \in ScHandle : h = handles[e][cur] /\ h = Current(e) /\ h.next \in Nat /\ h.next <= L
  BY <1>0, HandleFields DEF Current, ScInv, ScNumbered
<1>2. PICK g \in ScHandle : /\ g = [h EXCEPT !.next = h.next + 1] /\ g.key = h.key /\ g.next = h.next + 1
                            /\ g.zeroized = h.zeroized /\ g.state = h.state
  <2>1. h.next + 1 \in Nat
    BY <1>1
  <2> QED BY <2>1, HandlePut
<1>3. PICK hs \in Seq(ScHandle) : /\ hs = [handles[e] EXCEPT ![cur] = g] /\ Len(hs) = n /\ hs[cur] = g
                                  /\ \A i \in 1..n : i # cur => hs[i] = handles[e][i]
  <2> DEFINE x == [handles[e] EXCEPT ![cur] = g]
  <2>1. x \in Seq(ScHandle) /\ Len(x) = n /\ x[cur] = g /\ \A i \in 1..n : i # cur => x[i] = handles[e][i]
    BY <1>0
  <2> HIDE DEF x
  <2>2. x = [handles[e] EXCEPT ![cur] = g]
    BY DEF x
  <2> QED BY <2>1, <2>2
<1>4. handles' = [handles EXCEPT ![e] = hs]
  BY <1>1, <1>2, <1>3 DEF Seal, NextNumber
<1>5. PICK m \in ScBody : /\ m = [from |-> e, key |-> h.key, seq |-> h.next, token |-> h.token]
                          /\ m.from = e /\ m.key = h.key /\ m.seq = h.next
  <2>1. h.key \in ScKey /\ h.token \in ScToken
    BY HandleFields
  <2>2. [from |-> e, key |-> h.key, seq |-> h.next, token |-> h.token] \in ScBody
    BY <1>1, <2>1 DEF ScBody
  <2> QED BY <2>2
<1>6. sealed' = Append(sealed, m)
  BY <1>1, <1>5 DEF Seal
<1>7. /\ sealed' \in Seq(ScBody) /\ Len(sealed') = L + 1 /\ sealed'[L + 1] = m
      /\ \A k \in 1..L : sealed'[k] = sealed[k] /\ sealed[k] \in ScBody
      /\ 1..(L + 1) = 1..L \cup {L + 1} /\ L + 1 \notin 1..L
  BY <1>0, <1>6 DEF ScInv, ScTyped
<1>8. handles'[e] = hs /\ \A f \in ScEnds : f # e => handles'[f] = handles[f]
  BY <1>4 DEF ScInv, ScTyped
<1>9. ScTyped'
  BY <1>0, <1>4, <1>7 DEF ScInv, ScTyped
<1>10. \A i \in 1..n : /\ hs[i].key = handles[e][i].key /\ hs[i].state = handles[e][i].state
                       /\ hs[i].zeroized = handles[e][i].zeroized
                       /\ hs[i].next = handles[e][i].next \/ (i = cur /\ hs[i].next = h.next + 1)
  BY <1>1, <1>2, <1>3
<1>11. ScHandles'
  <2>1. EndHolds(hs, entry[e], timers[e], swapped[e])
    <3> DEFINE hh == handles[e]
               en == entry[e]
               tm == timers[e]
               sw == swapped[e]
    <3>1. EndHolds(hh, en, tm, sw) /\ Len(hh) = n
      BY ScEnd
    <3>2. \A i \in 1..n : /\ hs[i].key = hh[i].key /\ hs[i].state = hh[i].state /\ hs[i].zeroized = hh[i].zeroized
      BY <1>10
    <3>3. cur \in 1..n /\ cur = en.current
      BY <1>0
    <3> HIDE DEF hh, en, tm, sw
    <3>4. \A i, j \in 1..n : i # j => hs[i].key # hs[j].key
      BY <3>1, <3>2 DEF EndHolds
    <3>5. \A i \in 1..n : hs[i].key.root = hs[cur].key.root => hs[i].key.gen <= hs[cur].key.gen
      <4>1. \A i \in 1..n : hh[i].key.root = hh[cur].key.root => hh[i].key.gen <= hh[cur].key.gen
        <5>1. en.current # 0
          BY <3>3
        <5> QED BY <3>1, <3>3, <5>1 DEF EndHolds
      <4>2. hs[cur].key = hh[cur].key
        BY <3>2, <3>3
      <4> QED BY <3>2, <4>1, <4>2
    <3>6. \A i \in 1..n : /\ hs[i].zeroized <=> (i # en.current /\ i # en.previous)
                          /\ hs[i].zeroized <=> hs[i].state = "CLOSED"
      BY <3>1, <3>2 DEF EndHolds
    <3>7. /\ en.current # 0 /\ en.current = n /\ en.previous < en.current
          /\ hs[cur].state = "PENDING_REKEY" => tm = {sw}
          /\ hs[cur].state # "PENDING_REKEY" => tm = {} /\ en.previous = 0
          /\ hs[cur].state = "ACTIVE" /\ hs[cur].key.gen > 0 => sw >= ScWindow
      BY <1>0, <3>1, <3>2, <3>3 DEF EndHolds
    <3>8. EndHolds(hs, en, tm, sw)
      BY <1>3, <3>3, <3>4, <3>5, <3>6, <3>7 DEF EndHolds
    <3> QED BY <3>8 DEF hh, en, tm, sw
  <2>2. \A f \in ScEnds : EndHolds(handles'[f], entry'[f], timers'[f], swapped'[f])
    <3>1. entry' = entry /\ timers' = timers /\ swapped' = swapped
      BY <1>0
    <3>2. \A f \in ScEnds : EndHolds(handles[f], entry[f], timers[f], swapped[f])
      BY DEF ScInv, ScHandles
    <3> QED BY <1>8, <2>1, <3>1, <3>2, Zenon
  <2> QED BY <2>2, Zenon DEF ScHandles, EndHolds
<1>12. \A k \in 1..L : sealed[k].from \in ScEnds /\ sealed[k].key \in ScKey /\ sealed[k].seq \in Nat
  BY <1>7 DEF ScBody
<1>13. ASSUME NEW k \in 1..L, sealed[k].from = e, sealed[k].key = h.key
       PROVE  sealed[k].seq < h.next
  <2>1. PICK i \in 1..n : handles[e][i].key = h.key /\ sealed[k].seq < handles[e][i].next
    BY <1>13 DEF ScInv, ScNumbered
  <2>2. i = cur
    <3>1. \A j, l \in 1..n : j # l => handles[e][j].key # handles[e][l].key
      BY ScEnd DEF EndHolds
    <3> QED BY <1>0, <1>1, <2>1, <3>1
  <2> QED BY <1>1, <2>1, <2>2
<1>14. ScNumbered'
  <2>1. \A f \in ScEnds : \A i \in 1..Len(handles'[f]) : handles'[f][i].next <= Len(sealed')
    <3>1. \A f \in ScEnds : \A i \in 1..Len(handles[f]) : handles[f][i].next <= L /\ handles[f][i].next \in Nat
      BY ScEnd, HandleFields DEF ScInv, ScNumbered
    <3>2. \A i \in 1..n : hs[i].next <= L + 1
      <4>1. \A i \in 1..n : handles[e][i].next <= L /\ handles[e][i].next \in Nat
        BY <3>1
      <4>2. \A i \in 1..n : hs[i].next = handles[e][i].next \/ hs[i].next = h.next + 1
        BY <1>10
      <4> QED BY <1>0, <1>1, <4>1, <4>2
    <3>3. \A f \in ScEnds : f # e => \A i \in 1..Len(handles[f]) : handles[f][i].next <= L + 1
      BY <1>0, <3>1
    <3> QED BY <1>3, <1>7, <1>8, <3>2, <3>3
  <2>2. ASSUME NEW k \in 1..L
        PROVE  \E i \in 1..Len(handles'[sealed[k].from]) :
                  /\ handles'[sealed[k].from][i].key = sealed[k].key
                  /\ sealed[k].seq < handles'[sealed[k].from][i].next
    <3>1. PICK i \in 1..Len(handles[sealed[k].from]) :
                  /\ handles[sealed[k].from][i].key = sealed[k].key
                  /\ sealed[k].seq < handles[sealed[k].from][i].next
      BY DEF ScInv, ScNumbered
    <3>2. CASE sealed[k].from = e
      <4>1. i \in 1..n /\ handles[e][i].key = sealed[k].key /\ sealed[k].seq < handles[e][i].next
        BY <3>1, <3>2
      <4>2. hs[i].key = handles[e][i].key
        BY <1>10, <4>1
      <4>3. sealed[k].seq < hs[i].next
        <5>1. CASE hs[i].next = handles[e][i].next
          BY <4>1, <5>1
        <5>2. CASE i = cur /\ hs[i].next = h.next + 1
          <6>1. sealed[k].seq < h.next
            BY <1>1, <4>1, <5>2
          <6>2. sealed[k].seq \in Nat /\ h.next \in Nat
            BY <1>1, <1>12
          <6> QED BY <5>2, <6>1, <6>2
        <5> QED BY <1>10, <4>1, <5>1, <5>2
      <4> QED BY <1>3, <1>8, <3>2, <4>1, <4>2, <4>3
    <3>3. CASE sealed[k].from # e
      BY <1>8, <1>12, <3>1, <3>3
    <3> QED BY <3>2, <3>3
  <2>3. \E i \in 1..Len(handles'[m.from]) : handles'[m.from][i].key = m.key /\ m.seq < handles'[m.from][i].next
    <3>1. cur \in 1..Len(hs) /\ hs[cur].key = m.key /\ m.seq < hs[cur].next
      BY <1>0, <1>1, <1>2, <1>3, <1>5
    <3> QED BY <1>5, <1>8, <3>1
  <2>4. \A j, k \in 1..(L + 1) :
          j < k /\ sealed'[j].from = sealed'[k].from /\ sealed'[j].key = sealed'[k].key => sealed'[j].seq < sealed'[k].seq
    <3>1. \A j, k \in 1..L :
            j < k /\ sealed[j].from = sealed[k].from /\ sealed[j].key = sealed[k].key => sealed[j].seq < sealed[k].seq
      BY DEF ScInv, ScNumbered
    <3>2. \A j \in 1..L : j < L + 1 /\ L + 1 \in Nat /\ ~(L + 1 < j) /\ ~(L + 1 < L + 1)
      BY <1>0
    <3>3. \A j \in 1..L : sealed[j].from = m.from /\ sealed[j].key = m.key => sealed[j].seq < m.seq
      BY <1>5, <1>13
    <3> QED BY <1>7, <3>1, <3>2, <3>3
  <2>5. \A k \in 1..(L + 1) : \E i \in 1..Len(handles'[sealed'[k].from]) :
                  /\ handles'[sealed'[k].from][i].key = sealed'[k].key
                  /\ sealed'[k].seq < handles'[sealed'[k].from][i].next
    BY <1>7, <2>2, <2>3
  <2> QED BY <1>7, <2>1, <2>4, <2>5 DEF ScNumbered
<1>15. ScTracked'
  <2>1. \A f \in ScEnds : \A i \in 1..Len(opened[f]) : /\ opened[f][i] \in 1..L /\ opened[f][i] \in 1..Len(sealed')
                                                     /\ sealed'[opened[f][i]] = sealed[opened[f][i]]
    BY <1>7 DEF ScInv, ScTracked
  <2>2. opened' = opened /\ seen' = seen
    BY <1>0
  <2>3. ASSUME NEW f \in ScEnds, NEW i \in 1..Len(opened[f])
        PROVE  /\ opened'[f][i] \in 1..Len(sealed') /\ sealed'[opened'[f][i]].from = ScPeer(f)
               /\ sealed'[opened'[f][i]].key \in DOMAIN seen'[f]
               /\ sealed'[opened'[f][i]].seq <= seen'[f][sealed'[opened'[f][i]].key]
    BY <2>1, <2>2 DEF ScInv, ScTracked
  <2>4. ASSUME NEW f \in ScEnds, NEW i \in 1..Len(opened[f]), NEW j \in 1..Len(opened[f]), i < j,
               sealed'[opened'[f][i]].key = sealed'[opened'[f][j]].key
        PROVE  opened'[f][i] < opened'[f][j]
    BY <2>1, <2>2, <2>4 DEF ScInv, ScTracked
  <2> QED BY <2>2, <2>3, <2>4 DEF ScTracked
<1> QED BY <1>9, <1>11, <1>14, <1>15 DEF ScInv

\* A body that is opened has a number above those opened under its key, and so was sealed later.
LEMMA ScOpens ==
    ASSUME ScInv, NEW e \in ScEnds, NEW b \in 1..Len(sealed), NEW ref \in ScTokens, OpenBody(e, b, ref)
    PROVE  ScInv'
<1> DEFINE m == sealed[b]
           L == Len(opened[e])
           tracked == [k \in DOMAIN seen[e] \cup {m.key} |-> IF k = m.key THEN m.seq ELSE seen[e][k]]
<1>0. /\ UNCHANGED <<agreed, handles, entry, timers, swapped, sealed>>
      /\ m.from = ScPeer(e) /\ m.seq > MaxSeen(e, m.key)
      /\ seen' = [seen EXCEPT ![e] = tracked] /\ opened' = [opened EXCEPT ![e] = Append(opened[e], b)]
  BY DEF OpenBody, FreshNumber
<1>1. /\ \A n \in 1..Len(sealed) : sealed[n] \in ScBody /\ sealed[n].seq \in Nat
      /\ Len(sealed) \in Nat /\ L \in Nat /\ opened[e] \in Seq(Nat) /\ b \in Nat
  <2>1. \A n \in 1..Len(sealed) : sealed[n] \in ScBody
    BY DEF ScInv, ScTyped
  <2>2. \A n \in 1..Len(sealed) : sealed[n].seq \in Nat
    BY <2>1 DEF ScBody
  <2> QED BY <2>1, <2>2 DEF ScInv, ScTyped
<1>2. /\ opened'[e] \in Seq(Nat) /\ Len(opened'[e]) = L + 1 /\ opened'[e][L + 1] = b
      /\ \A i \in 1..L : opened'[e][i] = opened[e][i]
      /\ \A f \in ScEnds : f # e => opened'[f] = opened[f]
      /\ 1..(L + 1) = 1..L \cup {L + 1} /\ L + 1 \notin 1..L
  BY <1>0, <1>1 DEF ScInv, ScTyped
<1>3. seen'[e] = tracked /\ \A f \in ScEnds : f # e => seen'[f] = seen[f]
  BY <1>0 DEF ScInv, ScTyped
<1>4. /\ m.key \in DOMAIN seen'[e] /\ seen'[e][m.key] = m.seq /\ m.seq \in Nat
      /\ \A k \in DOMAIN seen[e] : k \in DOMAIN seen'[e] /\ (k # m.key => seen'[e][k] = seen[e][k])
      /\ \A k \in DOMAIN seen'[e] : seen'[e][k] \in Nat
      /\ m.key \in DOMAIN seen[e] => seen[e][m.key] < m.seq /\ seen[e][m.key] \in Nat
  <2>1. \A k \in DOMAIN seen[e] : seen[e][k] \in Nat
    BY DEF ScInv, ScTyped
  <2>2. m.seq \in Nat
    BY <1>1
  <2>3. m.key \in DOMAIN seen[e] => seen[e][m.key] < m.seq /\ seen[e][m.key] \in Nat
    BY <1>0, <2>1, <2>2 DEF MaxSeen
  <2> QED BY <1>3, <2>1, <2>2, <2>3
<1>5. ScTyped'
  <2>1. DOMAIN seen' = ScEnds
    BY <1>0 DEF ScInv, ScTyped
  <2>2. \A f \in ScEnds : \A k \in DOMAIN seen'[f] : seen'[f][k] \in Nat
    BY <1>3, <1>4 DEF ScInv, ScTyped
  <2>3. opened' \in [ScEnds -> Seq(Nat)]
    BY <1>0, <1>2 DEF ScInv, ScTyped
  <2> QED BY <1>0, <2>1, <2>2, <2>3 DEF ScInv, ScTyped
<1>6. ScHandles'
  <2>1. handles' = handles /\ entry' = entry /\ timers' = timers /\ swapped' = swapped
    BY <1>0
  <2>2. \A f \in ScEnds : EndHolds(handles'[f], entry'[f], timers'[f], swapped'[f])
    BY <2>1 DEF ScInv, ScHandles
  <2> QED BY <2>2, Zenon DEF ScHandles, EndHolds
<1>7. ScNumbered'
  BY <1>0 DEF ScInv, ScNumbered
<1>8. sealed' = sealed
  BY <1>0
<1>9. ASSUME NEW f \in ScEnds, f # e
      PROVE  /\ \A i \in 1..Len(opened'[f]) :
                  /\ opened'[f][i] \in 1..Len(sealed) /\ sealed[opened'[f][i]].from = ScPeer(f)
                  /\ sealed[opened'[f][i]].key \in DOMAIN seen'[f]
                  /\ sealed[opened'[f][i]].seq <= seen'[f][sealed[opened'[f][i]].key]
             /\ \A i, j \in 1..Len(opened'[f]) :
                  i < j /\ sealed[opened'[f][i]].key = sealed[opened'[f][j]].key => opened'[f][i] < opened'[f][j]
  BY <1>2, <1>3, <1>9 DEF ScInv, ScTracked
<1>10. ASSUME NEW i \in 1..L
       PROVE  /\ opened[e][i] \in 1..Len(sealed) /\ sealed[opened[e][i]].from = ScPeer(e)
              /\ sealed[opened[e][i]].key \in DOMAIN seen'[e]
              /\ sealed[opened[e][i]].seq <= seen'[e][sealed[opened[e][i]].key]
              /\ sealed[opened[e][i]].key = m.key => opened[e][i] < b
  <2>1. PICK x \in 1..Len(sealed) : x = opened[e][i]
    BY DEF ScInv, ScTracked
  <2>2. /\ sealed[x].from = ScPeer(e) /\ sealed[x].key \in DOMAIN seen[e]
        /\ sealed[x].seq <= seen[e][sealed[x].key] /\ sealed[x].seq \in Nat /\ x \in Nat
    BY <1>1, <2>1 DEF ScInv, ScTracked
  <2>3. CASE sealed[x].key = m.key
    <3>1. sealed[x].seq < m.seq /\ sealed[x].seq <= seen'[e][sealed[x].key]
      BY <1>4, <2>2, <2>3
    <3>2. x < b
      <4>1. x # b
        BY <1>4, <3>1
      <4>2. ~(b < x)
        <5>1. b < x => m.seq < sealed[x].seq
          BY <1>0, <2>2, <2>3 DEF ScInv, ScNumbered
        <5> QED BY <1>4, <2>2, <3>1, <5>1
      <4> QED BY <1>1, <2>2, <4>1, <4>2
    <3> QED BY <1>4, <2>1, <2>2, <3>1, <3>2
  <2>4. CASE sealed[x].key # m.key
    BY <1>4, <2>1, <2>2, <2>4
  <2> QED BY <2>3, <2>4
<1>11. /\ \A i \in 1..(L + 1) :
            /\ opened'[e][i] \in 1..Len(sealed) /\ sealed[opened'[e][i]].from = ScPeer(e)
            /\ sealed[opened'[e][i]].key \in DOMAIN seen'[e]
            /\ sealed[opened'[e][i]].seq <= seen'[e][sealed[opened'[e][i]].key]
  <2>1. /\ b \in 1..Len(sealed) /\ sealed[b].from = ScPeer(e) /\ sealed[b].key \in DOMAIN seen'[e]
        /\ sealed[b].seq <= seen'[e][sealed[b].key]
    BY <1>0, <1>4
  <2> QED BY <1>2, <1>10, <2>1
<1>12. \A i, j \in 1..(L + 1) :
          i < j /\ sealed[opened'[e][i]].key = sealed[opened'[e][j]].key => opened'[e][i] < opened'[e][j]
  <2>1. \A i, j \in 1..L :
          i < j /\ sealed[opened[e][i]].key = sealed[opened[e][j]].key => opened[e][i] < opened[e][j]
    BY DEF ScInv, ScTracked
  <2>2. \A i \in 1..L : i < L + 1 /\ ~(L + 1 < i) /\ ~(L + 1 < L + 1)
    BY <1>1
  <2>3. \A i \in 1..L : sealed[opened[e][i]].key = sealed[b].key => opened[e][i] < b
    BY <1>10
  <2>4. \A i, j \in 1..L :
          i < j /\ sealed[opened'[e][i]].key = sealed[opened'[e][j]].key => opened'[e][i] < opened'[e][j]
    BY <1>2, <2>1
  <2>5. \A i \in 1..L :
          sealed[opened'[e][i]].key = sealed[opened'[e][L + 1]].key => opened'[e][i] < opened'[e][L + 1]
    BY <1>2, <2>3
  <2>6. 1..(L + 1) = 1..L \cup {L + 1}
    BY <1>2
  <2> HIDE DEF L, m, tracked
  <2> QED BY <2>2, <2>4, <2>5, <2>6
<1>13. ScTracked'
  <2>1. Len(opened'[e]) = L + 1
    BY <1>2
  <2> HIDE DEF L, m, tracked
  <2>2. ASSUME NEW f \in ScEnds
        PROVE  /\ \A i \in 1..Len(opened'[f]) :
                    /\ opened'[f][i] \in 1..Len(sealed) /\ sealed[opened'[f][i]].from = ScPeer(f)
                    /\ sealed[opened'[f][i]].key \in DOMAIN seen'[f]
                    /\ sealed[opened'[f][i]].seq <= seen'[f][sealed[opened'[f][i]].key]
               /\ \A i, j \in 1..Len(opened'[f]) :
                    i < j /\ sealed[opened'[f][i]].key = sealed[opened'[f][j]].key => opened'[f][i] < opened'[f][j]
    BY <1>9, <1>11, <1>12, <2>1
  <2> QED BY <1>8, <2>2, Zenon DEF ScTracked
<1> QED BY <1>5, <1>6, <1>7, <1>13 DEF ScInv

\* Handshakes and time leave handles and bodies alone; the timer of a window ages with it.
LEMMA ScPasses ==
    ASSUME ScInv, \/ \E t \in ScTokens \cup {NullToken} : Handshake(t)
                  \/ ScTick \/ UNCHANGED scVars
    PROVE  ScInv'
<1>1. UNCHANGED <<handles, entry, seen, sealed, opened>> /\ agreed' \in Seq(ScToken)
  <2>1. agreed \in Seq(ScToken)
    BY DEF ScInv, ScTyped
  <2>2. ASSUME NEW t \in ScToken, Handshake(t)
        PROVE  UNCHANGED <<handles, entry, seen, sealed, opened>> /\ agreed' \in Seq(ScToken)
    BY <2>1, <2>2 DEF Handshake
  <2>3. ScTick \/ UNCHANGED scVars => UNCHANGED <<agreed, handles, entry, seen, sealed, opened>>
    BY DEF ScTick, scVars
  <2> QED BY <2>1, <2>2, <2>3 DEF ScToken
<1>2. ScNumbered'
  BY <1>1 DEF ScInv, ScNumbered
<1>3. ScTracked'
  BY <1>1 DEF ScInv, ScTracked
<1>4. CASE UNCHANGED <<timers, swapped>>
  <2>1. ScTyped'
    BY <1>1, <1>4 DEF ScInv, ScTyped
  <2>2. ScHandles'
    <3>1. handles' = handles /\ entry' = entry /\ timers' = timers /\ swapped' = swapped
      BY <1>1, <1>4
    <3>2. \A f \in ScEnds : EndHolds(handles'[f], entry'[f], timers'[f], swapped'[f])
      BY <3>1 DEF ScInv, ScHandles
    <3> QED BY <3>2, Zenon DEF ScHandles, EndHolds
  <2> QED BY <1>2, <1>3, <2>1, <2>2 DEF ScInv
<1>5. CASE ScTick
  <2>1. \A e \in ScEnds :
          /\ timers'[e] = {a + 1 : a \in timers[e]}
          /\ swapped'[e] = IF swapped[e] < MaxScTime THEN swapped[e] + 1 ELSE MaxScTime
          /\ swapped[e] \in 0..MaxScTime /\ timers[e] \subseteq 0..MaxScTime /\ \A a \in timers[e] : a < MaxScTime
    BY <1>5 DEF ScTick, ScInv, ScTyped
  <2>2. ScTyped'
    <3>1. \A e \in ScEnds : timers'[e] \in SUBSET (0..MaxScTime) /\ swapped'[e] \in 0..MaxScTime
      BY <2>1, ScAssumption
    <3>2. timers' \in [ScEnds -> SUBSET (0..MaxScTime)] /\ swapped' \in [ScEnds -> 0..MaxScTime]
      <4>1. timers' = [e \in ScEnds |-> timers'[e]] /\ swapped' = [e \in ScEnds |-> swapped'[e]]
        BY <1>5 DEF ScTick
      <4> QED BY <3>1, <4>1
    <3> QED BY <1>1, <3>2 DEF ScInv, ScTyped
  <2>3. ASSUME NEW e \in ScEnds
        PROVE  EndHolds(handles[e], entry[e], timers'[e], swapped'[e])
    <3> DEFINE hs == handles[e]
               en == entry[e]
    <3>1. EndHolds(hs, en, timers[e], swapped[e])
      BY ScEnd
    <3>2. /\ timers[e] = {} => timers'[e] = {}
          /\ timers[e] = {swapped[e]} => timers'[e] = {swapped'[e]}
          /\ swapped[e] >= ScWindow => swapped'[e] >= ScWindow
      BY <2>1, ScAssumption
    <3> HIDE DEF hs, en
    <3>3. EndHolds(hs, en, timers'[e], swapped'[e])
      BY <3>1, <3>2 DEF EndHolds
    <3> QED BY <3>3 DEF hs, en
  <2>4. ScHandles'
    <3>1. \A e \in ScEnds : EndHolds(handles'[e], entry'[e], timers'[e], swapped'[e])
      BY <1>1, <2>3
    <3> QED BY <3>1, Zenon DEF ScHandles, EndHolds
  <2> QED BY <1>2, <1>3, <2>2, <2>4 DEF ScInv
<1> QED BY <1>4, <1>5 DEF Handshake, scVars

LEMMA ScStep == ScInv /\ [ScNext]_scVars => ScInv'
  BY ScPasses, ScCreates, ScRekeys, ScCloses, ScExpires, ScSeals, ScOpens DEF ScNext

LEMMA ScStart == ScInit => ScInv
<1> SUFFICES ASSUME ScInit PROVE ScInv
  OBVIOUS
<1>1. /\ \A e \in ScEnds : /\ handles[e] = << >> /\ entry[e] = NoKeyEntry /\ timers[e] = {} /\ swapped[e] = 0
                           /\ seen[e] = << >> /\ opened[e] = << >>
      /\ sealed = << >> /\ agreed = << >>
  BY DEF ScInit
<1>2. NoKeyEntry \in ScEntry /\ NoKeyEntry.current = 0 /\ NoKeyEntry.previous = 0
  BY DEF NoKeyEntry, ScEntry
<1>3. ScTyped
  BY <1>1, <1>2, ScAssumption DEF ScInit, ScTyped
<1>4. ScHandles
  <2>1. Len(<< >>) = 0 /\ 1..0 = {}
    OBVIOUS
  <2>2. EndHolds(<< >>, NoKeyEntry, {}, 0)
    BY <1>2 DEF EndHolds
  <2> QED BY <1>1, <2>2, Zenon DEF ScHandles
<1>5. ScNumbered /\ ScTracked
  BY <1>1 DEF ScNumbered, ScTracked
<1> QED BY <1>3, <1>4, <1>5 DEF ScInv

LEMMA ScConcludes == ScInv => SealingIsSound
<1> SUFFICES ASSUME ScInv PROVE SealingIsSound
  OBVIOUS
<1>1. ScTypeOK
  <2>1. ASSUME NEW e \in ScEnds
        PROVE  /\ entry[e].current \in 0..Len(handles[e]) /\ entry[e].previous \in 0..Len(handles[e])
               /\ timers[e] \subseteq 0..MaxScTime /\ swapped[e] \in 0..MaxScTime
    BY ScEnd DEF EndHolds
  <2>2. ASSUME NEW e \in ScEnds, NEW i \in 1..Len(handles[e])
        PROVE  handles[e][i].state \in {"ACTIVE", "PENDING_REKEY", "CLOSED"} /\ handles[e][i].next \in 0..MaxSealed
    <3>1. handles[e][i].state \in {"ACTIVE", "PENDING_REKEY", "CLOSED"} /\ handles[e][i].next \in Nat
      BY ScEnd, HandleFields DEF HandleState
    <3>2. handles[e][i].next <= Len(sealed) /\ Len(sealed) <= MaxSealed /\ Len(sealed) \in Nat /\ MaxSealed \in Nat
      BY ScAssumption DEF ScInv, ScNumbered, ScTyped
    <3> QED BY <3>1, <3>2
  <2> QED BY <2>1, <2>2 DEF ScTypeOK, ScInv, ScTyped
<1>2. NoncesAreUnique
  <2>1. ASSUME NEW i \in 1..Len(sealed), NEW j \in 1..Len(sealed), i < j
        PROVE  AeadNonce(sealed[i]) # AeadNonce(sealed[j])
    <3>1. sealed[i] \in ScBody /\ sealed[j] \in ScBody
      BY DEF ScInv, ScTyped
    <3>2. sealed[i].seq \in Nat /\ sealed[j].seq \in Nat
      BY <3>1 DEF ScBody
    <3>3. sealed[i].from = sealed[j].from /\ sealed[i].key = sealed[j].key => sealed[i].seq < sealed[j].seq
      BY <2>1 DEF ScInv, ScNumbered
    <3> QED BY <3>2, <3>3 DEF AeadNonce
  <2>2. \A i, j \in 1..Len(sealed) : i # j => i < j \/ j < i
    BY DEF ScInv, ScTyped
  <2> QED BY <2>1, <2>2 DEF NoncesAreUnique
<1>3. OpenedOnceInOrder
  BY DEF ScInv, ScTracked, OpenedOnceInOrder
<1>4. KeysAreWiped
  <2>1. \A e \in ScEnds : \A i \in 1..Len(handles[e]) :
           handles[e][i].zeroized <=> (i # entry[e].current /\ i # entry[e].previous)
    BY ScEnd DEF EndHolds
  <2> QED BY <2>1 DEF KeysAreWiped
<1>5. WindowIsWhole
  <2>1. ASSUME NEW e \in ScEnds, Registered(e), Current(e).state = "ACTIVE", Current(e).key.gen > 0
        PROVE  swapped[e] >= ScWindow
    BY <2>1, ScEnd DEF EndHolds, Registered, Current
  <2> QED BY <2>1 DEF WindowIsWhole
<1> QED BY <1>1, <1>2, <1>3, <1>4, <1>5 DEF SealingIsSound

-----------------------------------------------------------------------------
(* ManagedService: what is answered, admitted and accounted for.  A client *)
(* that waits on a slot sent its request after its call began, so an       *)
(* answer in that slot was made later; a bucket has handed out no more     *)
(* than the quota and its refills up to the last one.                      *)

\* what a client knows
MsClientFits(k, revoked) ==
    /\ k.pc # "wait" => k.slot = NoIp
    /\ k.wasRevoked = TRUE => revoked = TRUE
    /\ k.answer = "valid" => k.wasRevoked = FALSE

\* an answer that reaches a client was made after its call began
MsAnswerFits(k, r) == r.pc = "respond" /\ r.status = 200 /\ k.wasRevoked = TRUE => r.revoked = TRUE

\* what a bucket has handed out
MsBucketFits(b, now, sent) ==
    b = NoBucket \/ /\ b \in Bucket /\ b.refill <= now /\ b.since <= b.refill /\ b.used <= sent
                    /\ b.used * MsWindow + b.tokens <= MsQuota * (MsWindow + b.refill - b.since)

MsUsageFits(p) ==
    /\ msUsage[p].count + msWrites[p].count = msFinished[p].count
    /\ msUsage[p].errors + msWrites[p].errors = msFinished[p].errors
    /\ msWrites[p].errors <= msWrites[p].count

MsClientsFit == \A c \in MsClients : MsClientFits(msClient[c], msRevoked)

MsAnswersFit ==
    \A c \in MsClients, s \in MsSlots : msClient[c].slot = s => MsAnswerFits(msClient[c], msRequest[s])

MsBucketsFit == \A e \in Services, i \in Ips : MsBucketFits(msBuckets[e][i], msNow, msSent)

MsInv ==
    /\ MsTypeOK /\ MsClientsFit /\ MsAnswersFit /\ MsBucketsFit
    /\ \A p \in Payers : MsUsageFits(p)

LEMMA MsClientFields ==
    ASSUME NEW k \in MsClientState
    PROVE  /\ k.pc \in {"idle", "send", "wait"} /\ k.service \in Services /\ k.attempt \in 0..MsRetries
           /\ k.slot \in MsSlots \cup {NoIp} /\ k.wasRevoked \in BOOLEAN /\ k.answer \in MsAnswer
BY DEF MsClientState

LEMMA MsRequestFields ==
    ASSUME NEW r \in MsRequestState
    PROVE  /\ r.pc \in {"free", "lookup", "handle", "respond"} /\ r.service \in Services /\ r.key \in Payers
           /\ r.payer \in Payers /\ r.status \in MsStatus /\ r.revoked \in BOOLEAN /\ r.open \in BOOLEAN
BY DEF MsRequestState

LEMMA BucketFields ==
    ASSUME NEW b \in Bucket
    PROVE  /\ b.tokens \in 0..(MsQuota * MsWindow) /\ b.refill \in 0..MaxMsTime /\ b.access \in 0..MaxMsTime
           /\ b.since \in 0..MaxMsTime /\ b.used \in 0..MaxMsRequests
BY DEF Bucket

LEMMA BucketIs ==
    ASSUME NEW t \in 0..(MsQuota * MsWindow), NEW r \in 0..MaxMsTime, NEW a \in 0..MaxMsTime,
           NEW n \in 0..MaxMsTime, NEW u \in 0..MaxMsRequests
    PROVE  [tokens |-> t, refill |-> r, access |-> a, since |-> n, used |-> u] \in Bucket
BY DEF Bucket

LEMMA BucketIsNot == ASSUME NEW b \in Bucket PROVE b # NoBucket
<1>1. b.used \in 0..MaxMsRequests /\ NoBucket.used = -1
  BY BucketFields DEF NoBucket
<1>2. b.used # NoBucket.used
  BY <1>1, MsAssumption
<1> QED BY <1>2

LEMMA MovedFields ==
    ASSUME NEW k \in MsClientState, NEW pc \in {"idle", "send", "wait"}, NEW n \in 0..MsRetries,
           NEW s \in MsSlots \cup {NoIp}, NEW a \in MsAnswer
    PROVE  /\ Moved(k, pc, n, s, a) \in MsClientState /\ Moved(k, pc, n, s, a).pc = pc
           /\ Moved(k, pc, n, s, a).slot = s /\ Moved(k, pc, n, s, a).answer = a
           /\ Moved(k, pc, n, s, a).wasRevoked = k.wasRevoked
<1>1. k.service \in Services /\ k.wasRevoked \in BOOLEAN
  BY MsClientFields
<1> QED BY <1>1 DEF Moved, MsClientState

-----------------------------------------------------------------------------
(* The limiter.                                                            *)

LEMMA RefillFits ==
    ASSUME MsTypeOK, NEW b \in Bucket, MsBucketFits(b, msNow, msSent)
    PROVE  RefillBucket(b) \in Bucket /\ MsBucketFits(RefillBucket(b), msNow, msSent)
<1> DEFINE more == b.tokens + (msNow - b.refill) * MsQuota
           full == MsQuota * MsWindow
           t == IF more > full THEN full ELSE more
           x == RefillBucket(b)
<1>1. /\ b.tokens \in Nat /\ b.refill \in Nat /\ b.since \in Nat /\ b.used \in Nat /\ b.used \in 0..MaxMsRequests
      /\ b.since \in 0..MaxMsTime
  BY BucketFields
<1>2. /\ b.refill <= msNow /\ b.since <= b.refill /\ b.used <= msSent
      /\ b.used * MsWindow + b.tokens <= MsQuota * (MsWindow + b.refill - b.since)
  BY BucketIsNot DEF MsBucketFits
<1>3. MsQuota \in Nat /\ MsWindow \in Nat /\ msNow \in Nat /\ msNow \in 0..MaxMsTime /\ full \in Nat
  BY MsAssumption DEF MsTypeOK
<1>4. (msNow - b.refill) * MsQuota \in Nat
  BY <1>1, <1>2, <1>3
<1>5. more \in Nat
  BY <1>1, <1>4
<1>6. t \in 0..full /\ t <= more
  <2> HIDE DEF more, full
  <2> QED BY <1>3, <1>5
<1>7. x = [tokens |-> t, refill |-> msNow, access |-> msNow, since |-> b.since, used |-> b.used]
  BY DEF RefillBucket
<1>8. x.tokens = t /\ x.refill = msNow /\ x.since = b.since /\ x.used = b.used
  <2> HIDE DEF x, t
  <2> QED BY <1>7
<1>9. x \in Bucket
  <2> HIDE DEF x, t
  <2> QED BY <1>1, <1>3, <1>6, <1>7, BucketIs
<1>10. MsQuota * (MsWindow + b.refill - b.since) + (msNow - b.refill) * MsQuota = MsQuota * (MsWindow + msNow - b.since)
  BY <1>1, <1>3
<1>11. b.used * MsWindow \in Nat /\ MsQuota * (MsWindow + b.refill - b.since) \in Int /\ MsQuota * (MsWindow + msNow - b.since) \in Int
  BY <1>1, <1>3
<1>12. b.used * MsWindow + t <= MsQuota * (MsWindow + msNow - b.since)
  <2> DEFINE u == b.used * MsWindow
             q == MsQuota * (MsWindow + b.refill - b.since)
             d == (msNow - b.refill) * MsQuota
             z == MsQuota * (MsWindow + msNow - b.since)
  <2>1. u + b.tokens <= q /\ q + d = z /\ t <= b.tokens + d /\ u \in Nat /\ q \in Int /\ z \in Int /\ d \in Nat /\ t \in Nat
    <3>1. t \in Nat
      <4> HIDE DEF t, full
      <4> QED BY <1>3, <1>6
    <3> HIDE DEF t
    <3> QED BY <1>2, <1>4, <1>6, <1>10, <1>11, <3>1
  <2> HIDE DEF u, q, d, z, t
  <2>2. u + t <= z
    BY <1>1, <2>1
  <2> QED BY <2>2 DEF u, z
<1> HIDE DEF x, t
<1>13. MsBucketFits(x, msNow, msSent)
  BY <1>1, <1>2, <1>3, <1>8, <1>9, <1>12 DEF MsBucketFits
<1> QED BY <1>9, <1>13 DEF x

LEMMA TakeTokenFits ==
    ASSUME NEW b \in Bucket, NEW now \in Nat, NEW sent \in 0..MaxMsRequests, MsBucketFits(b, now, sent),
           sent < MaxMsRequests, ~ (b.tokens < MsWindow)
    PROVE  TakeToken(b) \in Bucket /\ MsBucketFits(TakeToken(b), now, sent + 1)
<1> DEFINE x == TakeToken(b)
           full == MsQuota * MsWindow
<1>1. /\ b.tokens \in 0..full /\ b.refill \in 0..MaxMsTime /\ b.since \in 0..MaxMsTime /\ b.used \in 0..MaxMsRequests
      /\ b.access \in 0..MaxMsTime
  BY BucketFields
<1>2. /\ b.refill <= now /\ b.since <= b.refill /\ b.used <= sent
      /\ b.used * MsWindow + b.tokens <= MsQuota * (MsWindow + b.refill - b.since)
  BY BucketIsNot DEF MsBucketFits
<1>3. MsWindow \in Nat /\ MsQuota \in Nat /\ full \in Nat /\ MaxMsRequests \in Nat /\ MaxMsTime \in Nat
  BY MsAssumption
<1>4. b.tokens - MsWindow \in 0..full /\ b.used + 1 \in 0..MaxMsRequests
  <2> HIDE DEF full
  <2> QED BY <1>1, <1>2, <1>3
<1>5. x = [tokens |-> b.tokens - MsWindow, refill |-> b.refill, access |-> b.access, since |-> b.since, used |-> b.used + 1]
  BY DEF TakeToken
<1>6. x.tokens = b.tokens - MsWindow /\ x.refill = b.refill /\ x.since = b.since /\ x.used = b.used + 1
  <2> HIDE DEF x
  <2> QED BY <1>5
<1>7. x \in Bucket
  <2> HIDE DEF x
  <2> QED BY <1>1, <1>4, <1>5, BucketIs
<1>8. (b.used + 1) * MsWindow + (b.tokens - MsWindow) = b.used * MsWindow + b.tokens
  BY <1>1, <1>3
<1> HIDE DEF x
<1>9. x.used <= sent + 1
  BY <1>1, <1>2, <1>6
<1>10. MsBucketFits(x, now, sent + 1)
  BY <1>2, <1>6, <1>7, <1>8, <1>9 DEF MsBucketFits
<1> QED BY <1>7, <1>10 DEF x

\* A later time and more requests sent: a bucket still fits.
LEMMA BucketStillFits ==
    ASSUME NEW b, NEW now \in Nat, NEW sent \in Nat, NEW later \in Nat, NEW more \in Nat,
           MsBucketFits(b, now, sent), now <= later, sent <= more
    PROVE  MsBucketFits(b, later, more)
<1>1. CASE b = NoBucket
  BY <1>1 DEF MsBucketFits
<1>2. CASE b # NoBucket
  <2>1. b \in Bucket /\ b.refill <= now /\ b.used <= sent
    BY <1>2 DEF MsBucketFits
  <2>2. b.refill \in Nat /\ b.used \in Nat
    BY <2>1, BucketFields
  <2>3. b.refill <= later /\ b.used <= more
    BY <2>1, <2>2
  <2> QED BY <1>2, <2>1, <2>3 DEF MsBucketFits
<1> QED BY <1>1, <1>2

\* What a lookup of an address's bucket leaves: one for the address, and nothing new elsewhere.
LEMMA GetOrCreateFits ==
    ASSUME MsInv, NEW e \in Services, NEW ip \in Ips
    PROVE  /\ GetOrCreateBucket(e, ip) \in [Ips -> Bucket \cup {NoBucket}]
           /\ GetOrCreateBucket(e, ip)[ip] \in Bucket
           /\ \A i \in Ips : MsBucketFits(GetOrCreateBucket(e, ip)[i], msNow, msSent)
<1> DEFINE evicted == IF msBuckets[e][ip] = NoBucket /\ Cardinality(Held(e)) >= MaxBuckets
                      THEN EvictOldest(e) ELSE {}
           new == [tokens |-> MsQuota * MsWindow, refill |-> msNow, access |-> msNow, since |-> msNow, used |-> 0]
           g == GetOrCreateBucket(e, ip)
<1>1. \A i \in Ips : msBuckets[e][i] \in Bucket \cup {NoBucket} /\ MsBucketFits(msBuckets[e][i], msNow, msSent)
  BY DEF MsInv, MsTypeOK, MsBucketsFit
<1>2. /\ msNow \in 0..MaxMsTime /\ MsQuota * MsWindow \in Nat /\ MaxMsRequests \in Nat
      /\ MsQuota \in Nat /\ MsWindow \in Nat /\ msSent \in Nat
  BY MsAssumption DEF MsInv, MsTypeOK
<1>3. new \in Bucket /\ MsBucketFits(new, msNow, msSent)
  <2>1. new \in Bucket
    BY <1>2, BucketIs
  <2>2. new.refill = msNow /\ new.since = msNow /\ new.used = 0 /\ new.tokens = MsQuota * MsWindow
    OBVIOUS
  <2>3. 0 * MsWindow + MsQuota * MsWindow <= MsQuota * (MsWindow + msNow - msNow)
    BY <1>2
  <2> HIDE DEF new
  <2> QED BY <1>2, <2>1, <2>2, <2>3 DEF MsBucketFits
<1>4. ip \notin evicted
  <2>1. CASE msBuckets[e][ip] = NoBucket /\ Cardinality(Held(e)) >= MaxBuckets
    <3>1. Held(e) # {}
      <4>1. Cardinality({}) = 0
        BY FS_EmptySet
      <4> QED BY <2>1, <4>1, MsAssumption
    <3>2. \A i \in Held(e) : msBuckets[e][i] \in Bucket /\ msBuckets[e][i].access \in Nat
      <4>1. \A i \in Held(e) : msBuckets[e][i] \in Bucket
        BY <1>1 DEF Held
      <4> QED BY <4>1, BucketFields
    <3> DEFINE T == {n \in Nat : \E i \in Held(e) : msBuckets[e][i].access = n}
    <3>3. T # {} /\ T \in SUBSET Nat
      BY <3>1, <3>2
    <3>4. PICK n \in T : \A m \in T : n <= m
      <4> HIDE DEF T
      <4> QED BY <3>3, LeastPosition, Zenon
    <3>5. \E i \in Held(e) : \A j \in Held(e) : msBuckets[e][i].access <= msBuckets[e][j].access
      BY <3>2, <3>4
    <3>6. \A i \in EvictOldest(e) : i \in Held(e)
      BY <3>5 DEF EvictOldest
    <3>7. ip \notin Held(e)
      BY <2>1 DEF Held
    <3> QED BY <2>1, <3>6, <3>7
  <2>2. CASE ~ (msBuckets[e][ip] = NoBucket /\ Cardinality(Held(e)) >= MaxBuckets)
    BY <2>2
  <2> QED BY <2>1, <2>2
<1>5. g = [i \in Ips |-> IF i \in evicted THEN NoBucket
                         ELSE IF i = ip /\ msBuckets[e][ip] = NoBucket THEN new ELSE msBuckets[e][i]]
  BY DEF GetOrCreateBucket
<1>6. MsBucketFits(NoBucket, msNow, msSent)
  BY DEF MsBucketFits
<1> HIDE DEF evicted, new
<1>7. \A i \in Ips : g[i] = NoBucket \/ g[i] = new \/ g[i] = msBuckets[e][i]
  BY <1>5
<1>8. g[ip] = new \/ (g[ip] = msBuckets[e][ip] /\ msBuckets[e][ip] # NoBucket)
  BY <1>4, <1>5
<1> HIDE DEF g, NoBucket
<1>9. \A i \in Ips : g[i] \in Bucket \cup {NoBucket} /\ MsBucketFits(g[i], msNow, msSent)
  BY <1>1, <1>3, <1>6, <1>7
<1>10. g[ip] \in Bucket
  BY <1>1, <1>3, <1>8
<1>11. g \in [Ips -> Bucket \cup {NoBucket}]
  BY <1>5, <1>9
<1> QED BY <1>9, <1>10, <1>11 DEF g

LEMMA AfterRateLimitFits ==
    ASSUME MsInv, NEW e \in Services, NEW ip \in Ips, msSent < MaxMsRequests
    PROVE  /\ AfterRateLimit(e, ip) \in [Services -> [Ips -> Bucket \cup {NoBucket}]]
           /\ \A f \in Services, i \in Ips : MsBucketFits(AfterRateLimit(e, ip)[f][i], msNow, msSent + 1)
<1> DEFINE g == GetOrCreateBucket(e, ip)
           b == RefillBucket(g[ip])
           x == IF b.tokens < MsWindow THEN b ELSE TakeToken(b)
           h == [g EXCEPT ![ip] = x]
           a == [msBuckets EXCEPT ![e] = h]
<1>1. /\ g \in [Ips -> Bucket \cup {NoBucket}] /\ g[ip] \in Bucket
      /\ \A i \in Ips : MsBucketFits(g[i], msNow, msSent)
  BY GetOrCreateFits
<1>2. /\ msNow \in Nat /\ msSent \in 0..MaxMsRequests /\ msSent \in Nat /\ msSent + 1 \in Nat /\ MsTypeOK
      /\ msNow <= msNow /\ msSent <= msSent + 1
  BY MsAssumption DEF MsInv, MsTypeOK
<1> HIDE DEF g
<1>3. b \in Bucket /\ MsBucketFits(b, msNow, msSent)
  BY <1>1, <1>2, RefillFits
<1> HIDE DEF b
<1>4. x \in Bucket /\ MsBucketFits(x, msNow, msSent + 1)
  <2>1. CASE b.tokens < MsWindow
    BY <1>2, <1>3, <2>1, BucketStillFits
  <2>2. CASE ~ (b.tokens < MsWindow)
    BY <1>2, <1>3, <2>2, TakeTokenFits
  <2> QED BY <2>1, <2>2
<1> HIDE DEF x
<1>5. h \in [Ips -> Bucket \cup {NoBucket}] /\ \A i \in Ips : h[i] = IF i = ip THEN x ELSE g[i]
  BY <1>1, <1>4
<1>6. \A i \in Ips : MsBucketFits(h[i], msNow, msSent + 1)
  <2> HIDE DEF h
  <2> QED BY <1>1, <1>2, <1>4, <1>5, BucketStillFits
<1> HIDE DEF h
<1>7. a \in [Services -> [Ips -> Bucket \cup {NoBucket}]] /\ \A f \in Services : a[f] = IF f = e THEN h ELSE msBuckets[f]
  BY <1>2, <1>5 DEF MsTypeOK
<1>8. ASSUME NEW f \in Services, NEW i \in Ips PROVE MsBucketFits(msBuckets[f][i], msNow, msSent + 1)
  BY <1>2, BucketStillFits DEF MsInv, MsBucketsFit
<1>9. \A f \in Services, i \in Ips : MsBucketFits(a[f][i], msNow, msSent + 1)
  <2> HIDE DEF a
  <2> QED BY <1>6, <1>7, <1>8
<1>10. AfterRateLimit(e, ip) = a
  BY DEF AfterRateLimit, a, h, x, b, g
<1> HIDE DEF a
<1> QED BY <1>7, <1>9, <1>10

-----------------------------------------------------------------------------
(* The clients.                                                            *)

\* The call of a client goes on without a slot, and no request gets a worse answer.
LEMMA MsClientMoves ==
    ASSUME MsInv, MsTypeOK', UNCHANGED msRevoked, NEW c \in MsClients, NEW k \in MsClientState,
           msClient' = [msClient EXCEPT ![c] = k], MsClientFits(k, msRevoked), k.slot = NoIp,
           \A s \in MsSlots : msRequest'[s].pc = "respond" /\ msRequest'[s].status = 200 =>
               /\ msRequest[s].pc = "respond" /\ msRequest[s].status = 200
               /\ msRequest'[s].revoked = msRequest[s].revoked
    PROVE  MsClientsFit' /\ MsAnswersFit'
<1>1. \A d \in MsClients : msClient'[d] = IF d = c THEN k ELSE msClient[d]
  BY DEF MsInv, MsTypeOK
<1>2. MsClientsFit'
  BY <1>1 DEF MsInv, MsClientsFit, MsClientFits
<1>3. MsAnswersFit'
  BY <1>1, MsAssumption DEF MsInv, MsAnswersFit, MsAnswerFits
<1> QED BY <1>2, <1>3

LEMMA MsBucketsStay ==
    ASSUME MsInv, UNCHANGED <<msBuckets, msNow, msSent>>
    PROVE  MsBucketsFit'
BY DEF MsInv, MsBucketsFit

LEMMA MsUsageStays ==
    ASSUME MsInv, UNCHANGED <<msUsage, msWrites, msFinished>>
    PROVE  \A p \in Payers : MsUsageFits(p)'
BY DEF MsInv, MsUsageFits

LEMMA CallServiceStep ==
    ASSUME MsInv, NEW c \in MsClients, NEW e \in Services, CallService(c, e)
    PROVE  MsInv'
<1> DEFINE k == [pc |-> "send", service |-> e, attempt |-> 0, slot |-> NoIp, wasRevoked |-> msRevoked, answer |-> "none"]
<1>1. /\ msClient' = [msClient EXCEPT ![c] = k]
      /\ UNCHANGED <<msNow, msKeysGood, msRevoked, msUsage, msWrites, msFinished, msBuckets, msRequest, msSent>>
  BY DEF CallService, ServiceUnchanged
<1>2. msRevoked \in BOOLEAN
  BY DEF MsInv, MsTypeOK
<1>3. k \in MsClientState
  BY <1>2, MsAssumption DEF MsClientState, MsAnswer
<1>4. MsClientFits(k, msRevoked) /\ k.slot = NoIp
  BY <1>2 DEF MsClientFits
<1> HIDE DEF k
<1>5. MsTypeOK'
  BY <1>1, <1>3 DEF MsInv, MsTypeOK
<1>6. MsClientsFit' /\ MsAnswersFit'
  BY <1>1, <1>3, <1>4, <1>5, MsClientMoves
<1> QED BY <1>1, <1>5, <1>6, MsBucketsStay, MsUsageStays DEF MsInv

LEMMA SendRequestStep ==
    ASSUME MsInv, NEW c \in MsClients, NEW s \in MsSlots, SendRequest(c, s)
    PROVE  MsInv'
<1> DEFINE e == msClient[c].service
           ip == MsIpOf[c]
           limited == RateLimited(e, ip)
           r == [pc |-> IF limited THEN "respond" ELSE IF MsKeyOf[c] = NoKey THEN "handle" ELSE "lookup",
                 service |-> e, key |-> MsKeyOf[c], payer |-> NoKey,
                 status |-> IF limited THEN 429 ELSE 0, revoked |-> FALSE, open |-> TRUE]
           k == Moved(msClient[c], "wait", msClient[c].attempt, s, msClient[c].answer)
<1>1. /\ msClient' = [msClient EXCEPT ![c] = k] /\ msRequest' = [msRequest EXCEPT ![s] = r]
      /\ msBuckets' = AfterRateLimit(e, ip) /\ msSent < MaxMsRequests /\ msSent' = msSent + 1
      /\ UNCHANGED <<msNow, msKeysGood, msRevoked, msUsage, msWrites, msFinished>>
  BY DEF SendRequest, ServiceUnchanged
<1>2. msClient[c] \in MsClientState /\ e \in Services /\ ip \in Ips /\ MsKeyOf[c] \in Payers
  BY MsClientFields, MsAssumption DEF MsInv, MsTypeOK
<1>3. r \in MsRequestState /\ r.status # 200
  <2>1. limited \in BOOLEAN
    BY DEF RateLimited
  <2> HIDE DEF limited, e
  <2> QED BY <1>2, <2>1 DEF MsRequestState, MsStatus, Payers
<1>4. /\ k \in MsClientState /\ k.pc = "wait" /\ k.slot = s
      /\ k.wasRevoked = msClient[c].wasRevoked /\ k.answer = msClient[c].answer
  BY <1>2, MsClientFields, MovedFields
<1> HIDE DEF r, k, e, ip
<1>5. /\ msBuckets' \in [Services -> [Ips -> Bucket \cup {NoBucket}]]
      /\ \A f \in Services, i \in Ips : MsBucketFits(msBuckets'[f][i], msNow, msSent + 1)
  BY <1>1, <1>2, AfterRateLimitFits
<1>6. MsTypeOK'
  <2>1. msSent + 1 \in 0..MaxMsRequests
    BY <1>1, MsAssumption DEF MsInv, MsTypeOK
  <2>2. msRequest' \in [MsSlots -> MsRequestState] /\ msClient' \in [MsClients -> MsClientState]
    BY <1>1, <1>3, <1>4 DEF MsInv, MsTypeOK
  <2> QED BY <1>1, <1>5, <2>1, <2>2 DEF MsInv, MsTypeOK
<1>7. MsBucketsFit'
  BY <1>1, <1>5 DEF MsBucketsFit
<1>8. \A d \in MsClients : msClient'[d] = IF d = c THEN k ELSE msClient[d]
  BY <1>1 DEF MsInv, MsTypeOK
<1>9. \A t \in MsSlots : msRequest'[t] = IF t = s THEN r ELSE msRequest[t]
  BY <1>1 DEF MsInv, MsTypeOK
<1>10. MsClientsFit'
  BY <1>1, <1>4, <1>8 DEF MsInv, MsClientsFit, MsClientFits
<1>11. MsAnswersFit'
  BY <1>3, <1>4, <1>8, <1>9 DEF MsInv, MsAnswersFit, MsAnswerFits
<1> QED BY <1>1, <1>6, <1>7, <1>10, <1>11, MsUsageStays DEF MsInv

\* The end of a call and another attempt.
LEMMA EndCallMoves ==
    ASSUME MsInv, NEW c \in MsClients, NEW answer \in MsAnswer, answer = "valid" => msClient[c].wasRevoked = FALSE,
           EndCall(c, answer)
    PROVE  \E k \in MsClientState : msClient' = [msClient EXCEPT ![c] = k] /\ MsClientFits(k, msRevoked) /\ k.slot = NoIp
<1> DEFINE k == Moved(msClient[c], "idle", msClient[c].attempt, NoIp, answer)
<1>1. msClient[c] \in MsClientState /\ MsClientFits(msClient[c], msRevoked)
  BY DEF MsInv, MsTypeOK, MsClientsFit
<1>2. /\ k \in MsClientState /\ k.pc = "idle" /\ k.slot = NoIp
      /\ k.wasRevoked = msClient[c].wasRevoked /\ k.answer = answer
  BY <1>1, MsClientFields DEF Moved, MsClientState
<1>3. msClient' = [msClient EXCEPT ![c] = k]
  BY DEF EndCall
<1> HIDE DEF k
<1>4. MsClientFits(k, msRevoked)
  BY <1>1, <1>2 DEF MsClientFits
<1> QED BY <1>2, <1>3, <1>4

LEMMA ServerErrorMoves ==
    ASSUME MsInv, NEW c \in MsClients, ServerError(c)
    PROVE  \E k \in MsClientState : msClient' = [msClient EXCEPT ![c] = k] /\ MsClientFits(k, msRevoked) /\ k.slot = NoIp
<1>1. msClient[c] \in MsClientState /\ MsClientFits(msClient[c], msRevoked)
  BY DEF MsInv, MsTypeOK, MsClientsFit
<1>2. CASE msClient[c].attempt < MsRetries
  <2> DEFINE k == Moved(msClient[c], "send", msClient[c].attempt + 1, NoIp, msClient[c].answer)
  <2>1. msClient[c].attempt + 1 \in 0..MsRetries
    BY <1>1, <1>2, MsClientFields, MsAssumption
  <2>2. /\ k \in MsClientState /\ k.pc = "send" /\ k.slot = NoIp
        /\ k.wasRevoked = msClient[c].wasRevoked /\ k.answer = msClient[c].answer
    BY <1>1, <2>1, MsClientFields DEF Moved, MsClientState
  <2>3. msClient' = [msClient EXCEPT ![c] = k]
    BY <1>2 DEF ServerError
  <2> HIDE DEF k
  <2>4. MsClientFits(k, msRevoked)
    BY <1>1, <2>2 DEF MsClientFits
  <2> QED BY <2>2, <2>3, <2>4
<1>3. CASE ~ (msClient[c].attempt < MsRetries)
  <2>1. EndCall(c, Fallback(msClient[c].service))
    BY <1>3 DEF ServerError
  <2>2. Fallback(msClient[c].service) \in MsAnswer /\ Fallback(msClient[c].service) # "valid"
    BY DEF Fallback, MsAnswer
  <2> QED BY <2>1, <2>2, EndCallMoves
<1> QED BY <1>2, <1>3

LEMMA TimeoutRequestStep ==
    ASSUME MsInv, NEW c \in MsClients, TimeoutRequest(c)
    PROVE  MsInv'
<1> DEFINE s == msClient[c].slot
           r == [msRequest[s] EXCEPT !.open = FALSE]
<1>1. PICK k \in MsClientState : msClient' = [msClient EXCEPT ![c] = k] /\ MsClientFits(k, msRevoked) /\ k.slot = NoIp
  BY ServerErrorMoves DEF TimeoutRequest
<1>2. /\ msRequest' = [msRequest EXCEPT ![s] = r]
      /\ UNCHANGED <<msNow, msKeysGood, msRevoked, msUsage, msWrites, msFinished, msBuckets, msSent>>
  BY DEF TimeoutRequest, ServiceUnchanged
<1>3. \A t \in MsSlots : /\ msRequest'[t] \in MsRequestState /\ msRequest'[t].pc = msRequest[t].pc
                         /\ msRequest'[t].status = msRequest[t].status /\ msRequest'[t].revoked = msRequest[t].revoked
  <2>1. ASSUME NEW x \in MsRequestState
        PROVE  LET y == [x EXCEPT !.open = FALSE]
               IN  y \in MsRequestState /\ y.pc = x.pc /\ y.status = x.status /\ y.revoked = x.revoked
    BY DEF MsRequestState
  <2>2. \A t \in MsSlots : msRequest[t] \in MsRequestState /\ msRequest'[t] = IF t = s THEN r ELSE msRequest[t]
    BY <1>2 DEF MsInv, MsTypeOK
  <2> QED BY <2>1, <2>2
<1>4. msRequest' \in [MsSlots -> MsRequestState]
  BY <1>2, <1>3 DEF MsInv, MsTypeOK
<1>5. MsTypeOK'
  BY <1>1, <1>2, <1>4 DEF MsInv, MsTypeOK
<1>6. MsClientsFit' /\ MsAnswersFit'
  BY <1>1, <1>2, <1>3, <1>5, MsClientMoves
<1> QED BY <1>2, <1>5, <1>6, MsBucketsStay, MsUsageStays DEF MsInv

-----------------------------------------------------------------------------
(* The server.                                                             *)

\* A request takes a step; an answer 200 says what is known now.
MsRequestFits(r) == r \in MsRequestState /\ (r.pc = "respond" /\ r.status = 200 => r.revoked = msRevoked)

LEMMA MsRequestMoves ==
    ASSUME MsInv, NEW s \in MsSlots, NEW r, MsRequestFits(r), msRequest' = [msRequest EXCEPT ![s] = r],
           UNCHANGED <<msBuckets, msClient, msSent, msNow, msKeysGood, msRevoked, msUsage, msWrites, msFinished>>
    PROVE  MsInv'
<1>1. MsTypeOK'
  BY DEF MsInv, MsTypeOK, MsRequestFits
<1>2. \A t \in MsSlots : msRequest'[t] = IF t = s THEN r ELSE msRequest[t]
  BY DEF MsInv, MsTypeOK
<1>3. MsClientsFit'
  BY DEF MsInv, MsClientsFit
<1>4. MsAnswersFit'
  BY <1>2 DEF MsRequestFits, MsInv, MsTypeOK, MsAnswersFit, MsAnswerFits, MsClientsFit, MsClientFits
<1> QED BY <1>1, <1>3, <1>4, MsBucketsStay, MsUsageStays DEF MsInv

LEMMA MsRequestWith ==
    ASSUME NEW r \in MsRequestState
    PROVE  /\ \A pc \in {"free", "lookup", "handle", "respond"} :
                /\ [r EXCEPT !.pc = pc] \in MsRequestState /\ [r EXCEPT !.pc = pc].pc = pc
                /\ [r EXCEPT !.pc = pc].status = r.status
           /\ \A p \in Payers :
                /\ [r EXCEPT !.payer = p] \in MsRequestState /\ [r EXCEPT !.payer = p].pc = r.pc
           /\ \A status \in MsStatus :
                /\ [r EXCEPT !.status = status] \in MsRequestState /\ [r EXCEPT !.status = status].pc = r.pc
                /\ [r EXCEPT !.status = status].status = status
           /\ \A b \in BOOLEAN :
                /\ [r EXCEPT !.revoked = b] \in MsRequestState /\ [r EXCEPT !.revoked = b].pc = r.pc
                /\ [r EXCEPT !.revoked = b].status = r.status /\ [r EXCEPT !.revoked = b].revoked = b
<1>1. ASSUME NEW pc \in {"free", "lookup", "handle", "respond"}
      PROVE  /\ [r EXCEPT !.pc = pc] \in MsRequestState /\ [r EXCEPT !.pc = pc].pc = pc
             /\ [r EXCEPT !.pc = pc].status = r.status
  BY DEF MsRequestState
<1>2. ASSUME NEW p \in Payers
      PROVE  [r EXCEPT !.payer = p] \in MsRequestState /\ [r EXCEPT !.payer = p].pc = r.pc
  BY DEF MsRequestState
<1>3. ASSUME NEW status \in MsStatus
      PROVE  /\ [r EXCEPT !.status = status] \in MsRequestState /\ [r EXCEPT !.status = status].pc = r.pc
             /\ [r EXCEPT !.status = status].status = status
  BY DEF MsRequestState
<1>4. ASSUME NEW b \in BOOLEAN
      PROVE  /\ [r EXCEPT !.revoked = b] \in MsRequestState /\ [r EXCEPT !.revoked = b].pc = r.pc
             /\ [r EXCEPT !.revoked = b].status = r.status /\ [r EXCEPT !.revoked = b].revoked = b
  BY DEF MsRequestState
<1> QED BY <1>1, <1>2, <1>3, <1>4

LEMMA LookupApiKeyStep ==
    ASSUME MsInv, NEW s \in MsSlots, LookupApiKey(s)
    PROVE  MsInv'
<1> DEFINE k == msRequest[s].key
           a == [msRequest[s] EXCEPT !.pc = "handle"]
           b == [msRequest[s] EXCEPT !.pc = "respond"]
           y == [a EXCEPT !.payer = k]
           n == [b EXCEPT !.status = 401]
<1>1. /\ msRequest' = [msRequest EXCEPT ![s] = IF KeyAccepted(k) THEN y ELSE n]
      /\ UNCHANGED <<msBuckets, msClient, msSent, msNow, msKeysGood, msRevoked, msUsage, msWrites, msFinished>>
  BY DEF LookupApiKey, ServiceUnchanged
<1>2. msRequest[s] \in MsRequestState /\ k \in Payers
  BY MsRequestFields DEF MsInv, MsTypeOK
<1>3. a \in MsRequestState /\ a.pc = "handle" /\ b \in MsRequestState /\ b.pc = "respond"
  BY <1>2, MsRequestWith
<1> HIDE DEF a, b, k
<1>4. y \in MsRequestState /\ y.pc = "handle" /\ n \in MsRequestState /\ n.status = 401
  <2>1. 401 \in MsStatus
    BY DEF MsStatus
  <2>2. y \in MsRequestState /\ y.pc = a.pc
    BY <1>2, <1>3 DEF MsRequestState
  <2>3. n \in MsRequestState /\ n.status = 401
    BY <1>3, <2>1 DEF MsRequestState
  <2> QED BY <1>3, <2>2, <2>3
<1> HIDE DEF y, n
<1>5. CASE KeyAccepted(k)
  <2>1. msRequest' = [msRequest EXCEPT ![s] = y] /\ ~ (y.pc = "respond")
    BY <1>1, <1>4, <1>5
  <2>2. MsRequestFits(y)
    BY <1>4 DEF MsRequestFits
  <2> QED BY <1>1, <2>1, <2>2, MsRequestMoves
<1>6. CASE ~ KeyAccepted(k)
  <2>1. msRequest' = [msRequest EXCEPT ![s] = n] /\ ~ (n.status = 200)
    BY <1>1, <1>4, <1>6
  <2>2. MsRequestFits(n)
    BY <1>4 DEF MsRequestFits
  <2> QED BY <1>1, <2>1, <2>2, MsRequestMoves
<1> QED BY <1>5, <1>6

LEMMA RespondStep ==
    ASSUME MsInv, NEW s \in MsSlots, NEW status \in MsStatus, Respond(s, status)
    PROVE  MsInv'
<1> DEFINE a == [msRequest[s] EXCEPT !.pc = "respond"]
           b == [a EXCEPT !.status = status]
           r == [b EXCEPT !.revoked = msRevoked]
<1>1. /\ msRequest' = [msRequest EXCEPT ![s] = r]
      /\ UNCHANGED <<msBuckets, msClient, msSent, msNow, msKeysGood, msRevoked, msUsage, msWrites, msFinished>>
  BY DEF Respond, ServiceUnchanged
<1>2. msRequest[s] \in MsRequestState /\ msRevoked \in BOOLEAN
  BY DEF MsInv, MsTypeOK
<1>3. a \in MsRequestState
  BY <1>2, MsRequestWith
<1> HIDE DEF a
<1>4. b \in MsRequestState
  BY <1>3, MsRequestWith
<1> HIDE DEF b
<1>5. r \in MsRequestState
  BY <1>2, <1>4 DEF MsRequestState
<1>6. r.revoked = msRevoked
  BY <1>4 DEF MsRequestState
<1> HIDE DEF r
<1>7. MsRequestFits(r)
  BY <1>5, <1>6 DEF MsRequestFits
<1> QED BY <1>1, <1>7, MsRequestMoves

LEMMA FinishResponseStep ==
    ASSUME MsInv, NEW s \in MsSlots, FinishResponse(s)
    PROVE  MsInv'
<1> DEFINE r == msRequest[s]
           p == r.payer
<1>1. /\ r.pc = "respond" /\ msRequest' = [msRequest EXCEPT ![s] = FreeSlot]
      /\ UNCHANGED <<msNow, msKeysGood, msRevoked, msBuckets, msUsage, msSent>>
  BY DEF FinishResponse
<1>2. r \in MsRequestState /\ p \in Payers /\ r.status \in MsStatus /\ r.service \in Services /\ r.revoked \in BOOLEAN
      /\ r.open \in BOOLEAN
  BY MsRequestFields DEF MsInv, MsTypeOK
<1>3. FreeSlot \in MsRequestState /\ FreeSlot.pc = "free"
  BY DEF FreeSlot, MsRequestState, Services, Payers, MsStatus
<1>4. \A t \in MsSlots : msRequest'[t] = IF t = s THEN FreeSlot ELSE msRequest[t]
  BY <1>1 DEF MsInv, MsTypeOK
<1>5. /\ msWrites' \in [Payers -> UsageRow] /\ msFinished' \in [Payers -> UsageRow]
      /\ \A q \in Payers : MsUsageFits(q)'
  <2>1. CASE UNCHANGED <<msWrites, msFinished>>
    BY <1>1, <2>1 DEF MsInv, MsTypeOK, MsUsageFits
  <2>2. CASE /\ msWrites' = Counted(msWrites, p, IsError(s))
             /\ msFinished' = Counted(msFinished, p, IsError(s))
    <3> DEFINE n == IsError(s)
    <3>1. n \in {0, 1}
      BY DEF IsError
    <3>2. \A q \in Payers : /\ msWrites[q] \in UsageRow /\ msFinished[q] \in UsageRow /\ msUsage[q] \in UsageRow
                            /\ MsUsageFits(q)
      BY DEF MsInv, MsTypeOK
    <3>3. /\ msWrites' = [msWrites EXCEPT ![p] = [count |-> msWrites[p].count + 1, errors |-> msWrites[p].errors + n]]
          /\ msFinished' = [msFinished EXCEPT ![p] = [count |-> msFinished[p].count + 1, errors |-> msFinished[p].errors + n]]
      BY <2>2 DEF Counted, MsInv, MsTypeOK
    <3> HIDE DEF n, p
    <3>4. /\ [count |-> msWrites[p].count + 1, errors |-> msWrites[p].errors + n] \in UsageRow
          /\ [count |-> msFinished[p].count + 1, errors |-> msFinished[p].errors + n] \in UsageRow
      BY <1>2, <3>1, <3>2 DEF UsageRow
    <3>5. msWrites' \in [Payers -> UsageRow] /\ msFinished' \in [Payers -> UsageRow]
      BY <3>3, <3>4 DEF MsInv, MsTypeOK
    <3>6. ASSUME NEW q \in Payers PROVE MsUsageFits(q)'
      <4>1. CASE q = p
        <5>1. /\ msWrites'[p].count = msWrites[p].count + 1 /\ msWrites'[p].errors = msWrites[p].errors + n
              /\ msFinished'[p].count = msFinished[p].count + 1 /\ msFinished'[p].errors = msFinished[p].errors + n
          BY <1>2, <3>3 DEF MsInv, MsTypeOK
        <5>2. /\ msWrites[p].count \in Nat /\ msWrites[p].errors \in Nat /\ msFinished[p].count \in Nat
              /\ msFinished[p].errors \in Nat /\ msUsage[p].count \in Nat /\ msUsage[p].errors \in Nat
              /\ MsUsageFits(p)
          BY <1>2, <3>2 DEF UsageRow
        <5>3. msUsage' = msUsage
          BY <1>1
        <5> QED BY <3>1, <4>1, <5>1, <5>2, <5>3 DEF MsUsageFits
      <4>2. CASE q # p
        BY <1>1, <3>2, <3>3, <4>2 DEF MsUsageFits, MsInv, MsTypeOK
      <4> QED BY <4>1, <4>2
    <3> QED BY <3>5, <3>6
  <2> QED BY <2>1, <2>2 DEF FinishResponse
<1>6. msClient' \in [MsClients -> MsClientState] /\ MsClientsFit' /\ MsAnswersFit'
  <2>1. CASE UNCHANGED msClient
    <3>1. MsClientsFit'
      BY <1>1, <2>1 DEF MsInv, MsClientsFit
    <3>2. MsAnswersFit'
      BY <1>3, <1>4, <2>1 DEF MsInv, MsAnswersFit, MsAnswerFits
    <3> QED BY <2>1, <3>1, <3>2 DEF MsInv, MsTypeOK
  <2>2. ASSUME NEW c \in MsClients, msClient[c].slot = s, TakeAnswer(c, r)
        PROVE  msClient' \in [MsClients -> MsClientState] /\ MsClientsFit' /\ MsAnswersFit'
    <3>1. MsAnswerFits(msClient[c], r) /\ msClient[c].wasRevoked \in BOOLEAN
      BY <2>2, MsClientFields DEF MsInv, MsAnswersFit, MsTypeOK
    <3>2. \E k \in MsClientState : msClient' = [msClient EXCEPT ![c] = k] /\ MsClientFits(k, msRevoked) /\ k.slot = NoIp
      <4>1. CASE r.status = 200
        <5> DEFINE a == IF r.service = "resolver" THEN "document" ELSE IF r.revoked THEN "revoked" ELSE "valid"
        <5>1. EndCall(c, a) /\ a \in MsAnswer
          BY <2>2, <4>1 DEF TakeAnswer, MsAnswer
        <5>2. a = "valid" => r.revoked = FALSE
          BY <1>2
        <5>3. a = "valid" => msClient[c].wasRevoked = FALSE
          BY <1>1, <3>1, <4>1, <5>2 DEF MsAnswerFits
        <5> HIDE DEF a
        <5> QED BY <5>1, <5>3, EndCallMoves
      <4>2. CASE r.status # 200 /\ EndCall(c, "noDocument")
        BY <4>2, EndCallMoves DEF MsAnswer
      <4>3. CASE r.status # 200 /\ EndCall(c, "thrown")
        BY <4>3, EndCallMoves DEF MsAnswer
      <4>4. CASE ServerError(c)
        BY <4>4, ServerErrorMoves
      <4> QED BY <2>2, <4>1, <4>2, <4>3, <4>4 DEF TakeAnswer
    <3>3. PICK k \in MsClientState : msClient' = [msClient EXCEPT ![c] = k] /\ MsClientFits(k, msRevoked) /\ k.slot = NoIp
      BY <3>2
    <3>4. \A d \in MsClients : msClient'[d] = IF d = c THEN k ELSE msClient[d]
      BY <3>3 DEF MsInv, MsTypeOK
    <3>5. MsClientsFit'
      BY <1>1, <3>3, <3>4 DEF MsInv, MsClientsFit, MsClientFits
    <3>6. MsAnswersFit'
      BY <1>3, <1>4, <3>3, <3>4, MsAssumption DEF MsInv, MsAnswersFit, MsAnswerFits
    <3> QED BY <3>3, <3>5, <3>6 DEF MsInv, MsTypeOK
  <2> QED BY <1>2, <2>1, <2>2 DEF FinishResponse
<1>7. MsTypeOK'
  <2>1. msRequest' \in [MsSlots -> MsRequestState]
    BY <1>1, <1>3 DEF MsInv, MsTypeOK
  <2> QED BY <1>1, <1>5, <1>6, <2>1 DEF MsInv, MsTypeOK
<1> QED BY <1>1, <1>5, <1>6, <1>7, MsBucketsStay DEF MsInv

\* A usage record reaches the database or is lost.
LEMMA UsageStep ==
    ASSUME MsInv, NEW p \in Payers, NEW n \in {0, 1}, RecordUsage(p, n) \/ UsageWriteFails(p, n)
    PROVE  MsInv'
<1>1. UNCHANGED <<msNow, msKeysGood, msRevoked, msBuckets, msRequest, msClient, msSent>> /\ Pending(p, n)
  BY DEF RecordUsage, UsageWriteFails
<1>2. \A q \in Payers : /\ msWrites[q] \in UsageRow /\ msFinished[q] \in UsageRow /\ msUsage[q] \in UsageRow
                        /\ MsUsageFits(q)
  BY DEF MsInv, MsTypeOK
<1>3. /\ msWrites[p].count \in Nat /\ msWrites[p].errors \in Nat /\ msFinished[p].count \in Nat
      /\ msFinished[p].errors \in Nat /\ msUsage[p].count \in Nat /\ msUsage[p].errors \in Nat
      /\ msWrites[p].errors <= msWrites[p].count
      /\ msUsage[p].count + msWrites[p].count = msFinished[p].count
      /\ msUsage[p].errors + msWrites[p].errors = msFinished[p].errors
  BY <1>2 DEF UsageRow, MsUsageFits
<1>4. /\ msWrites[p].count - 1 \in Nat /\ msWrites[p].errors - n \in Nat
      /\ msWrites[p].errors - n <= msWrites[p].count - 1
      /\ msFinished[p].count - 1 \in Nat /\ msFinished[p].errors - n \in Nat
  BY <1>1, <1>3 DEF Pending
<1>5. msWrites' = [msWrites EXCEPT ![p] = [count |-> msWrites[p].count - 1, errors |-> msWrites[p].errors - n]]
  BY DEF RecordUsage, UsageWriteFails, Uncounted, MsInv, MsTypeOK
<1>6. [count |-> msWrites[p].count - 1, errors |-> msWrites[p].errors - n] \in UsageRow
  BY <1>4 DEF UsageRow
<1>7. msWrites' \in [Payers -> UsageRow]
  BY <1>5, <1>6 DEF MsInv, MsTypeOK
<1>8. \A q \in Payers : q # p => msWrites'[q] = msWrites[q]
  BY <1>5 DEF MsInv, MsTypeOK
<1>9. msWrites'[p].count = msWrites[p].count - 1 /\ msWrites'[p].errors = msWrites[p].errors - n
  BY <1>5 DEF MsInv, MsTypeOK
<1>10. /\ msUsage' \in [Payers -> UsageRow] /\ msFinished' \in [Payers -> UsageRow]
       /\ \A q \in Payers : MsUsageFits(q)'
  <2>1. CASE RecordUsage(p, n)
    <3>1. /\ msUsage' = [msUsage EXCEPT ![p] = [count |-> msUsage[p].count + 1, errors |-> msUsage[p].errors + n]]
          /\ msFinished' = msFinished
      BY <2>1 DEF RecordUsage, RunIncr, Counted, MsInv, MsTypeOK
    <3>2. [count |-> msUsage[p].count + 1, errors |-> msUsage[p].errors + n] \in UsageRow
      BY <1>3 DEF UsageRow
    <3>3. msUsage' \in [Payers -> UsageRow] /\ \A q \in Payers : q # p => msUsage'[q] = msUsage[q]
      BY <3>1, <3>2 DEF MsInv, MsTypeOK
    <3>4. msUsage'[p].count = msUsage[p].count + 1 /\ msUsage'[p].errors = msUsage[p].errors + n
      BY <3>1 DEF MsInv, MsTypeOK
    <3>5. MsUsageFits(p)'
      <4>1. msFinished' = msFinished
        BY <3>1
      <4>2. msUsage'[p].count + msWrites'[p].count = msFinished[p].count
        <5> DEFINE u == msUsage[p].count
                   w == msWrites[p].count
        <5>1. u \in Nat /\ w \in Nat /\ u + w = msFinished[p].count
          BY <1>3
        <5> HIDE DEF u, w
        <5>2. (u + 1) + (w - 1) = u + w
          BY <5>1
        <5> QED BY <1>9, <3>4, <5>1, <5>2 DEF u, w
      <4>3. msUsage'[p].errors + msWrites'[p].errors = msFinished[p].errors
        <5> DEFINE u == msUsage[p].errors
                   w == msWrites[p].errors
        <5>1. u \in Nat /\ w \in Nat /\ n \in Nat /\ u + w = msFinished[p].errors
          BY <1>3
        <5> HIDE DEF u, w
        <5>2. (u + n) + (w - n) = u + w
          BY <5>1
        <5> QED BY <1>9, <3>4, <5>1, <5>2 DEF u, w
      <4>4. msWrites'[p].errors <= msWrites'[p].count
        BY <1>4, <1>9
      <4> QED BY <4>1, <4>2, <4>3, <4>4 DEF MsUsageFits
    <3>6. \A q \in Payers : q # p => MsUsageFits(q)'
      BY <1>2, <1>8, <3>1, <3>3 DEF MsUsageFits
    <3> QED BY <3>1, <3>3, <3>5, <3>6 DEF MsInv, MsTypeOK
  <2>2. CASE UsageWriteFails(p, n)
    <3>1. /\ msFinished' = [msFinished EXCEPT ![p] = [count |-> msFinished[p].count - 1, errors |-> msFinished[p].errors - n]]
          /\ msUsage' = msUsage
      BY <2>2 DEF UsageWriteFails, Uncounted, MsInv, MsTypeOK
    <3>2. [count |-> msFinished[p].count - 1, errors |-> msFinished[p].errors - n] \in UsageRow
      BY <1>4 DEF UsageRow
    <3>3. msFinished' \in [Payers -> UsageRow] /\ \A q \in Payers : q # p => msFinished'[q] = msFinished[q]
      BY <3>1, <3>2 DEF MsInv, MsTypeOK
    <3>4. msFinished'[p].count = msFinished[p].count - 1 /\ msFinished'[p].errors = msFinished[p].errors - n
      BY <3>1 DEF MsInv, MsTypeOK
    <3>5. MsUsageFits(p)'
      <4>1. msUsage' = msUsage
        BY <3>1
      <4>2. msUsage[p].count + msWrites'[p].count = msFinished'[p].count
        <5> DEFINE u == msUsage[p].count
                   w == msWrites[p].count
        <5>1. u \in Nat /\ w \in Nat /\ u + w = msFinished[p].count
          BY <1>3
        <5> HIDE DEF u, w
        <5>2. u + (w - 1) = (u + w) - 1
          BY <5>1
        <5> QED BY <1>9, <3>4, <5>1, <5>2 DEF u, w
      <4>3. msUsage[p].errors + msWrites'[p].errors = msFinished'[p].errors
        <5> DEFINE u == msUsage[p].errors
                   w == msWrites[p].errors
        <5>1. u \in Nat /\ w \in Nat /\ n \in Nat /\ u + w = msFinished[p].errors
          BY <1>3
        <5> HIDE DEF u, w
        <5>2. u + (w - n) = (u + w) - n
          BY <5>1
        <5> QED BY <1>9, <3>4, <5>1, <5>2 DEF u, w
      <4>4. msWrites'[p].errors <= msWrites'[p].count
        BY <1>4, <1>9
      <4> QED BY <4>1, <4>2, <4>3, <4>4 DEF MsUsageFits
    <3>6. \A q \in Payers : q # p => MsUsageFits(q)'
      BY <1>2, <1>8, <3>1, <3>3 DEF MsUsageFits
    <3> QED BY <3>1, <3>3, <3>5, <3>6 DEF MsInv, MsTypeOK
  <2> QED BY <2>1, <2>2
<1>11. MsTypeOK'
  BY <1>1, <1>7, <1>10 DEF MsInv, MsTypeOK
<1>12. MsClientsFit' /\ MsAnswersFit'
  BY <1>1 DEF MsInv, MsClientsFit, MsAnswersFit
<1> QED BY <1>1, <1>10, <1>11, <1>12, MsBucketsStay DEF MsInv

-----------------------------------------------------------------------------

LEMMA MsStart == MsInit => MsInv
<1> SUFFICES ASSUME MsInit PROVE MsInv
  OBVIOUS
<1>1. FreeSlot \in MsRequestState /\ IdleClient \in MsClientState /\ ZeroUsage \in UsageRow
  BY MsAssumption DEF FreeSlot, MsRequestState, Services, Payers, MsStatus, IdleClient, MsClientState, MsAnswer, ZeroUsage, UsageRow
<1>2. \A e \in Services : msBuckets[e] \in [Ips -> Bucket \cup {NoBucket}]
  BY DEF MsInit
<1>3. MsTypeOK
  <2>1. 0 \in 0..MaxMsTime /\ 0 \in 0..MaxMsRequests
    BY MsAssumption
  <2>2. /\ msRequest \in [MsSlots -> MsRequestState] /\ msClient \in [MsClients -> MsClientState]
        /\ msUsage \in [Payers -> UsageRow] /\ msWrites \in [Payers -> UsageRow] /\ msFinished \in [Payers -> UsageRow]
    BY <1>1 DEF MsInit
  <2>3. msBuckets \in [Services -> [Ips -> Bucket \cup {NoBucket}]]
    BY <1>2 DEF MsInit
  <2> QED BY <2>1, <2>2, <2>3 DEF MsInit, MsTypeOK
<1>4. MsClientsFit
  BY DEF MsInit, IdleClient, MsClientsFit, MsClientFits
<1>5. MsAnswersFit
  BY DEF MsInit, FreeSlot, MsAnswersFit, MsAnswerFits
<1>6. MsBucketsFit
  BY DEF MsInit, MsBucketsFit, MsBucketFits
<1>7. \A p \in Payers : MsUsageFits(p)
  BY DEF MsInit, MsUsageFits, ZeroUsage
<1> QED BY <1>3, <1>4, <1>5, <1>6, <1>7 DEF MsInv

LEMMA MsStep == MsInv /\ [MsNext]_msVars => MsInv'
<1> SUFFICES ASSUME MsInv, [MsNext]_msVars PROVE MsInv'
  OBVIOUS
<1>1. ASSUME NEW c \in MsClients, NEW e \in Services, CallService(c, e) PROVE MsInv'
  BY <1>1, CallServiceStep
<1>2. ASSUME NEW c \in MsClients, NEW s \in MsSlots, SendRequest(c, s) PROVE MsInv'
  BY <1>2, SendRequestStep
<1>3. ASSUME NEW c \in MsClients, TimeoutRequest(c) PROVE MsInv'
  BY <1>3, TimeoutRequestStep
<1>4. ASSUME NEW s \in MsSlots, LookupApiKey(s) PROVE MsInv'
  BY <1>4, LookupApiKeyStep
<1>5. ASSUME NEW s \in MsSlots, HandlerFails(s) \/ HandleRevocationCheck(s) \/ HandleResolve(s) PROVE MsInv'
  <2>1. \E status \in MsStatus : Respond(s, status)
    BY <1>5 DEF HandlerFails, HandleRevocationCheck, HandleResolve, MsStatus
  <2> QED BY <2>1, RespondStep
<1>6. ASSUME NEW s \in MsSlots, FinishResponse(s) PROVE MsInv'
  BY <1>6, FinishResponseStep
<1>7. ASSUME NEW p \in Payers, NEW n \in {0, 1}, RecordUsage(p, n) \/ UsageWriteFails(p, n) PROVE MsInv'
  BY <1>7, UsageStep
<1>8. ASSUME NEW k \in MsKeys, EndKey(k) PROVE MsInv'
  <2>1. /\ msKeysGood' \subseteq MsKeys
        /\ UNCHANGED <<msNow, msRevoked, msBuckets, msRequest, msClient, msUsage, msWrites, msFinished, msSent>>
    BY <1>8 DEF EndKey, MsInv, MsTypeOK
  <2>2. MsTypeOK' /\ MsClientsFit' /\ MsAnswersFit'
    BY <2>1 DEF MsInv, MsTypeOK, MsClientsFit, MsAnswersFit
  <2> QED BY <2>1, <2>2, MsBucketsStay, MsUsageStays DEF MsInv
<1>9. CASE RevokeCredential
  <2>1. /\ msRevoked' = TRUE
        /\ UNCHANGED <<msNow, msKeysGood, msBuckets, msRequest, msClient, msUsage, msWrites, msFinished, msSent>>
    BY <1>9 DEF RevokeCredential
  <2>2. MsTypeOK' /\ MsAnswersFit'
    BY <2>1 DEF MsInv, MsTypeOK, MsAnswersFit
  <2>3. MsClientsFit'
    BY <2>1 DEF MsInv, MsClientsFit, MsClientFits
  <2> QED BY <2>1, <2>2, <2>3, MsBucketsStay, MsUsageStays DEF MsInv
<1>10. CASE MsTick
  <2>1. /\ msNow' = msNow + 1 /\ msNow < MaxMsTime
        /\ UNCHANGED <<msKeysGood, msRevoked, msBuckets, msRequest, msClient, msUsage, msWrites, msFinished, msSent>>
    BY <1>10 DEF MsTick
  <2>2. msNow \in Nat /\ msNow' \in Nat /\ msNow' \in 0..MaxMsTime /\ msSent \in Nat /\ msNow <= msNow' /\ msSent <= msSent
    BY <2>1, MsAssumption DEF MsInv, MsTypeOK
  <2>3. MsTypeOK' /\ MsClientsFit' /\ MsAnswersFit'
    BY <2>1, <2>2 DEF MsInv, MsTypeOK, MsClientsFit, MsAnswersFit
  <2>4. ASSUME NEW e \in Services, NEW i \in Ips PROVE MsBucketFits(msBuckets[e][i], msNow', msSent)
    BY <2>2, BucketStillFits DEF MsInv, MsBucketsFit
  <2>5. MsBucketsFit'
    BY <2>1, <2>4 DEF MsBucketsFit
  <2> QED BY <2>1, <2>3, <2>5, MsUsageStays DEF MsInv
<1>11. CASE UNCHANGED msVars
  <2>1. UNCHANGED <<msNow, msKeysGood, msRevoked, msBuckets, msRequest, msClient, msUsage, msWrites, msFinished, msSent>>
    BY <1>11 DEF msVars
  <2>2. MsTypeOK' /\ MsClientsFit' /\ MsAnswersFit'
    BY <2>1 DEF MsInv, MsTypeOK, MsClientsFit, MsAnswersFit
  <2> QED BY <2>1, <2>2, MsBucketsStay, MsUsageStays DEF MsInv
<1> QED BY <1>1, <1>2, <1>3, <1>4, <1>5, <1>6, <1>7, <1>8, <1>9, <1>10, <1>11 DEF MsNext

LEMMA MsInvSuffices == MsInv => MsTypeOK /\ ServiceIsSound
<1> SUFFICES ASSUME MsInv PROVE RevokedIsNeverValid /\ LimitsAndUsageHold
  BY DEF MsInv, ServiceIsSound
<1>1. RevokedIsNeverValid
  BY DEF MsInv, MsClientsFit, MsClientFits, RevokedIsNeverValid
<1>2. ASSUME NEW e \in Services, NEW i \in Ips, msBuckets[e][i] # NoBucket
      PROVE  msBuckets[e][i].used * MsWindow + msBuckets[e][i].tokens <= MsQuota * (MsWindow + msNow - msBuckets[e][i].since)
  <2> DEFINE b == msBuckets[e][i]
             u == b.used * MsWindow + b.tokens
             q == MsQuota * (MsWindow + b.refill - b.since)
             z == MsQuota * (MsWindow + msNow - b.since)
             d == (msNow - b.refill) * MsQuota
  <2>1. b \in Bucket /\ b.refill <= msNow /\ u <= q
    BY <1>2 DEF MsInv, MsBucketsFit, MsBucketFits
  <2>2. /\ b.refill \in Nat /\ b.since \in Nat /\ b.used \in Nat /\ b.tokens \in Nat /\ msNow \in Nat
        /\ MsQuota \in Nat /\ MsWindow \in Nat
    BY <2>1, BucketFields, MsAssumption DEF MsInv, MsTypeOK
  <2>3. q + d = z /\ d \in Nat /\ q \in Int /\ z \in Int /\ u \in Int
    <3> HIDE DEF b
    <3> QED BY <2>1, <2>2
  <2> HIDE DEF u, q, z, d
  <2>4. u <= z
    BY <2>1, <2>3
  <2> QED BY <2>4 DEF u, z, b
<1>3. LimitsAndUsageHold
  BY <1>2 DEF MsInv, MsUsageFits, LimitsAndUsageHold
<1> QED BY <1>1, <1>3

\* What the managed services answer, admit and account for, with whatever calls time out, are
\* retried and are answered late: inductive for every set of clients, addresses, keys and requests
\* in flight, and every quota, window and number of buckets kept.
THEOREM ManagedServicesKeepTrack == MsSpec => []MsInv
BY MsStart, MsStep, PTL DEF MsSpec

-----------------------------------------------------------------------------
(* Sign-on: where a flow is.  A started flow waits in its session's        *)
(* entry, or was overwritten there by a later one, or was taken by one     *)
(* callback, which judges it or has answered; no two callbacks took it.    *)

\* a callback took the flow
SsoUsed(f) ==
    \/ \E j \in DOMAIN ssoReplies : ssoReplies[j].expected = f
    \/ \E h \in Judging : ssoHandler[h].flow = f

\* why a flow is no longer in the entry of its session
SsoCause(f, s) == SsoUsed(f) \/ \E g \in 1..Len(ssoFlows) : g > f /\ ssoFlows[g].session = s

\* a flow that was taken was its session's, and is not there any more
SsoTaken(f, s) ==
    f # 0 => f \in 1..Len(ssoFlows) /\ ssoFlows[f].session = s /\ ssoStore[s] # f

\* a response that did not match what was taken, in the session of its flow
SsoExcused(t, f, s) ==
    t.flow \in 1..Len(ssoFlows) /\ (t.flow # f /\ ssoFlows[t.flow].session = s => SsoCause(t.flow, s))

\* what is known of a request in flight
SsoHandlerFits(k) ==
    /\ k.pc = "redirect" => k.flow \in 1..Len(ssoFlows)
    /\ k.pc \in {"verify", "claims"} => SsoTaken(k.flow, k.session)
    /\ k.pc = "verify" => k.token.protocol = "oidc" /\ "jwksUri" \in ssoConfig.oidc /\ SsoExcused(k.token, k.flow, k.session)
    /\ k.pc = "claims" /\ k.token.protocol = "oidc" => k.flow = k.token.flow /\ k.flow # 0 /\ k.token.claims.signed = TRUE
    /\ k.pc = "claims" /\ k.token.protocol = "saml" => k.flow = 0

\* ... and of an answer
SsoReplyFits(r) ==
    /\ SsoTaken(r.expected, r.session)
    /\ r.answer = "claims" => /\ r.token.claims.signed = TRUE /\ ClientId \in r.token.claims.aud
                              /\ r.token.nbf <= r.at /\ r.at < r.token.exp
    /\ r.answer = "claims" /\ r.token.protocol = "oidc" => r.expected = r.token.flow /\ r.expected # 0
    /\ r.token.protocol = "oidc" => SsoExcused(r.token, r.expected, r.session)

SsoTyped ==
    /\ ssoNow \in 0..MaxSsoTime /\ ssoConfig.oidc \in {{}} \cup {c.oidc : c \in SsoConfigs}
    /\ ssoConfig.saml \in {{}} \cup {c.saml : c \in SsoConfigs} /\ ssoStore \in [SsoSessions -> 0..MaxFlows]
    /\ ssoFlows \in Seq(SsoFlow) /\ Len(ssoFlows) <= MaxFlows /\ ssoTokens \subseteq SsoToken
    /\ ssoHandler \in [SsoHandlers -> SsoHandlerState] /\ ssoReplies \in Seq(SsoReply)

SsoKept ==
    /\ ssoConfig.oidc # {} => "jwksUri" \in ssoConfig.oidc
    /\ \A t \in ssoTokens : t.protocol = "oidc" => t.flow \in 1..Len(ssoFlows)
    /\ \A s \in SsoSessions : ssoStore[s] # 0 => ssoStore[s] \in 1..Len(ssoFlows) /\ ssoFlows[ssoStore[s]].session = s
    /\ \A f \in 1..Len(ssoFlows) : ssoStore[ssoFlows[f].session] = f \/ SsoCause(f, ssoFlows[f].session)

SsoAllFit ==
    /\ \A h \in SsoHandlers : \A k : ssoHandler[h] = k => SsoHandlerFits(k)
    /\ \A j \in DOMAIN ssoReplies : \A r : ssoReplies[j] = r => SsoReplyFits(r)

\* no flow was taken twice
SsoApart ==
    /\ \A g, h \in Judging : g # h /\ ssoHandler[g].flow # 0 => ssoHandler[g].flow # ssoHandler[h].flow
    /\ \A g \in Judging, j \in DOMAIN ssoReplies : ssoHandler[g].flow # 0 => ssoHandler[g].flow # ssoReplies[j].expected
    /\ \A i, j \in DOMAIN ssoReplies : i # j /\ ssoReplies[i].expected # 0 => ssoReplies[i].expected # ssoReplies[j].expected

SsoInv == SsoTyped /\ SsoKept /\ SsoAllFit /\ SsoApart

LEMMA SsoBounds == SsoTokenLife \in Nat /\ MaxFlows \in Nat /\ MaxSsoTime \in Nat
  BY SsoAssumption

LEMMA SsoIdle ==
    IdleHandler \in SsoHandlerState /\ IdleHandler.pc = "idle" /\ IdleHandler.session \in SsoSessions
<1>1. (CHOOSE c \in SsoClaims : TRUE) \in SsoClaims /\ (CHOOSE s \in SsoSessions : TRUE) \in SsoSessions
  BY SsoAssumption
<1>2. 0 \in 0..MaxFlows /\ 0 \in 0..(MaxSsoTime + 1) /\ 0 \in 0..(MaxSsoTime + SsoTokenLife + 1)
  BY SsoBounds
<1>3. NoSsoToken \in SsoToken
  BY <1>1, <1>2 DEF NoSsoToken, SsoToken
<1> HIDE DEF NoSsoToken
<1> QED BY <1>1, <1>2, <1>3 DEF IdleHandler, SsoHandlerState

LEMMA SsoHandlerFields ==
    \A k \in SsoHandlerState : k.session \in SsoSessions /\ k.flow \in 0..MaxFlows /\ k.token \in SsoToken
  BY DEF SsoHandlerState

LEMMA SsoStart == SsoInit => SsoInv
<1> SUFFICES ASSUME SsoInit PROVE SsoInv
  OBVIOUS
<1>1. /\ ssoFlows = <<>> /\ Len(ssoFlows) = 0 /\ ssoReplies = <<>> /\ DOMAIN ssoReplies = {} /\ Judging = {}
      /\ \A h \in SsoHandlers : ssoHandler[h] = IdleHandler
  BY SsoIdle DEF SsoInit, Judging
<1>2. ssoConfig.oidc = {} /\ ssoConfig.saml = {}
  BY DEF SsoInit, NoConfig
<1>3. SsoTyped
  <2>1. 0 \in 0..MaxFlows /\ 0 \in 0..MaxSsoTime
    BY SsoBounds
  <2> QED BY <1>1, <1>2, <2>1, SsoIdle DEF SsoInit, SsoTyped
<1>4. SsoKept
  BY <1>1, <1>2 DEF SsoInit, SsoKept
<1>5. SsoAllFit
  BY <1>1, SsoIdle DEF SsoAllFit, SsoHandlerFits
<1>6. SsoApart
  BY <1>1 DEF SsoApart
<1> QED BY <1>3, <1>4, <1>5, <1>6 DEF SsoInv

\* Flows keep their sessions, a flow that left its entry does not come back, what was taken stays
\* taken, and a provider that checks signatures goes on doing so.
SsoGrows ==
    /\ Len(ssoFlows) \in Nat /\ Len(ssoFlows') \in Nat /\ Len(ssoFlows) <= Len(ssoFlows')
    /\ \A f \in 1..Len(ssoFlows) : ssoFlows'[f].session = ssoFlows[f].session
    /\ \A s \in SsoSessions, f \in 1..Len(ssoFlows) : ssoStore[s] # f => ssoStore'[s] # f
    /\ \A f \in 1..Len(ssoFlows) : SsoUsed(f) => SsoUsed(f)'
    /\ "jwksUri" \in ssoConfig.oidc => "jwksUri" \in ssoConfig'.oidc

LEMMA SsoStays ==
    ASSUME SsoGrows
    PROVE  /\ \A f \in 1..Len(ssoFlows) : \A s : SsoCause(f, s) => SsoCause(f, s)'
           /\ \A k : k.session \in SsoSessions /\ SsoHandlerFits(k) => SsoHandlerFits(k)'
           /\ \A r : r.session \in SsoSessions /\ SsoReplyFits(r) => SsoReplyFits(r)'
<1>1. \A f : f \in 1..Len(ssoFlows) => f \in 1..Len(ssoFlows')
  BY DEF SsoGrows
<1>2. ASSUME NEW f \in 1..Len(ssoFlows), NEW s, SsoCause(f, s) PROVE SsoCause(f, s)'
  <2>1. CASE SsoUsed(f)
    BY <2>1 DEF SsoGrows, SsoCause
  <2>2. CASE \E g \in 1..Len(ssoFlows) : g > f /\ ssoFlows[g].session = s
    <3>1. PICK g \in 1..Len(ssoFlows) : g > f /\ ssoFlows[g].session = s
      BY <2>2
    <3>2. g \in 1..Len(ssoFlows') /\ ssoFlows'[g].session = s
      BY <1>1, <3>1 DEF SsoGrows
    <3> QED BY <3>1, <3>2 DEF SsoCause
  <2> QED BY <1>2, <2>1, <2>2 DEF SsoCause
<1>3. ASSUME NEW f, NEW s \in SsoSessions, SsoTaken(f, s) PROVE SsoTaken(f, s)'
  BY <1>1, <1>3 DEF SsoGrows, SsoTaken
<1>4. ASSUME NEW t, NEW f, NEW s, SsoExcused(t, f, s) PROVE SsoExcused(t, f, s)'
  <2>1. t.flow \in 1..Len(ssoFlows) /\ (t.flow # f /\ ssoFlows[t.flow].session = s => SsoCause(t.flow, s))
    BY <1>4 DEF SsoExcused
  <2>2. t.flow \in 1..Len(ssoFlows') /\ ssoFlows'[t.flow].session = ssoFlows[t.flow].session
    BY <1>1, <2>1 DEF SsoGrows
  <2>3. t.flow # f /\ ssoFlows[t.flow].session = s => SsoCause(t.flow, s)'
    BY <1>2, <2>1
  <2> QED BY <2>2, <2>3 DEF SsoExcused
<1>5. ASSUME NEW k, k.session \in SsoSessions, SsoHandlerFits(k) PROVE SsoHandlerFits(k)'
  BY <1>1, <1>3, <1>4, <1>5 DEF SsoHandlerFits, SsoGrows
<1>6. ASSUME NEW r, r.session \in SsoSessions, SsoReplyFits(r) PROVE SsoReplyFits(r)'
  BY <1>3, <1>4, <1>6 DEF SsoReplyFits
<1> QED BY <1>2, <1>5, <1>6

\* Where the handlers stand after a step of one of them.
LEMMA SsoHandlersAre ==
    ASSUME SsoInv, NEW h \in SsoHandlers, NEW m \in SsoHandlerState, ssoHandler' = [ssoHandler EXCEPT ![h] = m]
    PROVE  /\ ssoHandler' \in [SsoHandlers -> SsoHandlerState]
           /\ \A g \in SsoHandlers : ssoHandler'[g] = IF g = h THEN m ELSE ssoHandler[g]
           /\ \A g \in SsoHandlers : g \in Judging' <=> ssoHandler'[g].pc \in {"verify", "claims"}
           /\ \A g \in SsoHandlers : g # h => (g \in Judging' <=> g \in Judging)
           /\ h \in Judging' <=> m.pc \in {"verify", "claims"}
           /\ Judging' \subseteq SsoHandlers
<1>1. /\ ssoHandler' \in [SsoHandlers -> SsoHandlerState]
      /\ \A g \in SsoHandlers : ssoHandler'[g] = IF g = h THEN m ELSE ssoHandler[g]
  BY DEF SsoInv, SsoTyped
<1> QED BY <1>1 DEF Judging

\* A handler that moves and holds on to what it took.
LEMMA SsoMoves ==
    ASSUME SsoInv, NEW h \in SsoHandlers, NEW m \in SsoHandlerState, ssoHandler' = [ssoHandler EXCEPT ![h] = m],
           SsoHandlerFits(m)', UNCHANGED ssoReplies, SsoGrows, SsoTyped', SsoKept',
           m.pc \in {"verify", "claims"} /\ m.flow # 0 =>
               ~ SsoUsed(m.flow) \/ (h \in Judging /\ ssoHandler[h].flow = m.flow)
    PROVE  SsoInv'
<1>1. /\ \A g \in SsoHandlers : ssoHandler'[g] = IF g = h THEN m ELSE ssoHandler[g]
      /\ \A g \in SsoHandlers : g # h => (g \in Judging' <=> g \in Judging)
      /\ h \in Judging' <=> m.pc \in {"verify", "claims"}
      /\ Judging' \subseteq SsoHandlers /\ Judging \subseteq SsoHandlers
  BY SsoHandlersAre DEF Judging
<1>2. \A g \in SsoHandlers : ssoHandler[g].session \in SsoSessions
  BY SsoHandlerFields DEF SsoInv, SsoTyped
<1>3. \A j \in DOMAIN ssoReplies : ssoReplies[j].session \in SsoSessions
  <2>1. \A j \in DOMAIN ssoReplies : ssoReplies[j] \in SsoReply
    BY DEF SsoInv, SsoTyped
  <2> QED BY <2>1 DEF SsoReply
<1>4. SsoAllFit'
  <2>1. ASSUME NEW g \in SsoHandlers, NEW k, ssoHandler'[g] = k PROVE SsoHandlerFits(k)'
    BY <1>1, <1>2, <2>1, SsoStays DEF SsoInv, SsoAllFit
  <2>2. ASSUME NEW j \in DOMAIN ssoReplies, NEW r, ssoReplies[j] = r PROVE SsoReplyFits(r)'
    BY <1>3, <2>2, SsoStays DEF SsoInv, SsoAllFit
  <2> QED BY <2>1, <2>2 DEF SsoAllFit
<1>5. /\ \A g \in Judging : SsoUsed(ssoHandler[g].flow)
      /\ \A j \in DOMAIN ssoReplies : SsoUsed(ssoReplies[j].expected)
  BY DEF SsoUsed
<1>6. ASSUME h \in Judging', m.flow # 0
      PROVE  /\ \A g \in Judging : g # h => ssoHandler[g].flow # m.flow
             /\ \A j \in DOMAIN ssoReplies : ssoReplies[j].expected # m.flow
  <2>1. CASE ~ SsoUsed(m.flow)
    BY <1>5, <2>1
  <2>2. CASE h \in Judging /\ ssoHandler[h].flow = m.flow
    BY <1>6, <2>2 DEF SsoInv, SsoApart
  <2> QED BY <1>1, <1>6, <2>1, <2>2
<1>7. SsoApart'
  <2>1. ASSUME NEW a \in Judging', NEW b \in Judging', a # b, ssoHandler'[a].flow # 0 PROVE ssoHandler'[a].flow # ssoHandler'[b].flow
    BY <1>1, <1>6, <2>1 DEF SsoInv, SsoApart
  <2>2. ASSUME NEW a \in Judging', NEW j \in DOMAIN ssoReplies, ssoHandler'[a].flow # 0
        PROVE  ssoHandler'[a].flow # ssoReplies[j].expected
    BY <1>1, <1>6, <2>2 DEF SsoInv, SsoApart
  <2> QED BY <2>1, <2>2 DEF SsoInv, SsoApart
<1> QED BY <1>4, <1>7 DEF SsoInv

\* What was taken stays taken when a handler goes on with it and no answer is given.
LEMMA SsoUsedMoves ==
    ASSUME SsoInv, NEW h \in SsoHandlers, NEW m \in SsoHandlerState, ssoHandler' = [ssoHandler EXCEPT ![h] = m],
           UNCHANGED ssoReplies, h \in Judging => m.pc \in {"verify", "claims"} /\ m.flow = ssoHandler[h].flow
    PROVE  \A f : SsoUsed(f) => SsoUsed(f)'
<1>1. /\ \A g \in SsoHandlers : ssoHandler'[g] = IF g = h THEN m ELSE ssoHandler[g]
      /\ \A g \in SsoHandlers : g # h => (g \in Judging' <=> g \in Judging)
      /\ h \in Judging' <=> m.pc \in {"verify", "claims"}
      /\ Judging \subseteq SsoHandlers
  BY SsoHandlersAre DEF Judging
<1>2. ASSUME NEW f, NEW g \in Judging, ssoHandler[g].flow = f PROVE g \in Judging' /\ ssoHandler'[g].flow = f
  BY <1>1, <1>2
<1> QED BY <1>2 DEF SsoUsed

\* The entries, flows, tokens and configuration of a step that leaves them alone.
LEMMA SsoTablesStay ==
    ASSUME SsoInv, UNCHANGED <<ssoConfig, ssoStore, ssoFlows, ssoTokens>>,
           \A f \in 1..Len(ssoFlows) : SsoUsed(f) => SsoUsed(f)'
    PROVE  SsoGrows /\ SsoKept'
<1>1. SsoGrows
  BY DEF SsoInv, SsoTyped, SsoGrows
<1>2. \A f \in 1..Len(ssoFlows) : \A s : SsoCause(f, s) => SsoCause(f, s)'
  BY <1>1, SsoStays
<1>3. \A f \in 1..Len(ssoFlows) : ssoStore[ssoFlows[f].session] = f \/ SsoCause(f, ssoFlows[f].session)'
  <2>1. ASSUME NEW f \in 1..Len(ssoFlows), NEW s, s = ssoFlows[f].session PROVE ssoStore[s] = f \/ SsoCause(f, s)'
    BY <1>2, <2>1 DEF SsoInv, SsoKept
  <2>2. ASSUME NEW f \in 1..Len(ssoFlows) PROVE ssoStore[ssoFlows[f].session] = f \/ SsoCause(f, ssoFlows[f].session)'
    <3>1. PICK s : s = ssoFlows[f].session
      OBVIOUS
    <3>2. ssoStore[s] = f \/ SsoCause(f, s)'
      BY <2>1, <3>1
    <3>3. ssoFlows'[f].session = s
      BY <3>1
    <3> QED BY <3>1, <3>2, <3>3 DEF SsoCause
  <2> QED BY <2>2
<1> QED BY <1>1, <1>3 DEF SsoInv, SsoKept

\* An answer hands what its handler took to the replies.
LEMMA SsoAnswers ==
    ASSUME SsoInv, NEW h \in SsoHandlers, NEW k, k = ssoHandler[h], k.pc \in {"verify", "claims"},
           NEW answer \in {"claims", "error"}, AnswerCallback(h, answer, k.flow),
           UNCHANGED <<ssoNow, ssoConfig, ssoStore, ssoFlows, ssoTokens>>,
           NEW r, r = [token |-> k.token, session |-> k.session, answer |-> answer, at |-> ssoNow, expected |-> k.flow],
           SsoReplyFits(r)
    PROVE  SsoInv'
<1>1. k \in SsoHandlerState /\ k.token \in SsoToken /\ k.session \in SsoSessions /\ k.flow \in 0..MaxFlows /\ ssoNow \in 0..MaxSsoTime
  BY SsoHandlerFields DEF SsoInv, SsoTyped
<1>2. r \in SsoReply /\ r.expected = k.flow /\ r.session = k.session
  BY <1>1 DEF SsoReply
<1>3. ssoReplies' = Append(ssoReplies, r) /\ ssoHandler' = [ssoHandler EXCEPT ![h] = IdleHandler] /\ ssoReplies \in Seq(SsoReply)
  BY DEF AnswerCallback, SsoInv, SsoTyped
<1>4. PICK n : n = Len(ssoReplies) + 1
  OBVIOUS
<1>5. /\ ssoReplies' \in Seq(SsoReply) /\ DOMAIN ssoReplies' = DOMAIN ssoReplies \cup {n} /\ n \notin DOMAIN ssoReplies
      /\ ssoReplies'[n] = r /\ \A j \in DOMAIN ssoReplies : ssoReplies'[j] = ssoReplies[j]
  BY <1>2, <1>3, <1>4
<1>6. /\ ssoHandler' \in [SsoHandlers -> SsoHandlerState]
      /\ \A g \in SsoHandlers : ssoHandler'[g] = IF g = h THEN IdleHandler ELSE ssoHandler[g]
      /\ \A g \in SsoHandlers : g # h => (g \in Judging' <=> g \in Judging)
      /\ h \notin Judging' /\ h \in Judging /\ Judging' \subseteq SsoHandlers /\ Judging \subseteq SsoHandlers
  BY <1>3, SsoIdle, SsoHandlersAre DEF Judging
<1>7. ASSUME NEW f, SsoUsed(f) PROVE SsoUsed(f)'
  <2>1. CASE \E j \in DOMAIN ssoReplies : ssoReplies[j].expected = f
    BY <1>5, <2>1 DEF SsoUsed
  <2>2. CASE \E g \in Judging : ssoHandler[g].flow = f
    <3>1. PICK g \in Judging : ssoHandler[g].flow = f
      BY <2>2
    <3>2. CASE g = h
      BY <1>2, <1>5, <3>1, <3>2 DEF SsoUsed
    <3>3. CASE g # h
      BY <1>6, <3>1, <3>3 DEF SsoUsed
    <3> QED BY <3>2, <3>3
  <2> QED BY <1>7, <2>1, <2>2 DEF SsoUsed
<1>8. SsoGrows /\ SsoKept'
  BY <1>7, SsoTablesStay
<1>9. SsoTyped'
  BY <1>5, <1>6 DEF SsoInv, SsoTyped
<1>10. SsoAllFit'
  <2>1. SsoHandlerFits(IdleHandler)'
    BY SsoIdle DEF SsoHandlerFits
  <2>2. \A g \in SsoHandlers : ssoHandler[g].session \in SsoSessions
    BY SsoHandlerFields DEF SsoInv, SsoTyped
  <2>3. \A j \in DOMAIN ssoReplies' : ssoReplies'[j].session \in SsoSessions
    <3>1. \A j \in DOMAIN ssoReplies : ssoReplies[j] \in SsoReply
      BY DEF SsoInv, SsoTyped
    <3>2. \A j \in DOMAIN ssoReplies' : ssoReplies'[j] \in SsoReply
      BY <1>2, <1>5, <3>1
    <3> QED BY <3>2 DEF SsoReply
  <2>4. ASSUME NEW g \in SsoHandlers, NEW x, ssoHandler'[g] = x PROVE SsoHandlerFits(x)'
    BY <1>6, <1>8, <2>1, <2>2, <2>4, SsoStays DEF SsoInv, SsoAllFit
  <2>5. ASSUME NEW j \in DOMAIN ssoReplies', NEW x, ssoReplies'[j] = x PROVE SsoReplyFits(x)'
    <3>1. SsoReplyFits(x)
      BY <1>5, <2>5 DEF SsoInv, SsoAllFit
    <3> QED BY <1>8, <2>3, <2>5, <3>1, SsoStays
  <2> QED BY <2>4, <2>5 DEF SsoAllFit
<1>11. SsoApart'
  <2>1. ASSUME NEW a \in Judging', NEW b \in Judging', a # b, ssoHandler'[a].flow # 0 PROVE ssoHandler'[a].flow # ssoHandler'[b].flow
    BY <1>6, <2>1 DEF SsoInv, SsoApart
  <2>2. ASSUME NEW a \in Judging', NEW j \in DOMAIN ssoReplies', ssoHandler'[a].flow # 0
        PROVE  ssoHandler'[a].flow # ssoReplies'[j].expected
    BY <1>2, <1>5, <1>6, <2>2 DEF SsoInv, SsoApart
  <2>3. \A j \in DOMAIN ssoReplies : k.flow # 0 => ssoReplies[j].expected # k.flow
    BY <1>6 DEF SsoInv, SsoApart
  <2>4. ASSUME NEW i \in DOMAIN ssoReplies', NEW j \in DOMAIN ssoReplies', i # j, ssoReplies'[i].expected # 0
        PROVE  ssoReplies'[i].expected # ssoReplies'[j].expected
    BY <1>2, <1>5, <2>3, <2>4 DEF SsoInv, SsoApart
  <2> QED BY <2>1, <2>2, <2>4 DEF SsoApart
<1> QED BY <1>8, <1>9, <1>10, <1>11 DEF SsoInv

LEMMA OidcLoginStep ==
    ASSUME SsoInv, NEW h \in SsoHandlers, NEW s \in SsoSessions, OidcLogin(h, s)
    PROVE  SsoInv'
<1>1. PICK n : n = Len(ssoFlows)
  OBVIOUS
<1>2. PICK x : x = [session |-> s, redirected |-> FALSE]
  OBVIOUS
<1>3. PICK m : m = [pc |-> "redirect", session |-> s, flow |-> n + 1, token |-> ssoHandler[h].token]
  OBVIOUS
<1>4. /\ ssoStore' = [ssoStore EXCEPT ![s] = n + 1] /\ ssoFlows' = Append(ssoFlows, x)
      /\ ssoHandler' = [ssoHandler EXCEPT ![h] = m] /\ n + 1 \in 1..MaxFlows /\ ssoHandler[h].pc = "idle"
      /\ UNCHANGED <<ssoNow, ssoConfig, ssoTokens, ssoReplies>>
  BY <1>1, <1>2, <1>3 DEF OidcLogin, HandlerIdle, Fresh, Flows
<1>5. ssoFlows \in Seq(SsoFlow) /\ n \in Nat /\ ssoHandler[h] \in SsoHandlerState /\ ssoStore \in [SsoSessions -> 0..MaxFlows]
  BY <1>1 DEF SsoInv, SsoTyped
<1>6. x \in SsoFlow /\ x.session = s
  BY <1>2 DEF SsoFlow
<1>7. m \in SsoHandlerState /\ m.pc = "redirect" /\ m.flow = n + 1
  BY <1>3, <1>4, <1>5, SsoHandlerFields DEF SsoHandlerState
<1>8. ssoFlows' \in Seq(SsoFlow) /\ Len(ssoFlows') = n + 1 /\ ssoFlows'[n + 1] = x /\ \A f \in 1..n : ssoFlows'[f] = ssoFlows[f]
  BY <1>1, <1>4, <1>5, <1>6
<1>9. \A z \in SsoSessions : ssoStore'[z] = IF z = s THEN n + 1 ELSE ssoStore[z]
  BY <1>4, <1>5
<1>10. h \notin Judging
  BY <1>4 DEF Judging
<1>11. \A f : SsoUsed(f) => SsoUsed(f)'
  BY <1>4, <1>7, <1>10, SsoUsedMoves
<1>12. SsoGrows
  <2>1. \A z \in SsoSessions, f \in 1..n : ssoStore[z] # f => ssoStore'[z] # f
    BY <1>5, <1>9
  <2> QED BY <1>1, <1>4, <1>5, <1>8, <1>11, <2>1 DEF SsoGrows
<1>13. SsoTyped'
  <2>1. ssoStore' \in [SsoSessions -> 0..MaxFlows]
    BY <1>4, <1>5
  <2>2. ssoHandler' \in [SsoHandlers -> SsoHandlerState]
    BY <1>4, <1>7 DEF SsoInv, SsoTyped
  <2> QED BY <1>4, <1>8, <2>1, <2>2 DEF SsoInv, SsoTyped
<1>14. 1..Len(ssoFlows') = 1..n \cup {n + 1}
  BY <1>5, <1>8
<1>15. SsoKept'
  <2>1. \A t \in ssoTokens' : t.protocol = "oidc" => t.flow \in 1..Len(ssoFlows')
    BY <1>1, <1>4, <1>14 DEF SsoInv, SsoKept
  <2>2. ASSUME NEW z \in SsoSessions, ssoStore'[z] # 0
        PROVE  ssoStore'[z] \in 1..Len(ssoFlows') /\ ssoFlows'[ssoStore'[z]].session = z
    <3>1. CASE z = s
      BY <1>6, <1>8, <1>9, <1>14, <3>1
    <3>2. CASE z # s
      BY <1>1, <1>8, <1>9, <1>14, <2>2, <3>2 DEF SsoInv, SsoKept
    <3> QED BY <3>1, <3>2
  <2>3. ASSUME NEW f \in 1..Len(ssoFlows'), NEW z, z = ssoFlows'[f].session PROVE ssoStore'[z] = f \/ SsoCause(f, z)'
    <3>1. CASE f = n + 1
      BY <1>6, <1>8, <1>9, <2>3, <3>1
    <3>2. CASE f \in 1..n
      <4>1. z = ssoFlows[f].session /\ z \in SsoSessions
        <5>1. ssoFlows[f] \in SsoFlow
          BY <1>1, <1>5, <3>2
        <5> QED BY <1>8, <2>3, <3>2, <5>1 DEF SsoFlow
      <4>2. ssoStore[z] = f \/ SsoCause(f, z)
        BY <1>1, <3>2, <4>1 DEF SsoInv, SsoKept
      <4>3. CASE SsoCause(f, z)
        BY <1>1, <1>12, <3>2, <4>3, SsoStays
      <4>4. CASE z = s
        <5>1. n + 1 \in 1..Len(ssoFlows') /\ n + 1 > f /\ ssoFlows'[n + 1].session = z
          BY <1>5, <1>6, <1>8, <3>2, <4>4
        <5> QED BY <5>1 DEF SsoCause
      <4>5. CASE z # s /\ ssoStore[z] = f
        BY <1>9, <4>1, <4>5
      <4> QED BY <4>2, <4>3, <4>4, <4>5
    <3> QED BY <1>14, <3>1, <3>2
  <2>4. \A f \in 1..Len(ssoFlows') : ssoStore'[ssoFlows'[f].session] = f \/ SsoCause(f, ssoFlows[f].session)'
    BY <2>3 DEF SsoCause
  <2> QED BY <1>4, <2>1, <2>2, <2>4 DEF SsoInv, SsoKept
<1>16. SsoHandlerFits(m)'
  BY <1>7, <1>14 DEF SsoHandlerFits
<1> QED BY <1>4, <1>7, <1>12, <1>13, <1>15, <1>16, SsoMoves

LEMMA OidcRedirectStep ==
    ASSUME SsoInv, NEW h \in SsoHandlers, OidcRedirect(h)
    PROVE  SsoInv'
<1>1. PICK n \in 1..Len(ssoFlows) : n = ssoHandler[h].flow
  BY DEF OidcRedirect, SsoInv, SsoAllFit, SsoHandlerFits
<1>2. PICK x : x \in SsoFlow /\ x.session = ssoFlows[n].session /\ ssoFlows' = [ssoFlows EXCEPT ![n] = x]
  <2>1. PICK sent \in BOOLEAN : ssoFlows' = [ssoFlows EXCEPT ![n] = [ssoFlows[n] EXCEPT !.redirected = sent]]
    BY <1>1 DEF OidcRedirect
  <2>2. ssoFlows[n] \in SsoFlow
    BY <1>1 DEF SsoInv, SsoTyped
  <2>3. [ssoFlows[n] EXCEPT !.redirected = sent] \in SsoFlow /\ [ssoFlows[n] EXCEPT !.redirected = sent].session = ssoFlows[n].session
    BY <2>2 DEF SsoFlow
  <2> QED BY <2>1, <2>3
<1>3. /\ ssoHandler' = [ssoHandler EXCEPT ![h] = IdleHandler] /\ ssoHandler[h].pc = "redirect"
      /\ UNCHANGED <<ssoNow, ssoConfig, ssoStore, ssoTokens, ssoReplies>>
  BY DEF OidcRedirect
<1>4. ssoFlows \in Seq(SsoFlow) /\ Len(ssoFlows) \in Nat
  BY DEF SsoInv, SsoTyped
<1>5. /\ ssoFlows' \in Seq(SsoFlow) /\ Len(ssoFlows') = Len(ssoFlows)
      /\ \A f \in 1..Len(ssoFlows) : ssoFlows'[f].session = ssoFlows[f].session
  <2>1. ssoFlows' \in Seq(SsoFlow) /\ Len(ssoFlows') = Len(ssoFlows)
    BY <1>1, <1>2, <1>4
  <2>2. \A f \in 1..Len(ssoFlows) : ssoFlows'[f] = IF f = n THEN x ELSE ssoFlows[f]
    BY <1>1, <1>2, <1>4
  <2> QED BY <1>2, <2>1, <2>2
<1>6. h \notin Judging
  BY <1>3 DEF Judging
<1>7. \A f : SsoUsed(f) => SsoUsed(f)'
  BY <1>3, <1>6, SsoIdle, SsoUsedMoves
<1>8. SsoGrows
  BY <1>3, <1>4, <1>5, <1>7 DEF SsoGrows
<1>9. SsoTyped'
  BY <1>3, <1>5, SsoIdle, SsoHandlersAre DEF SsoInv, SsoTyped
<1>10. SsoKept'
  <2>1. ASSUME NEW f \in 1..Len(ssoFlows), NEW z, z = ssoFlows[f].session PROVE ssoStore[z] = f \/ SsoCause(f, z)'
    BY <1>8, <2>1, SsoStays DEF SsoInv, SsoKept
  <2>2. \A f \in 1..Len(ssoFlows') : ssoStore[ssoFlows'[f].session] = f \/ SsoCause(f, ssoFlows[f].session)'
    BY <1>5, <2>1 DEF SsoCause
  <2>3. ASSUME NEW z \in SsoSessions, ssoStore[z] # 0
        PROVE  ssoStore[z] \in 1..Len(ssoFlows') /\ ssoFlows'[ssoStore[z]].session = z
    BY <1>5, <2>3 DEF SsoInv, SsoKept
  <2> QED BY <1>3, <1>5, <2>2, <2>3 DEF SsoInv, SsoKept
<1>11. SsoHandlerFits(IdleHandler)'
  BY SsoIdle DEF SsoHandlerFits
<1> QED BY <1>3, <1>8, <1>9, <1>10, <1>11, SsoIdle, SsoMoves

\* Nothing is answered and no handler moves.
LEMMA SsoRestStays ==
    ASSUME SsoInv, UNCHANGED <<ssoStore, ssoFlows, ssoHandler, ssoReplies>>, SsoTyped',
           \A t \in ssoTokens' : t.protocol = "oidc" => t.flow \in 1..Len(ssoFlows),
           ssoConfig'.oidc # {} => "jwksUri" \in ssoConfig'.oidc,
           "jwksUri" \in ssoConfig.oidc => "jwksUri" \in ssoConfig'.oidc
    PROVE  SsoInv'
<1>1. \A f : SsoUsed(f) <=> SsoUsed(f)'
  BY DEF SsoUsed, Judging
<1>2. Len(ssoFlows) \in Nat
  BY DEF SsoInv, SsoTyped
<1>3. SsoGrows
  BY <1>1, <1>2 DEF SsoGrows
<1>4. \A f, s : SsoCause(f, s) <=> SsoCause(f, s)'
  BY <1>1 DEF SsoCause
<1>5. SsoKept'
  <2>1. ASSUME NEW f \in 1..Len(ssoFlows), NEW z, z = ssoFlows[f].session PROVE ssoStore[z] = f \/ SsoCause(f, z)'
    BY <1>4, <2>1 DEF SsoInv, SsoKept
  <2>2. \A f \in 1..Len(ssoFlows) : ssoStore[ssoFlows[f].session] = f \/ SsoCause(f, ssoFlows[f].session)'
    BY <2>1 DEF SsoCause
  <2> QED BY <2>2 DEF SsoInv, SsoKept
<1>6. SsoAllFit'
  <2>1. \A g \in SsoHandlers : ssoHandler[g].session \in SsoSessions
    BY SsoHandlerFields DEF SsoInv, SsoTyped
  <2>2. \A j \in DOMAIN ssoReplies : ssoReplies[j] \in SsoReply
    BY DEF SsoInv, SsoTyped
  <2>3. \A j \in DOMAIN ssoReplies : ssoReplies[j].session \in SsoSessions
    BY <2>2 DEF SsoReply
  <2>4. ASSUME NEW g \in SsoHandlers, NEW k, ssoHandler[g] = k PROVE SsoHandlerFits(k)'
    BY <1>3, <2>1, <2>4, SsoStays DEF SsoInv, SsoAllFit
  <2>5. ASSUME NEW j \in DOMAIN ssoReplies, NEW r, ssoReplies[j] = r PROVE SsoReplyFits(r)'
    BY <1>3, <2>3, <2>5, SsoStays DEF SsoInv, SsoAllFit
  <2> QED BY <2>4, <2>5 DEF SsoAllFit
<1>7. SsoApart'
  BY DEF SsoInv, SsoApart, Judging
<1> QED BY <1>5, <1>6, <1>7 DEF SsoInv

LEMMA IdpStep ==
    ASSUME SsoInv, NEW c \in SsoClaims, NEW f, (f \in Flows /\ IdpAnswersOidc(f, c)) \/ IdpAnswersSaml(c)
    PROVE  SsoInv'
<1>1. PICK t : /\ ssoTokens' = ssoTokens \cup {t} /\ t \in SsoToken /\ (t.protocol = "oidc" => t.flow \in 1..Len(ssoFlows))
  <2>1. /\ ssoNow + c.nbf \in 0..(MaxSsoTime + 1) /\ ssoNow + SsoTokenLife \in 0..(MaxSsoTime + SsoTokenLife + 1)
        /\ (f \in Flows => f \in 0..MaxFlows) /\ 0 \in 0..MaxFlows
    <3>1. ssoNow \in 0..MaxSsoTime /\ c.nbf \in 0..1
      BY SsoAssumption DEF SsoInv, SsoTyped
    <3> QED BY <3>1, SsoBounds DEF Flows
  <2>2. CASE f \in Flows /\ IdpAnswersOidc(f, c)
    <3> DEFINE t == [protocol |-> "oidc", flow |-> f, claims |-> c, nbf |-> ssoNow + c.nbf, exp |-> ssoNow + SsoTokenLife]
    <3>1. t \in SsoToken /\ t.flow = f
      BY <2>1, <2>2 DEF SsoToken
    <3>2. f \in 1..Len(ssoFlows)
      BY <2>2 DEF IdpAnswersOidc, SsoInv, SsoTyped
    <3>3. ssoTokens' = ssoTokens \cup {t}
      BY <2>2 DEF IdpAnswersOidc
    <3> QED BY <3>1, <3>2, <3>3
  <2>3. CASE IdpAnswersSaml(c)
    <3> DEFINE t == [protocol |-> "saml", flow |-> 0, claims |-> c, nbf |-> ssoNow + c.nbf, exp |-> ssoNow + SsoTokenLife]
    <3>1. t \in SsoToken /\ t.protocol = "saml"
      BY <2>1 DEF SsoToken
    <3>2. ssoTokens' = ssoTokens \cup {t}
      BY <2>3 DEF IdpAnswersSaml
    <3> QED BY <3>1, <3>2
  <2> QED BY <2>2, <2>3
<1>2. UNCHANGED <<ssoNow, ssoConfig, ssoStore, ssoFlows, ssoHandler, ssoReplies>>
  BY DEF IdpAnswersOidc, IdpAnswersSaml
<1>3. SsoTyped'
  BY <1>1, <1>2 DEF SsoInv, SsoTyped
<1>4. \A x \in ssoTokens' : x.protocol = "oidc" => x.flow \in 1..Len(ssoFlows)
  BY <1>1 DEF SsoInv, SsoKept
<1> QED BY <1>2, <1>3, <1>4, SsoRestStays DEF SsoInv, SsoKept

LEMMA BuildStep ==
    ASSUME SsoInv, NEW c \in SsoConfigs, BuildProviders(c)
    PROVE  SsoInv'
<1>1. /\ ssoConfig'.oidc = IF OidcComplete(c) THEN c.oidc ELSE {}
      /\ ssoConfig'.saml = IF SamlComplete(c) THEN c.saml ELSE {}
      /\ ssoConfig = NoConfig /\ UNCHANGED <<ssoNow, ssoStore, ssoFlows, ssoTokens, ssoHandler, ssoReplies>>
  BY DEF BuildProviders
<1>2. ssoConfig.oidc = {}
  BY <1>1 DEF NoConfig
<1>3. OidcComplete(c) => "jwksUri" \in c.oidc
  BY DEF OidcComplete, AdapterBuilt
<1>4. SsoTyped'
  BY <1>1 DEF SsoInv, SsoTyped
<1> QED BY <1>1, <1>2, <1>3, <1>4, SsoRestStays DEF SsoInv, SsoKept

LEMMA SsoTickStep ==
    ASSUME SsoInv, SsoTick
    PROVE  SsoInv'
<1>1. UNCHANGED <<ssoConfig, ssoStore, ssoFlows, ssoTokens, ssoHandler, ssoReplies>> /\ ssoNow' \in 0..MaxSsoTime
  BY SsoBounds DEF SsoTick, SsoInv, SsoTyped
<1>2. SsoTyped'
  BY <1>1 DEF SsoInv, SsoTyped
<1> QED BY <1>1, <1>2, SsoRestStays DEF SsoInv, SsoKept

LEMMA OidcCallbackStep ==
    ASSUME SsoInv, NEW h \in SsoHandlers, NEW s \in SsoSessions, NEW t \in ssoTokens, OidcCallback(h, s, t)
    PROVE  SsoInv'
<1>1. PICK f : f = ssoStore[s]
  OBVIOUS
<1>2. PICK m : m = [pc |-> "verify", session |-> s, flow |-> f, token |-> t]
  OBVIOUS
<1>3. /\ ssoHandler[h].pc = "idle" /\ ssoConfig.oidc # {} /\ t.protocol = "oidc"
      /\ ssoHandler' = [ssoHandler EXCEPT ![h] = m] /\ ssoStore' = [ssoStore EXCEPT ![s] = 0]
      /\ UNCHANGED <<ssoNow, ssoConfig, ssoFlows, ssoTokens, ssoReplies>>
  BY <1>1, <1>2 DEF OidcCallback, HandlerIdle, TakenFrom, ConsumeLeaves
<1>4. ssoStore \in [SsoSessions -> 0..MaxFlows] /\ t \in SsoToken /\ Len(ssoFlows) \in Nat /\ f \in 0..MaxFlows
  BY <1>1 DEF SsoInv, SsoTyped
<1>5. m \in SsoHandlerState /\ m.pc = "verify" /\ m.session = s /\ m.flow = f /\ m.token = t
  BY <1>2, <1>4 DEF SsoHandlerState
<1>6. \A z \in SsoSessions : ssoStore'[z] = IF z = s THEN 0 ELSE ssoStore[z]
  BY <1>3, <1>4
<1>7. h \notin Judging
  BY <1>3 DEF Judging
<1>8. \A e : SsoUsed(e) => SsoUsed(e)'
  BY <1>3, <1>5, <1>7, SsoUsedMoves
<1>9. SsoUsed(f)'
  <2>1. h \in Judging' /\ ssoHandler'[h].flow = f
    BY <1>3, <1>5, SsoHandlersAre
  <2> QED BY <2>1 DEF SsoUsed
<1>10. SsoGrows
  <2>1. \A z \in SsoSessions, e \in 1..Len(ssoFlows) : ssoStore[z] # e => ssoStore'[z] # e
    BY <1>4, <1>6
  <2> QED BY <1>3, <1>4, <1>8, <2>1 DEF SsoGrows
<1>11. SsoTyped'
  <2>1. ssoStore' \in [SsoSessions -> 0..MaxFlows]
    BY <1>3, <1>4, SsoBounds
  <2>2. ssoHandler' \in [SsoHandlers -> SsoHandlerState]
    BY <1>3, <1>5, SsoHandlersAre
  <2> QED BY <1>3, <2>1, <2>2 DEF SsoInv, SsoTyped
<1>12. SsoKept'
  <2>1. ASSUME NEW e \in 1..Len(ssoFlows), NEW z, z = ssoFlows[e].session PROVE ssoStore'[z] = e \/ SsoCause(e, z)'
    <3>1. z \in SsoSessions
      <4>1. ssoFlows[e] \in SsoFlow
        BY DEF SsoInv, SsoTyped
      <4> QED BY <2>1, <4>1 DEF SsoFlow
    <3>2. CASE SsoCause(e, z)
      BY <1>10, <3>2, SsoStays
    <3>3. CASE ssoStore[z] = e /\ z # s
      BY <1>6, <3>1, <3>3
    <3>4. CASE ssoStore[z] = e /\ z = s
      BY <1>1, <1>9, <3>4 DEF SsoCause
    <3> QED BY <2>1, <3>2, <3>3, <3>4 DEF SsoInv, SsoKept
  <2>2. \A e \in 1..Len(ssoFlows') : ssoStore'[ssoFlows'[e].session] = e \/ SsoCause(e, ssoFlows[e].session)'
    BY <1>3, <2>1 DEF SsoCause
  <2>3. ASSUME NEW z \in SsoSessions, ssoStore'[z] # 0
        PROVE  ssoStore'[z] \in 1..Len(ssoFlows) /\ ssoFlows[ssoStore'[z]].session = z
    BY <1>6, <2>3 DEF SsoInv, SsoKept
  <2> QED BY <1>3, <2>2, <2>3 DEF SsoInv, SsoKept
<1>13. f # 0 => f \in 1..Len(ssoFlows) /\ ssoFlows[f].session = s
  BY <1>1 DEF SsoInv, SsoKept
<1>14. SsoTaken(f, s)'
  BY <1>3, <1>6, <1>13 DEF SsoTaken
<1>15. SsoExcused(t, f, s)'
  <2>1. t.flow \in 1..Len(ssoFlows)
    BY <1>3 DEF SsoInv, SsoKept
  <2>2. ASSUME t.flow # f, ssoFlows[t.flow].session = s PROVE SsoCause(t.flow, s)'
    <3>1. SsoCause(t.flow, s)
      BY <1>1, <2>1, <2>2 DEF SsoInv, SsoKept
    <3> QED BY <1>10, <2>1, <3>1, SsoStays
  <2> QED BY <1>3, <2>1, <2>2 DEF SsoExcused
<1>16. SsoHandlerFits(m)'
  <2>1. "jwksUri" \in ssoConfig'.oidc
    BY <1>3 DEF SsoInv, SsoKept
  <2> QED BY <1>3, <1>5, <1>14, <1>15, <2>1 DEF SsoHandlerFits
<1>17. f # 0 => ~ SsoUsed(f)
  <2> SUFFICES ASSUME f # 0, SsoUsed(f) PROVE FALSE
    OBVIOUS
  <2>1. ASSUME NEW z \in SsoSessions, SsoTaken(f, z) PROVE FALSE
    BY <1>1, <1>13, <2>1 DEF SsoTaken
  <2>2. CASE \E g \in Judging : ssoHandler[g].flow = f
    <3>1. PICK g \in Judging : ssoHandler[g].flow = f
      BY <2>2
    <3>2. g \in SsoHandlers /\ ssoHandler[g].pc \in {"verify", "claims"} /\ ssoHandler[g].session \in SsoSessions
      BY SsoHandlerFields DEF Judging, SsoInv, SsoTyped
    <3>3. SsoTaken(f, ssoHandler[g].session)
      BY <3>1, <3>2 DEF SsoInv, SsoAllFit, SsoHandlerFits
    <3> QED BY <2>1, <3>2, <3>3
  <2>3. CASE \E j \in DOMAIN ssoReplies : ssoReplies[j].expected = f
    <3>1. PICK j \in DOMAIN ssoReplies : ssoReplies[j].expected = f
      BY <2>3
    <3>2. ssoReplies[j] \in SsoReply
      BY DEF SsoInv, SsoTyped
    <3>3. ssoReplies[j].session \in SsoSessions
      BY <3>2 DEF SsoReply
    <3>4. SsoTaken(f, ssoReplies[j].session)
      BY <3>1 DEF SsoInv, SsoAllFit, SsoReplyFits
    <3> QED BY <2>1, <3>3, <3>4
  <2> QED BY <2>2, <2>3 DEF SsoUsed
<1> QED BY <1>3, <1>5, <1>10, <1>11, <1>12, <1>16, <1>17, SsoMoves

LEMMA OidcVerifyStep ==
    ASSUME SsoInv, NEW h \in SsoHandlers, OidcVerify(h)
    PROVE  SsoInv'
<1>1. PICK k : k = ssoHandler[h]
  OBVIOUS
<1>2. k \in SsoHandlerState /\ SsoHandlerFits(k) /\ k.pc = "verify" /\ k.token.protocol = "oidc"
  BY <1>1 DEF OidcVerify, SsoInv, SsoTyped, SsoAllFit
<1>3. UNCHANGED <<ssoNow, ssoConfig, ssoStore, ssoFlows, ssoTokens>>
  BY DEF OidcVerify
<1>4. SsoTaken(k.flow, k.session) /\ SsoExcused(k.token, k.flow, k.session) /\ "jwksUri" \in ssoConfig.oidc
  BY <1>2 DEF SsoHandlerFits
<1>5. CASE AnswerCallback(h, "error", k.flow)
  <2>1. PICK r : r = [token |-> k.token, session |-> k.session, answer |-> "error", at |-> ssoNow, expected |-> k.flow]
    OBVIOUS
  <2>2. SsoReplyFits(r)
    BY <1>4, <2>1 DEF SsoReplyFits
  <2> QED BY <1>1, <1>2, <1>3, <1>5, <2>1, <2>2, SsoAnswers
<1>8. CASE /\ k.flow # 0 /\ GrantAccepts(k.flow, k.token) /\ ssoHandler' = [ssoHandler EXCEPT ![h] = [k EXCEPT !.pc = "claims"]]
           /\ UNCHANGED ssoReplies
  <2>1. PICK m : m = [k EXCEPT !.pc = "claims"]
    OBVIOUS
  <2>2. m \in SsoHandlerState /\ m.pc = "claims" /\ m.flow = k.flow /\ m.session = k.session /\ m.token = k.token
    BY <1>2, <2>1 DEF SsoHandlerState
  <2>3. k.flow = k.token.flow
    BY <1>8 DEF GrantAccepts
  <2>4. k.token.claims.signed = TRUE
    <3>1. k.token.claims.signed
      BY <1>4, <1>8 DEF GrantAccepts
    <3>2. k.token.claims \in SsoClaims
      BY <1>2, SsoHandlerFields DEF SsoToken
    <3>3. k.token.claims.signed \in BOOLEAN
      BY <3>2, SsoAssumption
    <3> QED BY <3>1, <3>3
  <2>5. SsoHandlerFits(m)
    BY <1>2, <1>4, <1>8, <2>2, <2>3, <2>4 DEF SsoHandlerFits
  <2>6. h \in Judging
    BY <1>1, <1>2 DEF Judging
  <2>7. \A f : SsoUsed(f) => SsoUsed(f)'
    BY <1>1, <1>8, <2>1, <2>2, SsoUsedMoves
  <2>8. SsoGrows /\ SsoKept'
    BY <1>3, <2>7, SsoTablesStay
  <2>9. SsoTyped'
    BY <1>3, <1>8, <2>1, <2>2, SsoHandlersAre DEF SsoInv, SsoTyped
  <2>10. SsoHandlerFits(m)'
    <3>1. m.session \in SsoSessions
      BY <2>2, SsoHandlerFields
    <3> QED BY <2>5, <2>8, <3>1, SsoStays
  <2> QED BY <1>1, <1>8, <2>1, <2>2, <2>6, <2>8, <2>9, <2>10, SsoMoves
<1> QED BY <1>1, <1>5, <1>8 DEF OidcVerify

LEMMA CheckClaimsStep ==
    ASSUME SsoInv, NEW h \in SsoHandlers, CheckClaims(h)
    PROVE  SsoInv'
<1>1. PICK k : k = ssoHandler[h]
  OBVIOUS
<1>2. k \in SsoHandlerState /\ SsoHandlerFits(k) /\ k.pc = "claims" /\ k.token \in SsoToken
  BY <1>1, SsoHandlerFields DEF CheckClaims, SsoInv, SsoTyped, SsoAllFit
<1>3. UNCHANGED <<ssoNow, ssoConfig, ssoStore, ssoFlows, ssoTokens>>
  BY DEF CheckClaims
<1>4. PICK t : t = k.token
  OBVIOUS
<1>5. t.protocol \in {"oidc", "saml"} /\ t.claims \in SsoClaims
  BY <1>2, <1>4 DEF SsoToken
<1>6. t.claims.signed \in BOOLEAN
  BY <1>5, SsoAssumption
<1>7. PICK answer : answer = IF LayersAccept(t) THEN "claims" ELSE "error"
  OBVIOUS
<1>8. answer \in {"claims", "error"}
  BY <1>7
<1>9. answer = "claims" => /\ t.claims.signed = TRUE /\ ClientId \in t.claims.aud
                           /\ t.nbf <= ssoNow /\ ssoNow < t.exp
  <2>1. CASE t.protocol = "oidc"
    <3>1. t.claims.signed = TRUE
      BY <1>2, <1>4, <2>1 DEF SsoHandlerFits
    <3>2. answer = "claims" => InTime(t) /\ ForUs(t)
      BY <1>7, <2>1 DEF LayersAccept, OidcLayers
    <3> QED BY <3>1, <3>2 DEF InTime, ForUs
  <2>2. CASE t.protocol = "saml"
    <3>1. answer = "claims" => t.claims.signed /\ SamlInTime(t) /\ SamlForUs(t)
      BY <1>7, <2>2 DEF LayersAccept, SamlLayers
    <3> QED BY <1>6, <3>1 DEF SamlInTime, SamlForUs
  <2> QED BY <1>5, <2>1, <2>2
<1>10. PICK r : r = [token |-> k.token, session |-> k.session, answer |-> answer, at |-> ssoNow, expected |-> k.flow]
  OBVIOUS
<1>11. /\ SsoTaken(k.flow, k.session) /\ (t.protocol = "oidc" => k.flow = t.flow /\ k.flow # 0)
  BY <1>2, <1>4 DEF SsoHandlerFits
<1>12. r.token = t /\ r.session = k.session /\ r.answer = answer /\ r.at = ssoNow /\ r.expected = k.flow
  BY <1>4, <1>10
<1>13. SsoReplyFits(r)
  <2>1. t.protocol = "oidc" => SsoExcused(t, k.flow, k.session)
    BY <1>11 DEF SsoTaken, SsoExcused
  <2> QED BY <1>9, <1>11, <1>12, <2>1 DEF SsoReplyFits
<1>14. AnswerCallback(h, answer, k.flow)
  BY <1>1, <1>4, <1>7 DEF CheckClaims
<1> QED BY <1>1, <1>2, <1>3, <1>8, <1>10, <1>13, <1>14, SsoAnswers

LEMMA SamlCallbackStep ==
    ASSUME SsoInv, NEW h \in SsoHandlers, NEW t \in ssoTokens, SamlCallback(h, t)
    PROVE  SsoInv'
<1>1. PICK m : m = [pc |-> "claims", session |-> IdleHandler.session, flow |-> 0, token |-> t]
  OBVIOUS
<1>2. /\ ssoHandler[h].pc = "idle" /\ t.protocol = "saml" /\ ssoHandler' = [ssoHandler EXCEPT ![h] = m]
      /\ UNCHANGED <<ssoNow, ssoConfig, ssoStore, ssoFlows, ssoTokens, ssoReplies>>
  BY <1>1 DEF SamlCallback, HandlerIdle
<1>3. t \in SsoToken /\ IdleHandler.session \in SsoSessions /\ 0 \in 0..MaxFlows
  BY SsoIdle, SsoBounds DEF SsoInv, SsoTyped
<1>4. m \in SsoHandlerState /\ m.pc = "claims" /\ m.flow = 0 /\ m.token = t
  BY <1>1, <1>3 DEF SsoHandlerState
<1>5. h \notin Judging
  BY <1>2 DEF Judging
<1>6. \A f : SsoUsed(f) => SsoUsed(f)'
  BY <1>2, <1>4, <1>5, SsoUsedMoves
<1>7. SsoGrows /\ SsoKept'
  BY <1>2, <1>6, SsoTablesStay
<1>8. SsoTyped'
  BY <1>2, <1>4, SsoHandlersAre DEF SsoInv, SsoTyped
<1>9. SsoHandlerFits(m)'
  BY <1>2, <1>4 DEF SsoHandlerFits, SsoTaken
<1> QED BY <1>2, <1>4, <1>7, <1>8, <1>9, SsoMoves

\* The invariant is inductive.
LEMMA SsoStep == SsoInv /\ [SsoNext]_ssoVars => SsoInv'
<1> SUFFICES ASSUME SsoInv, [SsoNext]_ssoVars PROVE SsoInv'
  OBVIOUS
<1>1. CASE UNCHANGED ssoVars
  <2>1. UNCHANGED <<ssoNow, ssoConfig, ssoStore, ssoFlows, ssoTokens, ssoHandler, ssoReplies>>
    BY <1>1 DEF ssoVars
  <2>2. SsoTyped'
    BY <2>1 DEF SsoInv, SsoTyped
  <2> QED BY <2>1, <2>2, SsoRestStays DEF SsoInv, SsoKept
<1>2. ASSUME NEW c \in SsoClaims, IdpAnswersSaml(c) PROVE SsoInv'
  <2>1. PICK f : f = 0
    OBVIOUS
  <2> QED BY <1>2, <2>1, IdpStep
<1>3. CASE SsoNext
  BY <1>2, <1>3, OidcLoginStep, OidcRedirectStep, OidcCallbackStep, OidcVerifyStep, CheckClaimsStep, SamlCallbackStep,
     IdpStep, BuildStep, SsoTickStep DEF SsoNext
<1> QED BY <1>1, <1>3

LEMMA SsoConcludes == SsoInv => SsoTypeOK /\ LoginsAreSound
<1> SUFFICES ASSUME SsoInv PROVE SsoTypeOK /\ LoginsAreSound
  OBVIOUS
<1>1. SsoTypeOK
  BY DEF SsoInv, SsoTyped, SsoTypeOK
<1>2. \A j \in DOMAIN ssoReplies : SsoReplyFits(ssoReplies[j]) /\ ssoReplies[j] \in SsoReply
  BY DEF SsoInv, SsoTyped, SsoAllFit
<1>3. \A j \in DOMAIN ssoReplies : ssoReplies[j].token.claims.signed \in BOOLEAN
  <2>1. \A j \in DOMAIN ssoReplies : ssoReplies[j].token \in SsoToken
    BY <1>2 DEF SsoReply
  <2>2. \A j \in DOMAIN ssoReplies : ssoReplies[j].token.claims \in SsoClaims
    BY <2>1 DEF SsoToken
  <2> QED BY <2>2, SsoAssumption
<1>4. FlowsLogInOnce
  <2>1. ASSUME NEW j \in DOMAIN ssoReplies, ssoReplies[j].token.protocol = "oidc", Accepted(j)
        PROVE  /\ ssoReplies[j].expected = ssoReplies[j].token.flow /\ ssoReplies[j].expected # 0
               /\ ssoFlows[ssoReplies[j].token.flow].session = ssoReplies[j].session
    BY <1>2, <2>1 DEF SsoReplyFits, SsoTaken, Accepted
  <2>2. ASSUME NEW j \in DOMAIN ssoReplies, ssoReplies[j].token.protocol = "oidc", Accepted(j),
               NEW k \in DOMAIN ssoReplies, k # j, Accepted(k), ssoReplies[k].token.protocol = "oidc"
        PROVE  ssoReplies[k].token.flow # ssoReplies[j].token.flow
    <3>1. ssoReplies[k].expected # ssoReplies[j].expected
      BY <2>1, <2>2 DEF SsoInv, SsoApart
    <3> QED BY <2>1, <2>2, <3>1
  <2> QED BY <2>1, <2>2 DEF FlowsLogInOnce
<1>5. RefusedForACause
  <2>1. ASSUME NEW k \in DOMAIN ssoReplies, NEW r, r = ssoReplies[k],
               r.token.protocol = "oidc", r.expected # r.token.flow, ssoFlows[r.token.flow].session = r.session
        PROVE  \/ \E j \in DOMAIN ssoReplies \ {k} : ssoReplies[j].expected = r.token.flow
               \/ \E h \in Judging : ssoHandler[h].flow = r.token.flow
               \/ \E f \in DOMAIN ssoFlows : f > r.token.flow /\ ssoFlows[f].session = r.session
    <3>1. SsoCause(r.token.flow, r.session)
      BY <1>2, <2>1 DEF SsoReplyFits, SsoExcused
    <3>2. DOMAIN ssoFlows = 1..Len(ssoFlows)
      BY DEF SsoInv, SsoTyped
    <3> QED BY <2>1, <3>1, <3>2 DEF SsoCause, SsoUsed
  <2> QED BY <2>1 DEF RefusedForACause
<1>6. AcceptedWhileValid
  BY <1>2, <1>3 DEF SsoReplyFits, AcceptedWhileValid, Accepted
<1> QED BY <1>1, <1>4, <1>5, <1>6 DEF LoginsAreSound

-----------------------------------------------------------------------------
(* Federation: whose user a subject is.  A login that has found or         *)
(* created its user holds the number the subject is linked to, in the      *)
(* tenant it asserted; the tables only grow; and of the logins that hold   *)
(* or answered with a new user no two have the same.                       *)

TfKeys == TfIdps \X TfSubjects
TfCodes ==
    {"OK", "FED_CROSS_TENANT_ASSERTION", "FED_IDENTITY_REBIND_REJECTED", "FED_IDP_NOT_REGISTERED",
     "FED_JIT_PROVISIONING_FAILED", "FED_ROLE_INVALID", "FED_TENANT_NOT_FOUND", "FED_TENANT_SCOPE_MISSING"}
TfAnswerRow == [c : TfClaims, code : TfCodes, user : 0..MaxUsers, new : BOOLEAN, login : 1..MaxTfLogins]

\* the subject of the assertion is linked to the user, in the tenant asserted
TfBound(c, u) ==
    u \in 1..Len(tfUsers) /\ Key(c) \in TfKeys /\ tfLinks[Key(c)] = u /\ tfUsers[u].tenant = c.tenant

\* what a login in flight has established
TfLoginFits(l) ==
    /\ l.new = TRUE => l.pc \in {"audit", "failed"}
    /\ l.pc # "idle" => TenantClaimed(l.c) /\ l.n \in 1..MaxTfLogins
    /\ l.pc \in {"find", "create", "refind", "update", "audit", "reject"} => TenantExists(l.c.tenant) /\ RoleParses(l.c)
    /\ l.pc \in {"update", "audit", "reject"} => l.user \in 1..Len(tfUsers)
    /\ l.pc \in {"update", "audit"} => TfBound(l.c, l.user)

TfAnswerFits(a) == a.code = "OK" => TfBound(a.c, a.user) /\ RoleParses(a.c)

\* two logins did not both create the user they name
TfApart(x, y) == x.new = TRUE /\ y.new = TRUE => x.user # y.user

TfTyped ==
    /\ tfMapping \in [TfIdps -> TfMapping] /\ tfUsers \in Seq(TfUser) /\ Len(tfUsers) <= MaxUsers
    /\ tfLinks \in [TfKeys -> 0..Len(tfUsers)] /\ tfEvents \in Seq(TfEvent)
    /\ tfLogin \in [TfLogins -> TfLoginState] /\ tfAnswers \in Seq(TfAnswerRow)
    /\ tfChanges \in 0..MaxMappings /\ tfStarted \in 0..MaxTfLogins

TfLoginsFit == \A w \in TfLogins : \A l : tfLogin[w] = l => TfLoginFits(l)
TfAnswersFit == \A k \in DOMAIN tfAnswers : \A a : tfAnswers[k] = a => TfAnswerFits(a)
TfAllApart ==
    /\ \A w, v \in TfLogins : w # v => TfApart(tfLogin[w], tfLogin[v])
    /\ \A w \in TfLogins, k \in DOMAIN tfAnswers : TfApart(tfLogin[w], tfAnswers[k])
    /\ \A j, k \in DOMAIN tfAnswers : j # k => TfApart(tfAnswers[j], tfAnswers[k])

\* a new user is one of the table
TfNumbered ==
    /\ \A w \in TfLogins : tfLogin[w].new = TRUE => tfLogin[w].user <= Len(tfUsers)
    /\ \A k \in DOMAIN tfAnswers : tfAnswers[k].new = TRUE => tfAnswers[k].user <= Len(tfUsers)

\* every user has one link
TfLinked == \A u \in 1..Len(tfUsers) : \E x \in TfKeys : \A y \in TfKeys : tfLinks[y] = u <=> y = x

TfInv ==
    TfTyped /\ TfLoginsFit /\ TfAnswersFit /\ TfAllApart /\ TfNumbered /\ TfLinked /\ TenantsSeeTheirMappings

LEMMA TfBounds == MaxUsers \in Nat /\ MaxMappings \in Nat /\ MaxTfLogins \in Nat
  BY TfAssumption

LEMMA TfIdleIs ==
    /\ TfIdle \in TfLoginState /\ TfIdle.pc = "idle" /\ TfIdle.new = FALSE /\ TfIdle.user = 0
<1>1. (CHOOSE c \in TfClaims : TRUE) \in TfClaims
  BY TfAssumption
<1> QED BY <1>1, TfBounds DEF TfIdle, TfLoginState

LEMMA TfLoginFields ==
    \A l \in TfLoginState : /\ l.c \in TfClaims /\ l.user \in 0..MaxUsers /\ l.new \in BOOLEAN /\ l.raced \in BOOLEAN
                            /\ l.n \in 0..MaxTfLogins /\ l.seen \in TfRoles \cup {"none"}
  BY DEF TfLoginState

LEMMA TfStart == TfInit => TfInv
<1> SUFFICES ASSUME TfInit PROVE TfInv
  OBVIOUS
<1>1. NoMapping \in TfMapping
  BY TfBounds DEF NoMapping, TfMapping
<1>2. tfUsers = <<>> /\ Len(tfUsers) = 0 /\ DOMAIN tfAnswers = {} /\ \A w \in TfLogins : tfLogin[w] = TfIdle
  BY DEF TfInit
<1>3. TfTyped
  BY <1>1, <1>2, TfIdleIs, TfBounds DEF TfInit, TfTyped, TfKeys
<1>4. TfLoginsFit
  BY <1>2, TfIdleIs DEF TfLoginsFit, TfLoginFits
<1>5. TfAnswersFit
  BY <1>2 DEF TfAnswersFit
<1>6. TfAllApart /\ TfNumbered
  BY <1>2, TfIdleIs DEF TfAllApart, TfApart, TfNumbered
<1>7. TfLinked
  BY <1>2 DEF TfLinked
<1> QED BY <1>3, <1>4, <1>5, <1>6, <1>7 DEF TfInit, TfInv, TenantsSeeTheirMappings

\* The tables grow: users keep their tenants, subjects their links.
TfGrows ==
    /\ Len(tfUsers) <= Len(tfUsers') /\ Len(tfUsers) \in Nat /\ Len(tfUsers') \in Nat
    /\ \A u \in 1..Len(tfUsers) : tfUsers'[u].tenant = tfUsers[u].tenant
    /\ \A x \in TfKeys : tfLinks[x] # 0 => tfLinks'[x] = tfLinks[x]

LEMMA TfKept ==
    ASSUME TfGrows
    PROVE  /\ \A c, u : TfBound(c, u) => TfBound(c, u)'
           /\ \A l : TfLoginFits(l) => TfLoginFits(l)'
           /\ \A a : TfAnswerFits(a) => TfAnswerFits(a)'
<1>1. ASSUME NEW c, NEW u, TfBound(c, u) PROVE TfBound(c, u)'
  <2>1. u \in 1..Len(tfUsers) /\ Key(c) \in TfKeys /\ tfLinks[Key(c)] = u /\ tfUsers[u].tenant = c.tenant
    BY <1>1 DEF TfBound
  <2>2. u \in 1..Len(tfUsers') /\ u # 0
    BY <2>1 DEF TfGrows
  <2>3. tfLinks'[Key(c)] = u
    BY <2>1, <2>2 DEF TfGrows
  <2> QED BY <2>1, <2>2, <2>3 DEF TfGrows, TfBound, Key
<1>2. \A u : u \in 1..Len(tfUsers) => u \in 1..Len(tfUsers')
  BY DEF TfGrows
<1>3. ASSUME NEW l, TfLoginFits(l) PROVE TfLoginFits(l)'
  BY <1>1, <1>2, <1>3 DEF TfLoginFits
<1>4. ASSUME NEW a, TfAnswerFits(a) PROVE TfAnswerFits(a)'
  BY <1>1, <1>4 DEF TfAnswerFits
<1> QED BY <1>1, <1>3, <1>4

LEMMA TfStays ==
    ASSUME TfInv, UNCHANGED <<tfUsers, tfLinks>>
    PROVE  TfGrows /\ TfLinked' /\ Len(tfUsers') <= MaxUsers /\ tfUsers' \in Seq(TfUser)
           /\ tfLinks' \in [TfKeys -> 0..Len(tfUsers')]
<1>1. tfUsers \in Seq(TfUser) /\ Len(tfUsers) \in Nat
  BY DEF TfInv, TfTyped
<1> QED BY <1>1 DEF TfInv, TfTyped, TfGrows, TfLinked

\* A login that moves on; a new user is the one just added.
LEMMA TfMoves ==
    ASSUME TfInv, NEW w \in TfLogins, NEW m \in TfLoginState, tfLogin' = [tfLogin EXCEPT ![w] = m],
           TfLoginFits(m)', m.new = TRUE => m.user = Len(tfUsers) + 1 /\ m.user <= Len(tfUsers'),
           TfGrows, TfLinked', tfUsers' \in Seq(TfUser), Len(tfUsers') <= MaxUsers,
           tfLinks' \in [TfKeys -> 0..Len(tfUsers')], tfStarted' \in 0..MaxTfLogins,
           UNCHANGED <<tfMapping, tfEvents, tfAnswers, tfChanges, tfShown>>
    PROVE  TfInv'
<1>1. /\ tfLogin' \in [TfLogins -> TfLoginState]
      /\ \A v \in TfLogins : tfLogin'[v] = IF v = w THEN m ELSE tfLogin[v]
  BY DEF TfInv, TfTyped
<1>2. TfTyped'
  BY <1>1 DEF TfInv, TfTyped
<1>3. TfLoginsFit'
  BY <1>1, TfKept DEF TfInv, TfLoginsFit
<1>4. TfAnswersFit'
  <2>1. tfAnswers' = tfAnswers
    OBVIOUS
  <2>2. ASSUME NEW k \in DOMAIN tfAnswers, NEW a, tfAnswers[k] = a PROVE TfAnswerFits(a)'
    BY <2>2, TfKept DEF TfInv, TfAnswersFit
  <2> QED BY <2>1, <2>2 DEF TfAnswersFit
<1>5. \A x : x.new = TRUE /\ x.user \in Int /\ x.user <= Len(tfUsers) => TfApart(x, m) /\ TfApart(m, x)
  <2>1. Len(tfUsers) \in Nat
    BY DEF TfGrows
  <2>2. ASSUME NEW x, x.user \in Int, x.user <= Len(tfUsers), m.new = TRUE PROVE x.user # m.user
    BY <2>1, <2>2
  <2> QED BY <2>2 DEF TfApart
<1>6. \A x : x.new # TRUE => TfApart(x, m) /\ TfApart(m, x)
  BY DEF TfApart
<1>7. /\ \A v \in TfLogins : tfLogin[v].user \in Int /\ (tfLogin[v].new = TRUE => tfLogin[v].user <= Len(tfUsers))
      /\ \A k \in DOMAIN tfAnswers : /\ tfAnswers[k].user \in Int
                                     /\ tfAnswers[k].new = TRUE => tfAnswers[k].user <= Len(tfUsers)
  <2>1. \A k \in DOMAIN tfAnswers : tfAnswers[k] \in TfAnswerRow
    BY DEF TfInv, TfTyped
  <2> QED BY <2>1, TfLoginFields DEF TfInv, TfTyped, TfNumbered, TfAnswerRow
<1>8. /\ \A v \in TfLogins : TfApart(tfLogin[v], m) /\ TfApart(m, tfLogin[v])
      /\ \A k \in DOMAIN tfAnswers : TfApart(m, tfAnswers[k])
  BY <1>5, <1>6, <1>7
<1>9. TfAllApart'
  <2>1. ASSUME NEW u \in TfLogins, NEW v \in TfLogins, u # v PROVE TfApart(tfLogin'[u], tfLogin'[v])
    BY <1>1, <1>8, <2>1 DEF TfInv, TfAllApart
  <2>2. ASSUME NEW u \in TfLogins, NEW k \in DOMAIN tfAnswers PROVE TfApart(tfLogin'[u], tfAnswers[k])
    BY <1>1, <1>8 DEF TfInv, TfAllApart
  <2> QED BY <2>1, <2>2 DEF TfInv, TfAllApart, TfApart
<1>10. TfNumbered'
  <2>1. Len(tfUsers) \in Nat /\ Len(tfUsers') \in Nat /\ Len(tfUsers) <= Len(tfUsers')
    BY DEF TfGrows
  <2>2. ASSUME NEW v \in TfLogins, tfLogin'[v].new = TRUE PROVE tfLogin'[v].user <= Len(tfUsers')
    BY <1>1, <1>7, <2>1, <2>2
  <2>3. ASSUME NEW k \in DOMAIN tfAnswers, tfAnswers[k].new = TRUE PROVE tfAnswers[k].user <= Len(tfUsers')
    BY <1>7, <2>1, <2>3
  <2> QED BY <2>2, <2>3 DEF TfNumbered
<1> QED BY <1>2, <1>3, <1>4, <1>9, <1>10 DEF TfInv, TenantsSeeTheirMappings

\* A login that only goes on to its next query.
LEMMA TfGoesOn ==
    ASSUME TfInv, NEW w \in TfLogins, NEW m \in TfLoginState, tfLogin' = [tfLogin EXCEPT ![w] = m],
           TfLoginFits(m), m.new = FALSE, UNCHANGED <<tfUsers, tfLinks, tfMapping, tfEvents, tfAnswers, tfChanges,
                                                      tfStarted, tfShown>>
    PROVE  TfInv'
<1>1. TfLoginFits(m)'
  BY TfStays, TfKept
<1>2. tfStarted' \in 0..MaxTfLogins
  BY DEF TfInv, TfTyped
<1> QED BY <1>1, <1>2, TfStays, TfMoves

\* The place a login goes to.
LEMMA TfGoes ==
    ASSUME NEW l \in TfLoginState, NEW pc \in {"tenant", "find", "create", "refind", "failed", "audit"}
    PROVE  /\ [l EXCEPT !.pc = pc] \in TfLoginState /\ [l EXCEPT !.pc = pc].pc = pc
           /\ [l EXCEPT !.pc = pc].c = l.c /\ [l EXCEPT !.pc = pc].user = l.user /\ [l EXCEPT !.pc = pc].new = l.new
           /\ [l EXCEPT !.pc = pc].n = l.n
  BY DEF TfLoginState

\* An answer takes over what the login held.
LEMMA TfAnswersKeep ==
    ASSUME TfInv, NEW w \in TfLogins, NEW code \in TfCodes, TfAnswer(w, code), tfLogin[w].pc # "idle",
           code = "OK" => tfLogin[w].pc = "audit", tfEvents' \in Seq(TfEvent),
           UNCHANGED <<tfUsers, tfLinks, tfMapping, tfChanges, tfStarted, tfShown>>
    PROVE  TfInv'
<1>1. PICK l : l = tfLogin[w]
  OBVIOUS
<1>2. l \in TfLoginState /\ TfLoginFits(l) /\ l.pc # "idle"
  BY <1>1 DEF TfInv, TfTyped, TfLoginsFit
<1>3. PICK a : a = [c |-> l.c, code |-> code, user |-> l.user, new |-> l.new, login |-> l.n]
  OBVIOUS
<1>4. a \in TfAnswerRow /\ a.c = l.c /\ a.code = code /\ a.user = l.user /\ a.new = l.new
  <2>1. l.n \in 1..MaxTfLogins
    BY <1>2 DEF TfLoginFits
  <2>2. l.c \in TfClaims /\ l.user \in 0..MaxUsers /\ l.new \in BOOLEAN
    BY <1>2, TfLoginFields
  <2> QED BY <1>3, <2>1, <2>2 DEF TfAnswerRow
<1>5. tfAnswers' = Append(tfAnswers, a) /\ tfLogin' = [tfLogin EXCEPT ![w] = TfIdle] /\ tfAnswers \in Seq(TfAnswerRow)
  BY <1>1, <1>3 DEF TfAnswer, TfInv, TfTyped
<1>6. /\ tfAnswers' \in Seq(TfAnswerRow) /\ DOMAIN tfAnswers' = DOMAIN tfAnswers \cup {Len(tfAnswers) + 1}
      /\ tfAnswers'[Len(tfAnswers) + 1] = a /\ Len(tfAnswers) + 1 \notin DOMAIN tfAnswers
      /\ \A k \in DOMAIN tfAnswers : tfAnswers'[k] = tfAnswers[k]
  BY <1>4, <1>5
<1>7. /\ tfLogin' \in [TfLogins -> TfLoginState]
      /\ \A v \in TfLogins : tfLogin'[v] = IF v = w THEN TfIdle ELSE tfLogin[v]
  BY <1>5, TfIdleIs DEF TfInv, TfTyped
<1>8. TfGrows /\ TfLinked'
  BY TfStays
<1>9. TfTyped'
  BY <1>6, <1>7 DEF TfInv, TfTyped
<1>10. TfLoginsFit'
  <2>1. TfLoginFits(TfIdle)'
    BY TfIdleIs DEF TfLoginFits
  <2>2. ASSUME NEW v \in TfLogins, NEW x, tfLogin'[v] = x PROVE TfLoginFits(x)'
    BY <1>7, <1>8, <2>1, <2>2, TfKept DEF TfInv, TfLoginsFit
  <2> QED BY <2>2 DEF TfLoginsFit
<1>11. TfAnswersFit'
  <2>1. TfAnswerFits(a)
    BY <1>1, <1>2, <1>4 DEF TfLoginFits, TfAnswerFits
  <2>2. ASSUME NEW k \in DOMAIN tfAnswers', NEW x, tfAnswers'[k] = x PROVE TfAnswerFits(x)
    BY <1>6, <2>1, <2>2 DEF TfInv, TfAnswersFit
  <2>3. \A x : TfAnswerFits(x) => TfAnswerFits(x)'
    BY <1>8, TfKept
  <2> QED BY <2>2, <2>3 DEF TfAnswersFit
<1>12. TfAllApart'
  <2>1. \A x : TfApart(TfIdle, x) /\ TfApart(x, TfIdle)
    BY TfIdleIs DEF TfApart
  <2>2. \A x : TfApart(l, x) => TfApart(a, x)
    BY <1>4 DEF TfApart
  <2>3. \A x : TfApart(x, l) => TfApart(x, a)
    BY <1>4 DEF TfApart
  <2>4. \A x, y : TfApart(x, y) => TfApart(y, x)
    BY DEF TfApart
  <2>5. ASSUME NEW u \in TfLogins, NEW v \in TfLogins, u # v PROVE TfApart(tfLogin'[u], tfLogin'[v])
    BY <1>7, <2>1, <2>5 DEF TfInv, TfAllApart
  <2>6. ASSUME NEW u \in TfLogins, NEW k \in DOMAIN tfAnswers' PROVE TfApart(tfLogin'[u], tfAnswers'[k])
    <3>1. CASE u = w
      BY <1>7, <2>1, <3>1
    <3>2. CASE u # w /\ k \in DOMAIN tfAnswers
      BY <1>6, <1>7, <3>2 DEF TfInv, TfAllApart
    <3>3. CASE u # w /\ k = Len(tfAnswers) + 1
      BY <1>1, <1>6, <1>7, <2>3, <3>3 DEF TfInv, TfAllApart
    <3> QED BY <1>6, <3>1, <3>2, <3>3
  <2>7. \A k \in DOMAIN tfAnswers : TfApart(a, tfAnswers[k])
    BY <1>1, <2>2 DEF TfInv, TfAllApart
  <2>8. ASSUME NEW j \in DOMAIN tfAnswers', NEW k \in DOMAIN tfAnswers', j # k PROVE TfApart(tfAnswers'[j], tfAnswers'[k])
    BY <1>6, <2>4, <2>7, <2>8 DEF TfInv, TfAllApart
  <2> QED BY <2>5, <2>6, <2>8 DEF TfAllApart, TfApart
<1>13. TfNumbered'
  <2>1. l.new = TRUE => l.user <= Len(tfUsers)
    BY <1>1 DEF TfInv, TfNumbered
  <2>2. ASSUME NEW v \in TfLogins, tfLogin'[v].new = TRUE PROVE tfLogin'[v].user <= Len(tfUsers)
    BY <1>7, <2>2, TfIdleIs DEF TfInv, TfNumbered
  <2>3. ASSUME NEW k \in DOMAIN tfAnswers', tfAnswers'[k].new = TRUE PROVE tfAnswers'[k].user <= Len(tfUsers)
    BY <1>4, <1>6, <2>1, <2>3 DEF TfInv, TfNumbered
  <2> QED BY <2>2, <2>3 DEF TfNumbered
<1> QED BY <1>8, <1>9, <1>10, <1>11, <1>12, <1>13 DEF TfInv, TenantsSeeTheirMappings

LEMMA SdkResolveStep ==
    ASSUME TfInv, NEW w \in TfLogins, NEW c \in TfClaims, SdkResolve(w, c)
    PROVE  TfInv'
<1>1. PICK m : m = [pc |-> "mapping", c |-> c, user |-> 0, seen |-> "none", new |-> FALSE, raced |-> FALSE,
                    n |-> tfStarted + 1]
  OBVIOUS
<1>2. /\ TenantClaimed(c) /\ tfLogin' = [tfLogin EXCEPT ![w] = m] /\ tfStarted' = tfStarted + 1 /\ tfStarted < MaxTfLogins
      /\ UNCHANGED <<tfMapping, tfUsers, tfLinks, tfEvents, tfAnswers, tfChanges, tfShown>>
  BY <1>1 DEF SdkResolve, consoleVars
<1>3. tfStarted \in 0..MaxTfLogins
  BY DEF TfInv, TfTyped
<1>4. tfStarted + 1 \in 1..MaxTfLogins /\ tfStarted' \in 0..MaxTfLogins
  BY <1>2, <1>3, TfBounds
<1>5. m \in TfLoginState /\ m.pc = "mapping" /\ m.c = c /\ m.new = FALSE /\ m.n = tfStarted + 1
  BY <1>1, <1>4, TfBounds DEF TfLoginState
<1>6. TfLoginFits(m)'
  BY <1>2, <1>4, <1>5 DEF TfLoginFits
<1> QED BY <1>2, <1>4, <1>5, <1>6, TfStays, TfMoves

LEMMA RouteRefusesStep ==
    ASSUME TfInv, NEW w \in TfLogins, NEW c \in TfClaims, RouteRefuses(w, c)
    PROVE  TfInv'
<1>1. PICK a : a = [c |-> c, code |-> "FED_TENANT_SCOPE_MISSING", user |-> 0, new |-> FALSE, login |-> tfStarted + 1]
  OBVIOUS
<1>2. /\ tfAnswers' = Append(tfAnswers, a) /\ tfStarted' = tfStarted + 1 /\ tfStarted < MaxTfLogins
      /\ UNCHANGED <<tfMapping, tfUsers, tfLinks, tfEvents, tfLogin, tfChanges, tfShown>>
  BY <1>1 DEF RouteRefuses, consoleVars
<1>3. tfStarted \in 0..MaxTfLogins /\ tfAnswers \in Seq(TfAnswerRow)
  BY DEF TfInv, TfTyped
<1>4. tfStarted + 1 \in 1..MaxTfLogins /\ tfStarted' \in 0..MaxTfLogins
  BY <1>2, <1>3, TfBounds
<1>5. a \in TfAnswerRow /\ a.code # "OK" /\ a.new = FALSE
  <2>1. 0 \in 0..MaxUsers
    BY TfBounds
  <2>2. PICK code : code = "FED_TENANT_SCOPE_MISSING"
    OBVIOUS
  <2>3. code \in TfCodes
    BY <2>2 DEF TfCodes
  <2>4. a = [c |-> c, code |-> code, user |-> 0, new |-> FALSE, login |-> tfStarted + 1]
    BY <1>1, <2>2
  <2>5. a \in TfAnswerRow
    BY <1>4, <2>1, <2>3, <2>4 DEF TfAnswerRow
  <2> QED BY <1>1, <2>5
<1>6. /\ tfAnswers' \in Seq(TfAnswerRow) /\ DOMAIN tfAnswers' = DOMAIN tfAnswers \cup {Len(tfAnswers) + 1}
      /\ tfAnswers'[Len(tfAnswers) + 1] = a
      /\ \A k \in DOMAIN tfAnswers : tfAnswers'[k] = tfAnswers[k]
  BY <1>2, <1>3, <1>5
<1>7. TfGrows /\ TfLinked'
  BY <1>2, TfStays
<1>8. TfTyped'
  BY <1>2, <1>4, <1>6 DEF TfInv, TfTyped
<1>9. TfLoginsFit'
  <2>1. ASSUME NEW v \in TfLogins, NEW x, tfLogin[v] = x PROVE TfLoginFits(x)'
    BY <1>7, <2>1, TfKept DEF TfInv, TfLoginsFit
  <2> QED BY <1>2, <2>1 DEF TfLoginsFit
<1>10. TfAnswersFit'
  <2>1. TfAnswerFits(a)
    BY <1>5 DEF TfAnswerFits
  <2>2. ASSUME NEW k \in DOMAIN tfAnswers', NEW x, tfAnswers'[k] = x PROVE TfAnswerFits(x)
    BY <1>6, <2>1, <2>2 DEF TfInv, TfAnswersFit
  <2>3. \A x : TfAnswerFits(x) => TfAnswerFits(x)'
    BY <1>7, TfKept
  <2> QED BY <2>2, <2>3 DEF TfAnswersFit
<1>11. TfAllApart'
  <2>1. \A x : TfApart(a, x) /\ TfApart(x, a)
    BY <1>5 DEF TfApart
  <2>2. ASSUME NEW u \in TfLogins, NEW k \in DOMAIN tfAnswers' PROVE TfApart(tfLogin[u], tfAnswers'[k])
    BY <1>6, <2>1 DEF TfInv, TfAllApart
  <2>3. ASSUME NEW j \in DOMAIN tfAnswers', NEW k \in DOMAIN tfAnswers', j # k PROVE TfApart(tfAnswers'[j], tfAnswers'[k])
    BY <1>6, <2>1, <2>3 DEF TfInv, TfAllApart
  <2> QED BY <1>2, <2>2, <2>3 DEF TfInv, TfAllApart, TfApart
<1>12. TfNumbered'
  <2>1. ASSUME NEW k \in DOMAIN tfAnswers', tfAnswers'[k].new = TRUE PROVE tfAnswers'[k].user <= Len(tfUsers)
    BY <1>5, <1>6, <2>1 DEF TfInv, TfNumbered
  <2> QED BY <1>2, <2>1 DEF TfInv, TfNumbered
<1> QED BY <1>2, <1>7, <1>8, <1>9, <1>10, <1>11, <1>12 DEF TfInv, TenantsSeeTheirMappings

\* A login that passes a check goes on; one that fails is answered.
LEMMA TfPasses ==
    ASSUME TfInv, NEW w \in TfLogins, NEW pc \in {"tenant", "find", "create", "refind", "audit"}, Goes(w, pc),
           tfLogin[w].pc \notin {"idle", "audit", "failed"},
           pc # "audit", pc # "tenant" => TenantExists(tfLogin[w].c.tenant) /\ RoleParses(tfLogin[w].c),
           UNCHANGED <<tfUsers, tfLinks, tfMapping, tfEvents, tfAnswers, tfChanges, tfStarted, tfShown>>
    PROVE  TfInv'
<1>1. PICK m : m = [tfLogin[w] EXCEPT !.pc = pc]
  OBVIOUS
<1>2. tfLogin[w] \in TfLoginState /\ TfLoginFits(tfLogin[w]) /\ tfLogin[w].new \in BOOLEAN
  BY TfLoginFields DEF TfInv, TfTyped, TfLoginsFit
<1>3. m \in TfLoginState /\ m.pc = pc /\ m.c = tfLogin[w].c /\ m.new = tfLogin[w].new /\ m.n = tfLogin[w].n
  <2>1. pc \in {"tenant", "find", "create", "refind", "failed", "audit"}
    OBVIOUS
  <2> QED BY <1>1, <1>2, <2>1, TfGoes
<1>4. tfLogin[w].new = FALSE /\ TenantClaimed(tfLogin[w].c) /\ tfLogin[w].n \in 1..MaxTfLogins
  BY <1>2 DEF TfLoginFits
<1>5. TfLoginFits(m)
  BY <1>3, <1>4 DEF TfLoginFits
<1>6. tfLogin' = [tfLogin EXCEPT ![w] = m]
  BY <1>1 DEF Goes
<1> QED BY <1>3, <1>4, <1>5, <1>6, TfGoesOn

LEMMA CheckMappingStep ==
    ASSUME TfInv, NEW w \in TfLogins, CheckMapping(w)
    PROVE  TfInv'
<1>1. tfLogin[w].pc = "mapping" /\ TfLoginFits(tfLogin[w]) /\ tfLogin[w].new \in BOOLEAN
  BY TfLoginFields DEF CheckMapping, TfInv, TfTyped, TfLoginsFit
<1>2. UNCHANGED <<tfMapping, tfUsers, tfLinks, tfEvents, tfChanges, tfStarted, tfShown>> /\ tfEvents \in Seq(TfEvent)
  BY DEF CheckMapping, TablesUnchanged, consoleVars, TfInv, TfTyped
<1>3. ASSUME NEW code \in TfCodes, code # "OK", TfAnswer(w, code) PROVE TfInv'
  BY <1>1, <1>2, <1>3, TfAnswersKeep
<1>4. CASE Goes(w, "tenant") /\ UNCHANGED tfAnswers
  <2>1. tfLogin[w].pc \notin {"idle", "audit", "failed"}
    BY <1>1
  <2> QED BY <1>2, <1>4, <2>1, TfPasses
<1> QED BY <1>3, <1>4 DEF CheckMapping, TfCodes

LEMMA CheckTenantStep ==
    ASSUME TfInv, NEW w \in TfLogins, CheckTenant(w)
    PROVE  TfInv'
<1>1. tfLogin[w].pc = "tenant" /\ TfLoginFits(tfLogin[w]) /\ tfLogin[w].new \in BOOLEAN
  BY TfLoginFields DEF CheckTenant, TfInv, TfTyped, TfLoginsFit
<1>2. UNCHANGED <<tfMapping, tfUsers, tfLinks, tfEvents, tfChanges, tfStarted, tfShown>> /\ tfEvents \in Seq(TfEvent)
  BY DEF CheckTenant, TablesUnchanged, consoleVars, TfInv, TfTyped
<1>3. ASSUME NEW code \in TfCodes, code # "OK", TfAnswer(w, code) PROVE TfInv'
  BY <1>1, <1>2, <1>3, TfAnswersKeep
<1>4. CASE TenantExists(tfLogin[w].c.tenant) /\ RoleParses(tfLogin[w].c) /\ Goes(w, "find") /\ UNCHANGED tfAnswers
  <2>1. tfLogin[w].pc \notin {"idle", "audit", "failed"}
    BY <1>1
  <2> QED BY <1>2, <1>4, <2>1, TfPasses
<1> QED BY <1>3, <1>4 DEF CheckTenant, TfCodes

\* A login that adopts the user its subject is linked to.
LEMMA TfAdopts ==
    ASSUME TfInv, NEW w \in TfLogins, NEW raced \in BOOLEAN, NEW u, u = tfLinks[Key(tfLogin[w].c)], u # 0,
           tfLogin[w].pc \in {"find", "refind"}, tfLogin' = [tfLogin EXCEPT ![w] = Adopt(w, u, raced)],
           UNCHANGED <<tfUsers, tfLinks, tfMapping, tfEvents, tfAnswers, tfChanges, tfStarted, tfShown>>
    PROVE  TfInv'
<1>1. PICK l : l = tfLogin[w]
  OBVIOUS
<1>2. l \in TfLoginState /\ TfLoginFits(l)
  BY <1>1 DEF TfInv, TfTyped, TfLoginsFit
<1>3. Key(l.c) \in TfKeys
  BY <1>1, <1>2, TfLoginFields, TfAssumption DEF TfLoginFits, TenantClaimed, Key, TfKeys
<1>4. u \in 1..Len(tfUsers) /\ u \in 0..MaxUsers /\ tfUsers[u] \in TfUser /\ tfUsers[u].role \in TfRoles
  <2>1. tfLinks \in [TfKeys -> 0..Len(tfUsers)] /\ Len(tfUsers) \in Nat /\ tfUsers \in Seq(TfUser) /\ Len(tfUsers) <= MaxUsers
    BY DEF TfInv, TfTyped
  <2>2. u \in 0..Len(tfUsers)
    BY <1>1, <1>3, <2>1
  <2>3. u \in 1..Len(tfUsers) /\ u \in 0..MaxUsers
    BY <2>1, <2>2, TfBounds
  <2>4. tfUsers[u] \in TfUser
    BY <2>1, <2>3
  <2> QED BY <2>3, <2>4 DEF TfUser
<1> DEFINE pc == CASE ~ (tfUsers[u].tenant = l.c.tenant) -> "reject"
                   [] tfUsers[u].tenant = l.c.tenant /\ tfUsers[u].role # l.c.role -> "update"
                   [] OTHER -> "audit"
<1>5. pc \in {"reject", "update", "audit"} /\ (pc # "reject" => tfUsers[u].tenant = l.c.tenant)
  OBVIOUS
<1>6. Adopt(w, u, raced) = WithUser(l, pc, u, tfUsers[u].role, FALSE, raced)
  BY <1>1 DEF Adopt
<1> HIDE DEF pc
<1>7. PICK m : m = [pc |-> pc, c |-> l.c, user |-> u, seen |-> tfUsers[u].role, new |-> FALSE, raced |-> raced, n |-> l.n]
  OBVIOUS
<1>8. l.c \in TfClaims /\ l.n \in 0..MaxTfLogins
  BY <1>2, TfLoginFields
<1>9. m \in TfLoginState /\ m.pc = pc /\ m.c = l.c /\ m.user = u /\ m.new = FALSE /\ m.n = l.n
  BY <1>4, <1>5, <1>7, <1>8 DEF TfLoginState
<1>10. tfLogin' = [tfLogin EXCEPT ![w] = m]
  BY <1>6, <1>7 DEF WithUser
<1>11. pc # "reject" => TfBound(l.c, u)
  BY <1>1, <1>3, <1>4, <1>5 DEF TfBound
<1>12. TfLoginFits(m)
  BY <1>1, <1>2, <1>4, <1>5, <1>9, <1>11 DEF TfLoginFits
<1> QED BY <1>9, <1>10, <1>12, TfGoesOn

LEMMA FindUserStep ==
    ASSUME TfInv, NEW w \in TfLogins, FindUser(w) \/ RecoverFromRace(w)
    PROVE  TfInv'
<1>1. tfLogin[w].pc \in {"find", "refind"} /\ TfLoginFits(tfLogin[w]) /\ tfLogin[w].new \in BOOLEAN
  BY TfLoginFields DEF FindUser, RecoverFromRace, TfInv, TfTyped, TfLoginsFit
<1>2. UNCHANGED <<tfMapping, tfUsers, tfLinks, tfEvents, tfAnswers, tfChanges, tfStarted, tfShown>>
  BY DEF FindUser, RecoverFromRace, TablesUnchanged, consoleVars
<1>3. PICK u : u = tfLinks[Key(tfLogin[w].c)]
  OBVIOUS
<1>4. CASE FindUser(w) /\ u = 0
  <2>1. Goes(w, "create")
    BY <1>3, <1>4 DEF FindUser, Goes
  <2>2. TenantExists(tfLogin[w].c.tenant) /\ RoleParses(tfLogin[w].c)
    BY <1>1 DEF TfLoginFits
  <2> QED BY <1>1, <1>2, <2>1, <2>2, TfPasses
<1>5. CASE FindUser(w) /\ u # 0
  <2>1. tfLogin' = [tfLogin EXCEPT ![w] = Adopt(w, u, FALSE)]
    BY <1>3, <1>5 DEF FindUser
  <2> QED BY <1>1, <1>2, <1>3, <1>5, <2>1, TfAdopts
<1>6. CASE RecoverFromRace(w)
  <2>1. tfLogin' = [tfLogin EXCEPT ![w] = Adopt(w, u, TRUE)] /\ u # 0
    BY <1>3, <1>6 DEF RecoverFromRace
  <2> QED BY <1>1, <1>2, <1>3, <2>1, TfAdopts
<1> QED BY <1>4, <1>5, <1>6

\* The transaction that inserts a user and its link.
LEMMA TfInserts ==
    ASSUME TfInv, NEW w \in TfLogins, NEW pc \in {"audit", "failed"}, NEW l, l = tfLogin[w], l.pc = "create", tfLinks[Key(l.c)] = 0,
           Len(tfUsers) < MaxUsers, tfUsers' = Append(tfUsers, [tenant |-> l.c.tenant, role |-> l.c.role]),
           tfLinks' = [tfLinks EXCEPT ![Key(l.c)] = Len(tfUsers) + 1],
           tfLogin' = [tfLogin EXCEPT ![w] = WithUser(l, pc, Len(tfUsers) + 1, l.c.role, TRUE, FALSE)],
           UNCHANGED <<tfAnswers, tfMapping, tfEvents, tfChanges, tfStarted, tfShown>>
    PROVE  TfInv'
<1>1. l \in TfLoginState /\ TfLoginFits(l)
  BY DEF TfInv, TfTyped, TfLoginsFit
<1>2. TenantClaimed(l.c) /\ l.n \in 1..MaxTfLogins /\ l.c.tenant \in TfTenants /\ l.c.role \in TfRoles /\ RoleParses(l.c)
  BY <1>1 DEF TfLoginFits, TenantExists, RoleParses
<1>3. l.c \in TfClaims /\ Key(l.c) \in TfKeys
  BY <1>1, <1>2, TfLoginFields, TfAssumption DEF TenantClaimed, Key, TfKeys
<1>4. PICK n : n = Len(tfUsers)
  OBVIOUS
<1>5. PICK key : key = Key(l.c)
  OBVIOUS
<1>6. tfUsers \in Seq(TfUser) /\ n \in Nat /\ n + 1 \in 1..MaxUsers /\ tfLinks \in [TfKeys -> 0..n] /\ key \in TfKeys
  BY <1>3, <1>4, <1>5, TfBounds DEF TfInv, TfTyped
<1>7. PICK x \in TfUser : x = [tenant |-> l.c.tenant, role |-> l.c.role] /\ x.tenant = l.c.tenant
  BY <1>2 DEF TfUser
<1>8. tfUsers' = Append(tfUsers, x) /\ tfLinks' = [tfLinks EXCEPT ![key] = n + 1]
  BY <1>4, <1>5, <1>7
<1>9. tfUsers' \in Seq(TfUser) /\ Len(tfUsers') = n + 1 /\ tfUsers'[n + 1] = x /\ \A u \in 1..n : tfUsers'[u] = tfUsers[u]
  BY <1>4, <1>6, <1>8
<1>10. \A y \in TfKeys : tfLinks'[y] = IF y = key THEN n + 1 ELSE tfLinks[y]
  BY <1>6, <1>8
<1>11. tfLinks' \in [TfKeys -> 0..Len(tfUsers')]
  <2>1. \A y \in TfKeys : tfLinks'[y] \in 0..(n + 1)
    BY <1>6, <1>10
  <2> QED BY <1>6, <1>8, <1>9, <2>1
<1>12. TfGrows
  BY <1>4, <1>5, <1>6, <1>9, <1>10 DEF TfGrows
<1>13. TfLinked'
  <2>1. \A y \in TfKeys : tfLinks'[y] = n + 1 <=> y = key
    BY <1>6, <1>10
  <2>2. ASSUME NEW u \in 1..n PROVE \E z \in TfKeys : \A y \in TfKeys : tfLinks'[y] = u <=> y = z
    <3>1. PICK z \in TfKeys : \A y \in TfKeys : tfLinks[y] = u <=> y = z
      BY <1>4 DEF TfInv, TfLinked
    <3>2. z # key
      BY <1>5, <1>6, <3>1
    <3>3. u # n + 1
      BY <1>6
    <3> QED BY <1>6, <1>10, <3>1, <3>2, <3>3
  <2>3. 1..Len(tfUsers') = 1..n \cup {n + 1}
    BY <1>6, <1>9
  <2>4. ASSUME NEW u \in 1..Len(tfUsers') PROVE \E z \in TfKeys : \A y \in TfKeys : tfLinks'[y] = u <=> y = z
    <3>1. CASE u = n + 1
      BY <1>6, <2>1, <3>1
    <3> QED BY <2>2, <2>3, <3>1
  <2> QED BY <2>4 DEF TfLinked
<1>14. PICK m : m = [pc |-> pc, c |-> l.c, user |-> n + 1, seen |-> l.c.role, new |-> TRUE, raced |-> FALSE, n |-> l.n]
  OBVIOUS
<1>15. m \in TfLoginState /\ m.pc = pc /\ m.c = l.c /\ m.user = n + 1 /\ m.new = TRUE /\ m.n = l.n
  <2>1. n + 1 \in 0..MaxUsers /\ l.n \in 0..MaxTfLogins /\ l.c.role \in TfRoles \cup {"none"}
    BY <1>2, <1>6
  <2>2. m \in TfLoginState
    BY <1>3, <1>14, <2>1 DEF TfLoginState
  <2> QED BY <1>14, <2>2
<1>16. tfLogin' = [tfLogin EXCEPT ![w] = m]
  BY <1>4, <1>14 DEF WithUser
<1>17. TfBound(l.c, n + 1)'
  <2>1. n + 1 \in 1..Len(tfUsers')
    BY <1>6, <1>9
  <2>2. tfLinks'[Key(l.c)] = n + 1 /\ tfUsers'[n + 1].tenant = l.c.tenant
    BY <1>3, <1>5, <1>7, <1>9, <1>10
  <2> QED BY <1>3, <2>1, <2>2 DEF TfBound, Key
<1>18. TfLoginFits(m)'
  <2>1. n + 1 \in 1..Len(tfUsers')
    BY <1>6, <1>9
  <2> QED BY <1>2, <1>15, <1>17, <2>1 DEF TfLoginFits, TenantExists
<1>19. Len(tfUsers') <= MaxUsers /\ m.user <= Len(tfUsers') /\ tfStarted' \in 0..MaxTfLogins
  BY <1>6, <1>9, <1>15 DEF TfInv, TfTyped
<1> QED BY <1>4, <1>9, <1>11, <1>12, <1>13, <1>15, <1>16, <1>18, <1>19, TfMoves

LEMMA CreateUserStep ==
    ASSUME TfInv, NEW w \in TfLogins, CreateUser(w)
    PROVE  TfInv'
<1>1. tfLogin[w].pc = "create" /\ TfLoginFits(tfLogin[w])
  BY DEF CreateUser, TfInv, TfTyped, TfLoginsFit
<1>2. UNCHANGED <<tfMapping, tfEvents, tfChanges, tfStarted, tfShown>> /\ tfEvents \in Seq(TfEvent)
  BY DEF CreateUser, consoleVars, TfInv, TfTyped
<1>3. ASSUME NEW pc \in {"audit", "failed"}, tfLinks[Key(tfLogin[w].c)] = 0, Len(tfUsers) < MaxUsers, UNCHANGED tfAnswers,
             tfUsers' = Append(tfUsers, [tenant |-> tfLogin[w].c.tenant, role |-> tfLogin[w].c.role]),
             tfLinks' = [tfLinks EXCEPT ![Key(tfLogin[w].c)] = Len(tfUsers) + 1],
             tfLogin' = [tfLogin EXCEPT ![w] =
                            WithUser(tfLogin[w], pc, Len(tfUsers) + 1, tfLogin[w].c.role, TRUE, FALSE)]
      PROVE  TfInv'
  <2>1. PICK l : l = tfLogin[w]
    OBVIOUS
  <2> QED BY <1>1, <1>2, <1>3, <2>1, TfInserts
<1>4. CASE tfAnswers' = tfAnswers /\ Goes(w, "refind") /\ UNCHANGED <<tfUsers, tfLinks>>
  <2>1. TenantExists(tfLogin[w].c.tenant) /\ RoleParses(tfLogin[w].c)
    BY <1>1 DEF TfLoginFits
  <2>2. tfLogin[w].pc \notin {"idle", "audit", "failed"}
    BY <1>1
  <2> QED BY <1>2, <1>4, <2>1, <2>2, TfPasses
<1>5. CASE TfAnswer(w, "FED_JIT_PROVISIONING_FAILED") /\ UNCHANGED <<tfUsers, tfLinks>>
  <2>1. "FED_JIT_PROVISIONING_FAILED" \in TfCodes
    BY DEF TfCodes
  <2> QED BY <1>1, <1>2, <1>5, <2>1, TfAnswersKeep
<1> QED BY <1>3, <1>4, <1>5 DEF CreateUser

LEMMA UpdateUserRoleStep ==
    ASSUME TfInv, NEW w \in TfLogins, UpdateUserRole(w)
    PROVE  TfInv'
<1>1. PICK l : l = tfLogin[w]
  OBVIOUS
<1>2. l \in TfLoginState /\ TfLoginFits(l) /\ l.pc = "update" /\ l.new \in BOOLEAN /\ l.c.role \in TfRoles
  BY <1>1, TfLoginFields DEF UpdateUserRole, TfInv, TfTyped, TfLoginsFit, TfLoginFits, RoleParses
<1>3. PICK u : u = l.user
  OBVIOUS
<1>4. u \in 1..Len(tfUsers) /\ TfBound(l.c, u) /\ l.new = FALSE
  BY <1>2, <1>3 DEF TfLoginFits
<1>5. PICK pc \in {"audit", "failed"} : /\ Goes(w, pc)
                                       /\ \/ tfUsers' = [tfUsers EXCEPT ![u] = [tfUsers[u] EXCEPT !.role = l.c.role]]
                                          \/ UNCHANGED tfUsers
  BY <1>1, <1>3 DEF UpdateUserRole
<1>6. UNCHANGED <<tfMapping, tfLinks, tfEvents, tfAnswers, tfChanges, tfStarted, tfShown>>
  BY DEF UpdateUserRole, consoleVars
<1>7. PICK m : m = [l EXCEPT !.pc = pc]
  OBVIOUS
<1>8. m \in TfLoginState /\ m.pc = pc /\ m.c = l.c /\ m.user = u /\ m.new = FALSE /\ m.n = l.n
  <2>1. pc \in {"tenant", "find", "create", "refind", "failed", "audit"}
    OBVIOUS
  <2> QED BY <1>2, <1>3, <1>4, <1>7, <2>1, TfGoes
<1>9. tfLogin' = [tfLogin EXCEPT ![w] = m]
  BY <1>1, <1>5, <1>7 DEF Goes
<1>10. TfLoginFits(m)
  BY <1>2, <1>3, <1>4, <1>8 DEF TfLoginFits
<1>11. CASE UNCHANGED tfUsers
  BY <1>6, <1>8, <1>9, <1>10, <1>11, TfGoesOn
<1>12. CASE tfUsers' = [tfUsers EXCEPT ![u] = [tfUsers[u] EXCEPT !.role = l.c.role]]
  <2>1. PICK x : x = [tfUsers[u] EXCEPT !.role = l.c.role]
    OBVIOUS
  <2>2. tfUsers \in Seq(TfUser) /\ Len(tfUsers) \in Nat /\ Len(tfUsers) <= MaxUsers /\ tfUsers[u] \in TfUser
    BY <1>4 DEF TfInv, TfTyped
  <2>3. x \in TfUser /\ x.tenant = tfUsers[u].tenant /\ tfUsers' = [tfUsers EXCEPT ![u] = x]
    <3>1. ASSUME NEW y \in TfUser, NEW r \in TfRoles
          PROVE  [y EXCEPT !.role = r] \in TfUser /\ [y EXCEPT !.role = r].tenant = y.tenant
      BY DEF TfUser
    <3> QED BY <1>2, <1>12, <2>1, <2>2, <3>1
  <2>4. tfUsers' \in Seq(TfUser) /\ Len(tfUsers') = Len(tfUsers) /\ \A v \in 1..Len(tfUsers) : tfUsers'[v].tenant = tfUsers[v].tenant
    <3>1. tfUsers' \in Seq(TfUser) /\ Len(tfUsers') = Len(tfUsers)
      BY <1>4, <2>2, <2>3
    <3>2. \A v \in 1..Len(tfUsers) : tfUsers'[v] = IF v = u THEN x ELSE tfUsers[v]
      BY <1>4, <2>2, <2>3
    <3> QED BY <2>3, <3>1, <3>2
  <2>5. TfGrows
    BY <1>6, <2>2, <2>4 DEF TfGrows
  <2>6. TfLinked' /\ tfLinks' \in [TfKeys -> 0..Len(tfUsers')]
    <3>1. Len(tfUsers') = Len(tfUsers) /\ tfLinks' = tfLinks
      BY <1>6, <2>4
    <3> QED BY <3>1 DEF TfInv, TfTyped, TfLinked
  <2>7. TfLoginFits(m)'
    BY <1>10, <2>5, TfKept
  <2>8. tfStarted' \in 0..MaxTfLogins /\ Len(tfUsers') <= MaxUsers
    BY <1>6, <2>2, <2>4 DEF TfInv, TfTyped
  <2> QED BY <1>6, <1>8, <1>9, <2>4, <2>5, <2>6, <2>7, <2>8, TfMoves
<1> QED BY <1>5, <1>11, <1>12

LEMMA ProvisioningFailsStep ==
    ASSUME TfInv, NEW w \in TfLogins, ProvisioningFails(w)
    PROVE  TfInv'
<1>1. tfLogin[w].pc = "failed" /\ TfAnswer(w, "FED_JIT_PROVISIONING_FAILED")
      /\ UNCHANGED <<tfMapping, tfUsers, tfLinks, tfEvents, tfChanges, tfStarted, tfShown>>
  BY DEF ProvisioningFails, TablesUnchanged, consoleVars
<1>2. "FED_JIT_PROVISIONING_FAILED" \in TfCodes /\ tfEvents' \in Seq(TfEvent)
  BY <1>1 DEF TfCodes, TfInv, TfTyped
<1> QED BY <1>1, <1>2, TfAnswersKeep

\* An event that is written, or lost.
LEMMA TfWrites ==
    ASSUME TfInv, NEW e \in TfEvent, SafeWriteAuditEvent(e)
    PROVE  tfEvents' \in Seq(TfEvent)
<1>1. tfEvents \in Seq(TfEvent)
  BY DEF TfInv, TfTyped
<1>2. Append(tfEvents, e) \in Seq(TfEvent)
  BY <1>1
<1> QED BY <1>1, <1>2 DEF SafeWriteAuditEvent

LEMMA AuditLoginStep ==
    ASSUME TfInv, NEW w \in TfLogins, AuditLogin(w)
    PROVE  TfInv'
<1>1. PICK l : l = tfLogin[w]
  OBVIOUS
<1>2. l \in TfLoginState /\ TfLoginFits(l) /\ l.pc = "audit"
  BY <1>1 DEF AuditLogin, TfInv, TfTyped, TfLoginsFit
<1>3. UNCHANGED <<tfUsers, tfLinks, tfMapping, tfChanges, tfStarted, tfShown>> /\ TfAnswer(w, "OK")
  BY DEF AuditLogin, consoleVars
<1>4. l.user \in 1..MaxUsers /\ l.c.role \in TfRoles /\ l.n \in 1..MaxTfLogins
  <2>1. l.user \in 1..Len(tfUsers) /\ l.n \in 1..MaxTfLogins /\ RoleParses(l.c)
    BY <1>2 DEF TfLoginFits
  <2>2. Len(tfUsers) \in Nat /\ Len(tfUsers) <= MaxUsers
    BY DEF TfInv, TfTyped
  <2> QED BY <2>1, <2>2, TfBounds DEF RoleParses
<1> DEFINE updated == ~l.new /\ l.seen # l.c.role
           type == CASE l.new -> "login.new_user"
                     [] ~l.new /\ updated /\ ~l.raced -> "login.role_updated"
                     [] OTHER -> "login.existing_user"
<1>5. type \in {"login.new_user", "login.existing_user", "login.role_updated", "rebind_rejected", "logout"} /\ updated \in BOOLEAN
  OBVIOUS
<1>6. LoginEvent(l) = [type |-> type, user |-> l.user, role |-> l.c.role, roleUpdated |-> updated, login |-> l.n]
  BY DEF LoginEvent
<1> HIDE DEF type, updated
<1>7. LoginEvent(l) \in TfEvent
  BY <1>4, <1>5, <1>6 DEF TfEvent
<1>8. tfEvents' \in Seq(TfEvent)
  BY <1>1, <1>7, TfWrites DEF AuditLogin
<1>9. "OK" \in TfCodes
  BY DEF TfCodes
<1> QED BY <1>1, <1>2, <1>3, <1>8, <1>9, TfAnswersKeep

LEMMA RejectRebindStep ==
    ASSUME TfInv, NEW w \in TfLogins, RejectRebind(w)
    PROVE  TfInv'
<1>1. PICK l : l = tfLogin[w]
  OBVIOUS
<1>2. l \in TfLoginState /\ TfLoginFits(l) /\ l.pc = "reject"
  BY <1>1 DEF RejectRebind, TfInv, TfTyped, TfLoginsFit
<1>3. UNCHANGED <<tfUsers, tfLinks, tfMapping, tfChanges, tfStarted, tfShown>> /\ TfAnswer(w, "FED_IDENTITY_REBIND_REJECTED")
  BY DEF RejectRebind, consoleVars
<1>4. l.user \in 1..MaxUsers /\ l.c.role \in TfRoles /\ l.n \in 1..MaxTfLogins
  <2>1. l.user \in 1..Len(tfUsers) /\ l.n \in 1..MaxTfLogins /\ RoleParses(l.c)
    BY <1>2 DEF TfLoginFits
  <2>2. Len(tfUsers) \in Nat /\ Len(tfUsers) <= MaxUsers
    BY DEF TfInv, TfTyped
  <2> QED BY <2>1, <2>2, TfBounds DEF RoleParses
<1>5. PICK e : e = [type |-> "rebind_rejected", user |-> l.user, role |-> l.c.role, roleUpdated |-> FALSE, login |-> l.n]
  OBVIOUS
<1>6. e \in TfEvent
  BY <1>4, <1>5 DEF TfEvent
<1>7. tfEvents' \in Seq(TfEvent)
  <2>1. CASE tfEvents' = tfEvents
    BY <2>1 DEF TfInv, TfTyped
  <2>2. CASE SafeWriteAuditEvent(e)
    BY <1>6, <2>2, TfWrites
  <2> QED BY <1>1, <1>5, <2>1, <2>2 DEF RejectRebind
<1>8. "FED_IDENTITY_REBIND_REJECTED" \in TfCodes
  BY DEF TfCodes
<1> QED BY <1>1, <1>2, <1>3, <1>7, <1>8, TfAnswersKeep

\* Users, links, logins and answers are left alone.
LEMMA TfRestStays ==
    ASSUME TfInv, UNCHANGED <<tfUsers, tfLinks, tfLogin, tfAnswers, tfStarted>>, tfMapping' \in [TfIdps -> TfMapping],
           tfEvents' \in Seq(TfEvent), tfChanges' \in 0..MaxMappings, TenantsSeeTheirMappings'
    PROVE  TfInv'
<1>1. TfTyped'
  BY DEF TfInv, TfTyped
<1>2. TfLoginsFit' /\ TfAnswersFit'
  <2>1. TfGrows
    BY TfStays
  <2>2. ASSUME NEW w \in TfLogins, NEW l, tfLogin[w] = l PROVE TfLoginFits(l)'
    BY <2>1, <2>2, TfKept DEF TfInv, TfLoginsFit
  <2>3. ASSUME NEW k \in DOMAIN tfAnswers, NEW a, tfAnswers[k] = a PROVE TfAnswerFits(a)'
    BY <2>1, <2>3, TfKept DEF TfInv, TfAnswersFit
  <2> QED BY <2>2, <2>3 DEF TfLoginsFit, TfAnswersFit
<1>3. TfAllApart' /\ TfNumbered' /\ TfLinked'
  BY DEF TfInv, TfAllApart, TfApart, TfNumbered, TfLinked
<1> QED BY <1>1, <1>2, <1>3 DEF TfInv

LEMMA LogoutStep ==
    ASSUME TfInv, NEW k \in DOMAIN tfAnswers, Logout(k)
    PROVE  TfInv'
<1>1. PICK a : a = tfAnswers[k]
  OBVIOUS
<1>2. a \in TfAnswerRow /\ a.code = "OK" /\ TfAnswerFits(a)
  BY <1>1 DEF Logout, TfInv, TfTyped, TfAnswersFit
<1>3. a.user \in 1..MaxUsers /\ a.c.role \in TfRoles /\ a.login \in 1..MaxTfLogins
  <2>1. a.user \in 1..Len(tfUsers) /\ a.login \in 1..MaxTfLogins /\ RoleParses(a.c)
    BY <1>2 DEF TfAnswerFits, TfAnswerRow, TfBound
  <2>2. Len(tfUsers) \in Nat /\ Len(tfUsers) <= MaxUsers
    BY DEF TfInv, TfTyped
  <2> QED BY <2>1, <2>2, TfBounds DEF RoleParses
<1>4. PICK e : e = [type |-> "logout", user |-> a.user, role |-> a.c.role, roleUpdated |-> FALSE, login |-> a.login]
  OBVIOUS
<1>5. e \in TfEvent
  BY <1>3, <1>4 DEF TfEvent
<1>6. tfEvents' \in Seq(TfEvent)
  BY <1>1, <1>4, <1>5, TfWrites DEF Logout
<1>7. UNCHANGED <<tfMapping, tfUsers, tfLinks, tfLogin, tfAnswers, tfChanges, tfStarted, tfShown>>
  BY DEF Logout, consoleVars
<1> QED BY <1>6, <1>7, TfRestStays DEF TfInv, TfTyped, TenantsSeeTheirMappings

LEMMA MappingStep ==
    ASSUME TfInv, MappingNext
    PROVE  TfInv'
<1>1. UNCHANGED <<tfUsers, tfLinks, tfEvents, tfLogin, tfAnswers, tfStarted, tfShown>>
  BY DEF MappingNext, CreateMapping, UpdateMapping, DeleteMapping
<1>2. tfMapping \in [TfIdps -> TfMapping] /\ tfChanges \in 0..MaxMappings
  BY DEF TfInv, TfTyped
<1>3. tfMapping' \in [TfIdps -> TfMapping] /\ tfChanges' \in 0..MaxMappings
  <2>1. ASSUME NEW role, NEW i \in TfIdps, NEW type \in {"saml", "oidc"}, NEW a \in TfAllowed, CreateMapping(role, i, type, a)
        PROVE  tfMapping' \in [TfIdps -> TfMapping] /\ tfChanges' \in 0..MaxMappings
    <3>1. tfChanges + 1 \in 0..MaxMappings
      BY <1>2, <2>1, TfBounds DEF CreateMapping
    <3>2. [id |-> tfChanges + 1, type |-> type, allowed |-> a] \in TfMapping
      BY <3>1 DEF TfMapping
    <3> QED BY <1>2, <2>1, <3>1, <3>2 DEF CreateMapping
  <2>2. ASSUME NEW role, NEW i \in TfIdps, NEW a \in TfAllowed, UpdateMapping(role, i, a)
        PROVE  tfMapping' \in [TfIdps -> TfMapping] /\ tfChanges' \in 0..MaxMappings
    <3>1. tfChanges + 1 \in 0..MaxMappings
      BY <1>2, <2>2, TfBounds DEF UpdateMapping
    <3>2. [tfMapping[i] EXCEPT !.allowed = a] \in TfMapping
      BY <1>2 DEF TfMapping
    <3> QED BY <1>2, <2>2, <3>1, <3>2 DEF UpdateMapping
  <2>3. ASSUME NEW role, NEW i \in TfIdps, DeleteMapping(role, i)
        PROVE  tfMapping' \in [TfIdps -> TfMapping] /\ tfChanges' \in 0..MaxMappings
    <3>1. NoMapping \in TfMapping
      BY TfBounds DEF NoMapping, TfMapping
    <3> QED BY <1>2, <2>3, <3>1 DEF DeleteMapping
  <2> QED BY <2>1, <2>2, <2>3 DEF MappingNext
<1>4. TenantsSeeTheirMappings' /\ tfEvents' \in Seq(TfEvent)
  BY <1>1 DEF TfInv, TfTyped, TenantsSeeTheirMappings
<1> QED BY <1>1, <1>3, <1>4, TfRestStays

\* What a tenant-admin is shown admits its tenant: the filter it must name, or the check of the row.
LEMMA ReadStep ==
    ASSUME TfInv, ReadNext
    PROVE  TfInv'
<1>1. UNCHANGED <<tfMapping, tfUsers, tfLinks, tfEvents, tfLogin, tfAnswers, tfChanges, tfStarted>>
  BY DEF ReadNext, GetMapping, ListMappings, TfShow
<1>2. ASSUME NEW role, NEW caller, NEW rows, TfShow(role, caller, rows),
             role = "tenant-admin" => \A m \in rows : caller \in m.allowed
      PROVE  TenantsSeeTheirMappings'
  <2>1. CASE role = "tenant-admin"
    <3>1. tfShown' = {[tenant |-> caller, allowed |-> m.allowed] : m \in rows}
      BY <1>2, <2>1 DEF TfShow
    <3> QED BY <1>2, <2>1, <3>1 DEF TenantsSeeTheirMappings
  <2>2. CASE role # "tenant-admin"
    BY <1>2, <2>2 DEF TfShow, TfInv, TenantsSeeTheirMappings
  <2> QED BY <2>1, <2>2
<1>3. ASSUME NEW role, NEW caller, NEW i \in TfIdps, GetMapping(role, caller, i) PROVE TenantsSeeTheirMappings'
  BY <1>2, <1>3 DEF GetMapping
<1>4. ASSUME NEW role, NEW caller \in TfTenants \cup {"global"}, NEW f, ListMappings(role, caller, f)
      PROVE  TenantsSeeTheirMappings'
  <2> DEFINE rows == {tfMapping[i] : i \in {j \in TfIdps : tfMapping[j].id # 0}}
             listed == {m \in rows : f = "none" \/ f \in m.allowed}
  <2>1. TfShow(role, caller, listed) /\ CallerConsistent(role, caller) /\ TenantFilter(role, caller, f)
    BY <1>4 DEF ListMappings
  <2>2. role = "tenant-admin" => f = caller /\ f # "none"
    BY <2>1, TfAssumption DEF CallerConsistent, TenantFilter
  <2>3. role = "tenant-admin" => \A m \in listed : caller \in m.allowed
    BY <2>2
  <2> QED BY <1>2, <2>1, <2>3
<1>5. TenantsSeeTheirMappings'
  BY <1>3, <1>4 DEF ReadNext
<1>6. tfMapping' \in [TfIdps -> TfMapping] /\ tfEvents' \in Seq(TfEvent) /\ tfChanges' \in 0..MaxMappings
  BY <1>1 DEF TfInv, TfTyped
<1> QED BY <1>1, <1>5, <1>6, TfRestStays

\* The invariant is inductive.
LEMMA TfStep == TfInv /\ [TfNext]_tfVars => TfInv'
<1> SUFFICES ASSUME TfInv, [TfNext]_tfVars PROVE TfInv'
  OBVIOUS
<1>1. CASE UNCHANGED tfVars
  <2>1. UNCHANGED <<tfMapping, tfUsers, tfLinks, tfEvents, tfLogin, tfAnswers, tfChanges, tfStarted, tfShown>>
    BY <1>1 DEF tfVars, consoleVars
  <2> QED BY <2>1, TfRestStays DEF TfInv, TfTyped, TenantsSeeTheirMappings
<1>2. CASE LoginNext
  BY <1>2, SdkResolveStep, RouteRefusesStep, CheckMappingStep, CheckTenantStep, FindUserStep, CreateUserStep,
     UpdateUserRoleStep, ProvisioningFailsStep, AuditLoginStep, RejectRebindStep, LogoutStep DEF LoginNext
<1> QED BY <1>1, <1>2, MappingStep, ReadStep DEF TfNext

LEMMA TfConcludes == TfInv => TfTypeOK /\ IdentitiesStayBound /\ TenantsSeeTheirMappings
<1> SUFFICES ASSUME TfInv PROVE TfTypeOK /\ IdentitiesStayBound
  BY DEF TfInv
<1>1. TfTypeOK
  BY DEF TfInv, TfTyped, TfTypeOK, TfKeys
<1>2. ASSUME NEW k \in DOMAIN tfAnswers, SucceededAs(k)
      PROVE  /\ tfAnswers[k].user # 0 /\ tfLinks[Key(tfAnswers[k].c)] = tfAnswers[k].user
             /\ tfUsers[tfAnswers[k].user].tenant = tfAnswers[k].c.tenant
  <2>1. TfBound(tfAnswers[k].c, tfAnswers[k].user)
    BY <1>2 DEF TfInv, TfAnswersFit, TfAnswerFits, SucceededAs
  <2> QED BY <2>1 DEF TfBound
<1>3. ASSUME NEW k \in DOMAIN tfAnswers, SucceededAs(k), NEW j \in DOMAIN tfAnswers, j # k, SucceededAs(j),
             tfAnswers[j].new, tfAnswers[k].new
      PROVE  Key(tfAnswers[j].c) # Key(tfAnswers[k].c)
  <2>1. tfAnswers[j].user # tfAnswers[k].user
    <3>1. \A i \in DOMAIN tfAnswers : tfAnswers[i] \in TfAnswerRow
      BY DEF TfInv, TfTyped
    <3>2. tfAnswers[j].new \in BOOLEAN /\ tfAnswers[k].new \in BOOLEAN
      BY <3>1 DEF TfAnswerRow
    <3>3. tfAnswers[j].new = TRUE /\ tfAnswers[k].new = TRUE
      BY <1>3, <3>2
    <3> QED BY <1>3, <3>3 DEF TfInv, TfAllApart, TfApart
  <2>2. tfLinks[Key(tfAnswers[j].c)] = tfAnswers[j].user /\ tfLinks[Key(tfAnswers[k].c)] = tfAnswers[k].user
    BY <1>2, <1>3
  <2> QED BY <2>1, <2>2
<1>4. ASSUME NEW u \in DOMAIN tfUsers PROVE Cardinality({x \in DOMAIN tfLinks : tfLinks[x] = u}) = 1
  <2>1. DOMAIN tfLinks = TfKeys /\ u \in 1..Len(tfUsers)
    BY DEF TfInv, TfTyped
  <2>2. PICK z \in TfKeys : \A y \in TfKeys : tfLinks[y] = u <=> y = z
    BY <2>1 DEF TfInv, TfLinked
  <2>3. {x \in DOMAIN tfLinks : tfLinks[x] = u} = {z}
    BY <2>1, <2>2
  <2> QED BY <2>3, FS_Singleton
<1>5. IdentitiesStayBound
  BY <1>2, <1>3, <1>4 DEF IdentitiesStayBound
<1> QED BY <1>1, <1>5

-----------------------------------------------------------------------------
(* Admin console: the trace of a change.  A write that has passed the audit*)
(* hook has its .pre event in its caller's log, one that the registry      *)
(* applied is among the changes, and a log only grows.                     *)

AcPlace == {"preCall", "registry", "postCall", "failed"}
AcRunning == [at : AcPlace, n : 1..MaxAcCalls, req : AdminRequest, found : BOOLEAN]

\* what is known of a request in flight
AcCallFits(k) ==
    k.at # "idle" =>
        /\ HandlerRefuses(k.req) = 0 /\ DefaultTenantResolver(k.req) \in AcAllowed
        /\ k.req.verb \in Writes /\ k.at # "preCall" =>
              Logged(DefaultTenantResolver(k.req), CreateAuditEvent(k.n, "pre", "success"))
        /\ k.req.verb \in Writes /\ k.at = "postCall" => Changed(k.n)

AcChangeFits(ch) ==
    /\ \/ ch.role = "admin"
       \/ ch.role = "tenant-admin" /\ ch.verb = "update" /\ ch.tenant = ch.by
    /\ ch.call \in Nat /\ ch.by \in AcAllowed /\ Logged(ch.by, CreateAuditEvent(ch.call, "pre", "success"))

AcReplyFits(a) ==
    /\ a.call \in Nat
    /\ a.status < 300 => /\ Changed(a.call) /\ a.tenant \in AcAllowed
                         /\ Logged(a.tenant, CreateAuditEvent(a.call, "post", "success"))

AcInv ==
    /\ AcTypeOK
    /\ \A c \in AcCalls : \A k : admin[c] = k => AcCallFits(k)
    /\ \A ch \in acChanges : AcChangeFits(ch)
    /\ \A a \in acReplies : AcReplyFits(a)

LEMMA AcCallShape ==
    /\ AdminCall = {NoCall} \cup AcRunning /\ NoCall.at = "idle"
    /\ \A k \in AcRunning : /\ k.at \in AcPlace /\ k.at # "idle" /\ k.n \in 1..MaxAcCalls /\ k.req \in AdminRequest
                            /\ k.found \in BOOLEAN
  BY DEF AdminCall, AcRunning, AcPlace, NoCall

LEMMA AcStart == AcInit => AcInv
<1> SUFFICES ASSUME AcInit PROVE AcInv
  OBVIOUS
<1>1. AcTypeOK
  BY AcCallShape, AcAssumption DEF AcInit, AcTypeOK
<1>2. \A c \in AcCalls : \A k : admin[c] = k => AcCallFits(k)
  BY AcCallShape DEF AcInit, AcCallFits
<1> QED BY <1>1, <1>2 DEF AcInit, AcInv

\* What was known stays known when logs and changes only grow.
LEMMA AcGrows ==
    ASSUME acChanges \subseteq acChanges',
           \A t \in AcAllowed : \A e \in TenantAuditEvent : Logged(t, e) => Logged(t, e)'
    PROVE  /\ \A k : k \in AdminCall /\ AcCallFits(k) => AcCallFits(k)'
           /\ \A ch : AcChangeFits(ch) => AcChangeFits(ch)'
           /\ \A a : AcReplyFits(a) => AcReplyFits(a)'
<1>1. \A n : Changed(n) => Changed(n)'
  BY DEF Changed
<1>2. \A n \in Nat, p \in {"pre", "post"}, o \in {"success", "error"} : CreateAuditEvent(n, p, o) \in TenantAuditEvent
  BY DEF CreateAuditEvent, TenantAuditEvent
<1>3. \A k : k \in AdminCall /\ k.at # "idle" => k.n \in Nat
  BY AcCallShape, AcAssumption
<1>4. \A t \in AcAllowed : \A n \in Nat, p \in {"pre", "post"}, o \in {"success", "error"} :
        Logged(t, CreateAuditEvent(n, p, o)) => Logged(t, CreateAuditEvent(n, p, o))'
  BY <1>2
<1>5. ASSUME NEW k, k \in AdminCall, AcCallFits(k) PROVE AcCallFits(k)'
  BY <1>1, <1>3, <1>4, <1>5 DEF AcCallFits
<1>6. ASSUME NEW ch, AcChangeFits(ch) PROVE AcChangeFits(ch)'
  BY <1>4, <1>6 DEF AcChangeFits
<1>7. ASSUME NEW a, AcReplyFits(a) PROVE AcReplyFits(a)'
  BY <1>1, <1>4, <1>7 DEF AcReplyFits
<1> QED BY <1>5, <1>6, <1>7

\* An event in the log of the caller's tenant.
LEMMA AcLogs ==
    ASSUME AcInv, NEW c \in AcCalls, NEW k \in AcRunning, admin[c] = k, NEW action \in {"pre", "post"},
           NEW outcome \in {"success", "error"}, AppendEvent(c, action, outcome)
    PROVE  /\ tenantAuditEvents' \in [AcAllowed -> Seq(TenantAuditEvent)]
           /\ \A t \in AcAllowed : \A e \in TenantAuditEvent : Logged(t, e) => Logged(t, e)'
           /\ Logged(DefaultTenantResolver(k.req), CreateAuditEvent(k.n, action, outcome))'
<1> DEFINE t == DefaultTenantResolver(k.req)
           x == CreateAuditEvent(k.n, action, outcome)
           s == tenantAuditEvents[t]
<1>1. t \in AcAllowed
  BY AcCallShape DEF AcInv, AcCallFits
<1>2. x \in TenantAuditEvent
  BY AcCallShape, AcAssumption DEF CreateAuditEvent, TenantAuditEvent
<1>3. tenantAuditEvents \in [AcAllowed -> Seq(TenantAuditEvent)]
  BY DEF AcInv, AcTypeOK
<1>4. tenantAuditEvents' = [tenantAuditEvents EXCEPT ![t] = Append(s, x)]
  BY DEF AppendEvent, Context
<1> HIDE DEF t, x
<1>5. s \in Seq(TenantAuditEvent) /\ Append(s, x) \in Seq(TenantAuditEvent)
  BY <1>1, <1>2, <1>3
<1>6. \A u \in AcAllowed : tenantAuditEvents'[u] = IF u = t THEN Append(s, x) ELSE tenantAuditEvents[u]
  BY <1>3, <1>4
<1>7. /\ Len(s) + 1 \in DOMAIN Append(s, x) /\ Append(s, x)[Len(s) + 1] = x
      /\ \A i \in DOMAIN s : i \in DOMAIN Append(s, x) /\ Append(s, x)[i] = s[i]
  BY <1>2, <1>5
<1>8. ASSUME NEW u \in AcAllowed, NEW e \in TenantAuditEvent, Logged(u, e) PROVE Logged(u, e)'
  BY <1>6, <1>7, <1>8 DEF Logged
<1>9. \E i \in DOMAIN tenantAuditEvents'[t] : tenantAuditEvents'[t][i] = x
  BY <1>1, <1>6, <1>7
<1>10. tenantAuditEvents' \in [AcAllowed -> Seq(TenantAuditEvent)]
  BY <1>3, <1>4, <1>5
<1> QED BY <1>8, <1>9, <1>10 DEF Logged, t, x

\* What a step leaves to be shown: the request's new place, and what is new among the changes and
\* the replies.
LEMMA AcMoves ==
    ASSUME AcInv, NEW c \in AcCalls, NEW new \in AdminCall, admin' = [admin EXCEPT ![c] = new],
           tenantStore' \in [AcTenants -> Int], policyStore' \in [AcTenants \X AcPolicyIds -> Int],
           tenantAuditEvents' \in [AcAllowed -> Seq(TenantAuditEvent)], acAnswered' \in 0..MaxAcCalls,
           acChanges \subseteq acChanges',
           \A t \in AcAllowed : \A e \in TenantAuditEvent : Logged(t, e) => Logged(t, e)',
           AcCallFits(new)', \A ch \in acChanges' : ch \notin acChanges => AcChangeFits(ch)',
           \A a \in acReplies' : a \notin acReplies => AcReplyFits(a)'
    PROVE  AcInv'
<1>1. admin \in [AcCalls -> AdminCall]
  BY DEF AcInv, AcTypeOK
<1>2. admin' \in [AcCalls -> AdminCall] /\ \A d \in AcCalls : admin'[d] = IF d = c THEN new ELSE admin[d]
  BY <1>1
<1>3. ASSUME NEW d \in AcCalls, NEW k, admin'[d] = k PROVE AcCallFits(k)'
  BY <1>1, <1>2, <1>3, AcGrows DEF AcInv
<1>4. ASSUME NEW ch \in acChanges' PROVE AcChangeFits(ch)'
  BY AcGrows DEF AcInv
<1>5. ASSUME NEW a \in acReplies' PROVE AcReplyFits(a)'
  BY AcGrows DEF AcInv
<1>6. AcTypeOK'
  BY <1>2 DEF AcTypeOK
<1> QED BY <1>3, <1>4, <1>5, <1>6 DEF AcInv

LEMMA ReceiveAdminStep ==
    ASSUME AcInv, NEW c \in AcCalls, NEW r \in AcRequests, ReceiveAdmin(c, r)
    PROVE  AcInv'
<1> DEFINE new == [at |-> IF r.verb \in Writes THEN "preCall" ELSE "registry", n |-> acAnswered + 1, req |-> r,
                   found |-> FALSE]
<1>1. /\ acAnswered' = acAnswered + 1 /\ acAnswered < MaxAcCalls /\ acAnswered \in 0..MaxAcCalls
      /\ UNCHANGED <<tenantStore, policyStore, tenantAuditEvents, acChanges, acReplies>>
  BY DEF ReceiveAdmin, AcInv, AcTypeOK
<1>2. acAnswered' \in 0..MaxAcCalls /\ acAnswered + 1 \in 1..MaxAcCalls
  BY <1>1, AcAssumption
<1>3. \A t \in AcAllowed : \A e \in TenantAuditEvent : Logged(t, e) => Logged(t, e)'
  BY <1>1 DEF Logged
<1>4. CASE UNCHANGED admin
  <2>1. admin' = [admin EXCEPT ![c] = admin[c]] /\ admin[c] \in AdminCall
    BY <1>4 DEF AcInv, AcTypeOK
  <2>2. PICK k : k = admin[c]
    OBVIOUS
  <2>3. AcCallFits(k)'
    BY <1>1, <1>3, <2>1, <2>2, AcGrows DEF AcInv
  <2> QED BY <1>1, <1>2, <1>3, <2>1, <2>2, <2>3, AcMoves DEF AcInv, AcTypeOK
<1>5. CASE admin' # admin
  <2>1. admin' = [admin EXCEPT ![c] = new] /\ HandlerRefuses(r) = 0 /\ TenantContextMiddleware(r) = 0
    BY <1>5 DEF ReceiveAdmin
  <2>2. DefaultTenantResolver(r) \in AcAllowed
    BY <2>1 DEF TenantContextMiddleware
  <2>3. PICK k : k = new
    OBVIOUS
  <2>4. k \in AcRunning /\ k.req = r /\ (r.verb \in Writes => k.at = "preCall") /\ k.at # "postCall"
    <3> DEFINE w == IF r.verb \in Writes THEN "preCall" ELSE "registry"
    <3>1. w \in AcPlace /\ (r.verb \in Writes => w = "preCall") /\ w # "postCall"
      BY DEF AcPlace
    <3>2. k = [at |-> w, n |-> acAnswered + 1, req |-> r, found |-> FALSE] /\ r \in AdminRequest
      BY <2>3, AcAssumption
    <3> HIDE DEF w
    <3>3. k \in AcRunning /\ k.req = r /\ k.at = w
      BY <1>2, <3>1, <3>2 DEF AcRunning
    <3> QED BY <3>1, <3>3
  <2>5. k \in AdminCall /\ AcCallFits(k)'
    BY <2>1, <2>2, <2>4, AcCallShape DEF AcCallFits
  <2> HIDE DEF new
  <2> QED BY <1>1, <1>2, <1>3, <2>1, <2>3, <2>5, AcMoves DEF AcInv, AcTypeOK
<1> QED BY <1>4, <1>5

\* A reply ends the request; only one below 300 promises something.
LEMMA AcReplies ==
    ASSUME NEW c \in AcCalls, NEW k \in AcRunning, admin[c] = k, NEW status \in Nat, ReplyAdmin(c, status),
           status < 300 /\ k.req.verb \in Writes =>
               /\ Changed(k.n)' /\ DefaultTenantResolver(k.req) \in AcAllowed
               /\ Logged(DefaultTenantResolver(k.req), CreateAuditEvent(k.n, "post", "success"))'
    PROVE  \A a \in acReplies' : a \notin acReplies => AcReplyFits(a)'
<1> DEFINE x == [call |-> k.n, status |-> status, tenant |-> DefaultTenantResolver(k.req)]
<1>1. \A a \in acReplies' : a \notin acReplies => a = x /\ k.req.verb \in Writes
  BY DEF ReplyAdmin, Context
<1>2. x.call = k.n /\ x.status = status /\ x.tenant = DefaultTenantResolver(k.req) /\ k.n \in Nat
  BY AcCallShape, AcAssumption
<1> HIDE DEF x
<1>3. PICK y : y = x
  OBVIOUS
<1>4. k.req.verb \in Writes => AcReplyFits(y)'
  BY <1>2, <1>3 DEF AcReplyFits
<1> QED BY <1>1, <1>3, <1>4

\* Nothing is logged, or an event is.
LEMMA AcLogStays ==
    ASSUME AcInv, UNCHANGED tenantAuditEvents
    PROVE  /\ tenantAuditEvents' \in [AcAllowed -> Seq(TenantAuditEvent)]
           /\ \A t \in AcAllowed : \A e \in TenantAuditEvent : Logged(t, e) => Logged(t, e)'
  BY DEF AcInv, AcTypeOK, Logged

\* A request that moves on is a request.
LEMMA AcStands ==
    ASSUME NEW c \in AcCalls, NEW k \in AcRunning, admin[c] = k, NEW at \in AcPlace, NEW found \in BOOLEAN
    PROVE  \E new \in AcRunning : /\ new = Stands(c, at, found) /\ new.at = at /\ new.n = k.n /\ new.req = k.req
                                  /\ new.found = found
<1> DEFINE new == [at |-> at, n |-> k.n, req |-> k.req, found |-> found]
<1>1. k.n \in 1..MaxAcCalls /\ k.req \in AdminRequest
  BY AcCallShape
<1>2. new \in AcRunning /\ new.at = at /\ new.n = k.n /\ new.req = k.req /\ new.found = found
  BY <1>1 DEF AcRunning
<1>3. Stands(c, at, found) = new
  BY DEF Stands
<1> QED BY <1>2, <1>3

LEMMA PreCallStep ==
    ASSUME AcInv, NEW c \in AcCalls, PreCall(c)
    PROVE  AcInv'
<1>1. PICK k : k = admin[c]
  OBVIOUS
<1>2. k \in AcRunning /\ k.at = "preCall" /\ k \in AdminCall
  BY <1>1, AcCallShape DEF PreCall, AcInv, AcTypeOK
<1>3. UNCHANGED <<tenantStore, policyStore, acAnswered, acChanges>>
  BY DEF PreCall
<1>4. AcCallFits(k)
  BY <1>1 DEF AcInv
<1>5. CASE AppendEvent(c, "pre", "success") /\ admin' = [admin EXCEPT ![c] = Stands(c, "registry", FALSE)] /\ UNCHANGED acReplies
  <2>1. PICK new \in AcRunning : new = Stands(c, "registry", FALSE) /\ new.at = "registry" /\ new.n = k.n /\ new.req = k.req
    <3> DEFINE z == [at |-> "registry", n |-> k.n, req |-> k.req, found |-> FALSE]
    <3>1. k.n \in 1..MaxAcCalls /\ k.req \in AdminRequest
      BY <1>2, AcCallShape
    <3>2. z \in AcRunning /\ z.at = "registry" /\ z.n = k.n /\ z.req = k.req
      BY <3>1 DEF AcRunning, AcPlace
    <3>3. Stands(c, "registry", FALSE) = z
      BY <1>1 DEF Stands
    <3> QED BY <3>2, <3>3
  <2>2. /\ tenantAuditEvents' \in [AcAllowed -> Seq(TenantAuditEvent)]
        /\ \A t \in AcAllowed : \A e \in TenantAuditEvent : Logged(t, e) => Logged(t, e)'
        /\ Logged(DefaultTenantResolver(k.req), CreateAuditEvent(k.n, "pre", "success"))'
    BY <1>1, <1>2, <1>5, AcLogs
  <2>3. AcCallFits(new)' /\ new \in AdminCall
    BY <1>2, <1>4, <2>1, <2>2, AcCallShape DEF AcCallFits
  <2> QED BY <1>3, <1>5, <2>1, <2>2, <2>3, AcMoves DEF AcInv, AcTypeOK
<1>6. CASE ReplyAdmin(c, 500) /\ UNCHANGED tenantAuditEvents
  <2>1. \A a \in acReplies' : a \notin acReplies => AcReplyFits(a)'
    BY <1>1, <1>2, <1>6, AcReplies
  <2>2. admin' = [admin EXCEPT ![c] = NoCall] /\ NoCall \in AdminCall /\ AcCallFits(NoCall)'
    BY <1>6, AcCallShape DEF ReplyAdmin, AcCallFits
  <2> QED BY <1>3, <1>6, <2>1, <2>2, AcLogStays, AcMoves DEF AcInv, AcTypeOK
<1> QED BY <1>5, <1>6 DEF PreCall

\* The roles that may write, and where.
LEMMA AcWriters ==
    ASSUME NEW r \in AdminRequest, HandlerRefuses(r) = 0, r.verb \in Writes
    PROVE  /\ \/ r.role = "admin"
              \/ r.role = "tenant-admin" /\ r.verb = "update" /\ r.target = DefaultTenantResolver(r)
           /\ r.kind = "policy" => r.policy \in AcPolicyIds
<1>1. r.role \in AdminRoles /\ r.verb \in ROLE_PERMISSIONS[r.role] /\ PathIsValid(r) /\ (ChecksTarget(r) => OwnTenant(r))
  BY DEF HandlerRefuses, ParseAdminRole, HasPermission
<1>2. ChecksTarget(r) /\ (r.verb = "update" \/ r.verb = "delete")
  BY DEF ChecksTarget, Writes
<1>3. r.role = "tenant-admin" => r.verb = "update" /\ r.target = DefaultTenantResolver(r)
  BY <1>1, <1>2 DEF OwnTenant, ROLE_PERMISSIONS, AdminRoles
<1>4. r.role # "viewer"
  BY <1>1, <1>2 DEF ROLE_PERMISSIONS, AdminRoles
<1>5. r.kind = "policy" => r.policy \in AcPolicyIds
  BY <1>1, <1>2 DEF PathIsValid, AdminRequest
<1> QED BY <1>1, <1>3, <1>4, <1>5 DEF AdminRoles

LEMMA CallRegistryStep ==
    ASSUME AcInv, NEW c \in AcCalls, CallRegistry(c)
    PROVE  AcInv'
<1>1. PICK k : k = admin[c]
  OBVIOUS
<1>2. k \in AcRunning /\ k.at = "registry" /\ k.req \in AdminRequest /\ k.n \in Nat
  BY <1>1, AcCallShape, AcAssumption DEF CallRegistry, AcInv, AcTypeOK
<1> DEFINE r == k.req
           found == r.verb = "list" \/ TargetExists(r)
           applied == r.verb \in Writes /\ found
           at == IF r.verb \in Writes /\ ~found THEN "failed" ELSE "postCall"
           t == DefaultTenantResolver(r)
           ch == [call |-> k.n, tenant |-> r.target, by |-> t, role |-> r.role, verb |-> r.verb]
<1>3. /\ admin' = [admin EXCEPT ![c] = Stands(c, at, found)]
      /\ acChanges' = IF applied THEN acChanges \cup {ch} ELSE acChanges
      /\ UNCHANGED <<tenantAuditEvents, acAnswered, acReplies>>
  BY <1>1 DEF CallRegistry, Context
<1>4. AcCallFits(k)
  BY <1>1 DEF AcInv
<1>5. applied => r.target \in AcTenants /\ (r.kind = "tenant" \/ r.kind = "policy")
  BY <1>2 DEF TargetExists, Writes, AdminRequest
<1>6. tenantStore' \in [AcTenants -> Int]
  <2>1. tenantStore \in [AcTenants -> Int]
    BY DEF AcInv, AcTypeOK
  <2>2. CASE applied /\ r.kind = "tenant"
    <3>1. PICK x \in Int : tenantStore' = [tenantStore EXCEPT ![r.target] = x]
      BY <1>1, <1>5, <2>1, <2>2 DEF CallRegistry, UpdateTenant, RegistryUpdate, Gone
    <3> QED BY <1>5, <2>1, <2>2, <3>1
  <2>3. CASE ~ (applied /\ r.kind = "tenant")
    BY <1>1, <2>1, <2>3 DEF CallRegistry
  <2> QED BY <2>2, <2>3
<1>7. policyStore' \in [AcTenants \X AcPolicyIds -> Int]
  <2>1. policyStore \in [AcTenants \X AcPolicyIds -> Int]
    BY DEF AcInv, AcTypeOK
  <2>2. CASE applied /\ r.kind = "policy"
    <3>1. <<r.target, r.policy>> \in AcTenants \X AcPolicyIds
      BY <1>2, <1>4, <1>5, <2>2, AcWriters DEF AcCallFits
    <3>2. PICK x \in Int : policyStore' = [policyStore EXCEPT ![<<r.target, r.policy>>] = x]
      BY <1>1, <2>1, <2>2, <3>1 DEF CallRegistry, UpdatePolicy, RegistryUpdate, Gone
    <3> QED BY <2>1, <3>1, <3>2
  <2>3. CASE ~ (applied /\ r.kind = "policy")
    BY <1>1, <2>1, <2>3 DEF CallRegistry
  <2> QED BY <2>2, <2>3
<1>8. at \in AcPlace /\ at # "preCall" /\ found \in BOOLEAN /\ (r.verb \in Writes /\ at = "postCall" => applied)
  BY DEF AcPlace
<1>9. ch.call = k.n /\ ch.by = t /\ ch.role = r.role /\ ch.verb = r.verb /\ ch.tenant = r.target
  OBVIOUS
<1>10. PICK y : y = ch
  OBVIOUS
<1> HIDE DEF ch, at
<1>11. PICK new \in AcRunning : new = Stands(c, at, found) /\ new.at = at /\ new.n = k.n /\ new.req = k.req
  <2> DEFINE z == [at |-> at, n |-> k.n, req |-> k.req, found |-> found]
  <2>1. k.n \in 1..MaxAcCalls /\ k.req \in AdminRequest
    BY <1>2, AcCallShape
  <2> HIDE DEF found
  <2>2. z \in AcRunning /\ z.at = at /\ z.n = k.n /\ z.req = k.req
    BY <1>8, <2>1 DEF AcRunning
  <2>3. Stands(c, at, found) = z
    BY <1>1 DEF Stands
  <2> QED BY <2>2, <2>3
<1> HIDE DEF found
<1>12. \A u \in AcAllowed : \A e \in TenantAuditEvent : Logged(u, e) => Logged(u, e)'
  BY <1>3, AcLogStays
<1>13. t \in AcAllowed /\ (r.verb \in Writes => Logged(t, CreateAuditEvent(k.n, "pre", "success"))')
  <2>1. CreateAuditEvent(k.n, "pre", "success") \in TenantAuditEvent
    BY <1>2 DEF CreateAuditEvent, TenantAuditEvent
  <2> QED BY <1>2, <1>4, <1>12, <2>1 DEF AcCallFits
<1>14. applied => Changed(k.n)' /\ AcChangeFits(y)'
  <2> SUFFICES ASSUME applied PROVE Changed(k.n)' /\ AcChangeFits(y)'
    OBVIOUS
  <2>1. y \in acChanges' /\ y.call = k.n
    BY <1>3, <1>9, <1>10
  <2>2. Changed(k.n)'
    BY <2>1 DEF Changed
  <2>3. HandlerRefuses(r) = 0
    BY <1>2, <1>4 DEF AcCallFits
  <2>4. AcChangeFits(y)'
    BY <1>2, <1>9, <1>10, <1>13, <2>3, AcWriters DEF AcChangeFits
  <2> QED BY <2>2, <2>4
<1>15. AcCallFits(new)' /\ new \in AdminCall
  <2>1. HandlerRefuses(new.req) = 0
    BY <1>2, <1>4, <1>11 DEF AcCallFits
  <2> QED BY <1>8, <1>11, <1>13, <1>14, <2>1, AcCallShape DEF AcCallFits
<1>16. acChanges \subseteq acChanges' /\ \A x \in acChanges' : x \notin acChanges => AcChangeFits(x)'
  BY <1>3, <1>10, <1>14
<1> QED BY <1>3, <1>6, <1>7, <1>11, <1>12, <1>15, <1>16, AcLogStays, AcMoves DEF AcInv, AcTypeOK

LEMMA PostCallStep ==
    ASSUME AcInv, NEW c \in AcCalls, PostCall(c)
    PROVE  AcInv'
<1>1. PICK k : k = admin[c]
  OBVIOUS
<1>2. k \in AcRunning /\ k.at = "postCall" /\ k.found \in BOOLEAN
  BY <1>1, AcCallShape DEF PostCall, AcInv, AcTypeOK
<1>3. UNCHANGED <<tenantStore, policyStore, acAnswered, acChanges>>
  BY DEF PostCall
<1>4. AcCallFits(k) /\ k \in AdminCall
  BY <1>1 DEF AcInv, AcTypeOK
<1>5. CASE AppendEvent(c, "post", "success") /\ ReplyAdmin(c, SuccessStatus(c))
  <2>1. /\ tenantAuditEvents' \in [AcAllowed -> Seq(TenantAuditEvent)]
        /\ \A t \in AcAllowed : \A e \in TenantAuditEvent : Logged(t, e) => Logged(t, e)'
        /\ Logged(DefaultTenantResolver(k.req), CreateAuditEvent(k.n, "post", "success"))'
    BY <1>1, <1>2, <1>5, AcLogs
  <2>2. SuccessStatus(c) \in Nat
    BY DEF SuccessStatus
  <2>3. k.req.verb \in Writes => Changed(k.n)' /\ DefaultTenantResolver(k.req) \in AcAllowed
    BY <1>2, <1>3, <1>4 DEF AcCallFits, Changed
  <2>4. \A a \in acReplies' : a \notin acReplies => AcReplyFits(a)'
    BY <1>1, <1>2, <1>5, <2>1, <2>2, <2>3, AcReplies
  <2>5. admin' = [admin EXCEPT ![c] = NoCall] /\ NoCall \in AdminCall /\ AcCallFits(NoCall)'
    BY <1>5, AcCallShape DEF ReplyAdmin, AcCallFits
  <2> QED BY <1>3, <2>1, <2>4, <2>5, AcMoves DEF AcInv, AcTypeOK
<1>6. CASE admin' = [admin EXCEPT ![c] = Stands(c, "failed", admin[c].found)] /\ UNCHANGED <<tenantAuditEvents, acReplies>>
  <2>1. "failed" \in AcPlace
    BY DEF AcPlace
  <2>2. PICK new \in AcRunning : new = Stands(c, "failed", k.found) /\ new.at = "failed" /\ new.n = k.n /\ new.req = k.req
    BY <1>1, <1>2, <2>1, AcStands
  <2>3. AcCallFits(k)'
    BY <1>3, <1>4, <1>6, AcLogStays, AcGrows
  <2>4. AcCallFits(new)' /\ new \in AdminCall
    BY <1>2, <2>2, <2>3, AcCallShape DEF AcCallFits
  <2> QED BY <1>1, <1>3, <1>6, <2>2, <2>4, AcLogStays, AcMoves DEF AcInv, AcTypeOK
<1> QED BY <1>5, <1>6 DEF PostCall

LEMMA PostErrorStep ==
    ASSUME AcInv, NEW c \in AcCalls, PostError(c)
    PROVE  AcInv'
<1>1. PICK k : k = admin[c]
  OBVIOUS
<1>2. k \in AcRunning
  BY <1>1, AcCallShape DEF PostError, AcInv, AcTypeOK
<1>3. UNCHANGED <<tenantStore, policyStore, acAnswered, acChanges>>
  BY DEF PostError
<1>4. /\ tenantAuditEvents' \in [AcAllowed -> Seq(TenantAuditEvent)]
      /\ \A t \in AcAllowed : \A e \in TenantAuditEvent : Logged(t, e) => Logged(t, e)'
  <2>1. CASE AppendEvent(c, "post", "error")
    BY <1>1, <1>2, <2>1, AcLogs
  <2>2. CASE UNCHANGED tenantAuditEvents
    BY <2>2, AcLogStays
  <2> QED BY <2>1, <2>2 DEF PostError
<1>5. PICK status \in Nat : status >= 300 /\ ReplyAdmin(c, status)
  BY DEF PostError
<1>6. \A a \in acReplies' : a \notin acReplies => AcReplyFits(a)'
  <2>1. ~ (status < 300)
    BY <1>5
  <2> QED BY <1>1, <1>2, <1>5, <2>1, AcReplies
<1>7. admin' = [admin EXCEPT ![c] = NoCall] /\ NoCall \in AdminCall /\ AcCallFits(NoCall)'
  BY <1>5, AcCallShape DEF ReplyAdmin, AcCallFits
<1> QED BY <1>3, <1>4, <1>6, <1>7, AcMoves DEF AcInv, AcTypeOK

\* The invariant is inductive.
LEMMA AcStep == AcInv /\ [AcNext]_acVars => AcInv'
<1> SUFFICES ASSUME AcInv, [AcNext]_acVars PROVE AcInv'
  OBVIOUS
<1>1. CASE UNCHANGED acVars
  BY <1>1 DEF acVars, AcInv, AcTypeOK, AcCallFits, AcChangeFits, AcReplyFits, Logged, Changed
<1> QED BY <1>1, ReceiveAdminStep, PreCallStep, CallRegistryStep, PostCallStep, PostErrorStep DEF AcNext

LEMMA AcConcludes == AcInv => AcTypeOK /\ AdminChangesAreTraced
  BY DEF AcInv, AcChangeFits, AcReplyFits, AdminChangesAreTraced

-----------------------------------------------------------------------------
(* LedgerRoutes: the order of the rows and the sequence a query returns.   *)

LrTable == lrRows \in [LrIds -> LrRow \cup {NoLrRow}]

LEMMA LrBounds == MaxLrRows \in Nat /\ MaxLrTime \in Nat /\ PageLimit \in Nat \ {0} /\ AnchorTtl \in Nat \ {0}
BY LrAssumption

LEMMA StampsAre ==
    ASSUME LrTable, NEW i \in LrIds
    PROVE  lrRows[i].at \in 0..MaxLrTime /\ i \in 1..MaxLrRows
BY LrBounds DEF LrTable, LrRow, NoLrRow, LrIds

\* The stamps, with the ids, order the rows strictly.
LEMMA StampsOrder ==
    ASSUME LrTable
    PROVE  /\ \A i \in LrIds : ~StampedBefore(i, i)
           /\ \A i, j \in LrIds : i # j => StampedBefore(i, j) \/ StampedBefore(j, i)
           /\ \A i, j, k \in LrIds : StampedBefore(i, j) /\ StampedBefore(j, k) => StampedBefore(i, k)
<1>1. \A i \in LrIds : lrRows[i].at \in Nat /\ i \in Nat
  BY StampsAre, LrBounds
<1> DEFINE at(i) == lrRows[i].at
<1>2. \A i \in LrIds : at(i) \in Nat /\ i \in Nat
  BY <1>1
<1>3. \A i, j \in LrIds : StampedBefore(i, j) <=> at(i) < at(j) \/ (at(i) = at(j) /\ i < j)
  BY DEF StampedBefore
<1> HIDE DEF at
<1> QED BY <1>2, <1>3

\* Some row is the last by stamp.
LEMMA LastByStamp ==
    ASSUME LrTable, NEW S \in SUBSET LrIds, S # {}
    PROVE  \E i \in S : \A j \in S \ {i} : StampedBefore(j, i)
<1> DEFINE Stamps == {n \in 0..MaxLrTime : \E i \in S : lrRows[i].at = n}
<1>1. \A i \in S : lrRows[i].at \in Stamps
  BY StampsAre
<1>2. PICK n \in Stamps : \A m \in Stamps : m <= n
  <2>1. Stamps # {} /\ Stamps \in SUBSET (0..MaxLrTime)
    BY <1>1
  <2> HIDE DEF Stamps
  <2> QED BY <2>1, LrBounds, GreatestPosition, Zenon
<1> DEFINE Latest == {i \in S : lrRows[i].at = n}
<1>3. PICK i \in Latest : \A j \in Latest : j <= i
  <2>1. Latest # {}
    BY <1>2
  <2>2. \A k \in LrIds : k \in 0..MaxLrRows
    BY LrBounds DEF LrIds
  <2>3. Latest \in SUBSET (0..MaxLrRows)
    BY <2>2
  <2> HIDE DEF Latest
  <2> QED BY <2>1, <2>3, LrBounds, GreatestPosition, Zenon
<1>4. ASSUME NEW j \in S \ {i} PROVE StampedBefore(j, i)
  <2>1. lrRows[j].at <= n /\ lrRows[j].at \in Nat /\ j \in Nat /\ i \in Nat
    BY <1>1, <1>2, <1>3, StampsAre, LrBounds DEF LrIds
  <2>2. CASE lrRows[j].at = n
    <3>1. j <= i /\ lrRows[j].at = lrRows[i].at
      BY <2>2, <1>3
    <3> QED BY <2>1, <3>1 DEF StampedBefore
  <2>3. CASE lrRows[j].at # n
    BY <2>1, <2>3, <1>3 DEF StampedBefore
  <2> QED BY <2>2, <2>3
<1> QED BY <1>3, <1>4

InOrderOf(s, S) ==
    s \in [1..Cardinality(S) -> S] /\ \A i, j \in 1..Cardinality(S) : i < j => StampedBefore(s[i], s[j])

LEMMA RowsFinite == ASSUME NEW S \in SUBSET LrIds PROVE IsFiniteSet(S) /\ Cardinality(S) \in Nat
<1>1. IsFiniteSet(LrIds)
  BY LrBounds, FS_Interval DEF LrIds
<1> QED BY <1>1, FS_Subset, FS_CardinalityType

\* A set of rows without its last one, in order, and then the last one.
LEMMA SortedExtends ==
    ASSUME LrTable, NEW S \in SUBSET LrIds, NEW m \in S, \A j \in S \ {m} : StampedBefore(j, m),
           NEW t, InOrderOf(t, S \ {m})
    PROVE  \E s : InOrderOf(s, S)
<1> DEFINE U == S \ {m}
           n == Cardinality(U)
<1>1. n \in Nat /\ Cardinality(S) = n + 1
  <2>1. IsFiniteSet(S) /\ Cardinality(S) \in Nat
    BY RowsFinite
  <2>2. Cardinality(U) = Cardinality(S) - 1 /\ IsFiniteSet(U)
    BY <2>1, FS_RemoveElement
  <2>3. Cardinality(U) \in Nat
    BY <2>2, FS_CardinalityType
  <2> QED BY <2>1, <2>2, <2>3
<1>2. t \in [1..n -> U] /\ \A i, j \in 1..n : i < j => StampedBefore(t[i], t[j])
  BY DEF InOrderOf
<1>3. \A j \in U : StampedBefore(j, m)
  OBVIOUS
<1> HIDE DEF n, U
<1> DEFINE s == [i \in 1..(n + 1) |-> IF i = n + 1 THEN m ELSE t[i]]
<1>4. \A i \in 1..(n + 1) : i # n + 1 => i \in 1..n
  BY <1>1
<1>5. \A i \in 1..(n + 1) : s[i] \in S /\ s[i] = IF i = n + 1 THEN m ELSE t[i]
  BY <1>2, <1>4 DEF U
<1>6. s \in [1..(n + 1) -> S]
  BY <1>5
<1> HIDE DEF s
<1>7. ASSUME NEW i \in 1..(n + 1), NEW j \in 1..(n + 1), i < j PROVE StampedBefore(s[i], s[j])
  <2>1. i \in 1..n /\ s[i] = t[i] /\ t[i] \in U
    BY <1>1, <1>2, <1>5, <1>7
  <2>2. CASE j = n + 1
    BY <2>1, <2>2, <1>3, <1>5
  <2>3. CASE j # n + 1
    BY <2>1, <2>3, <1>2, <1>4, <1>5, <1>7
  <2> QED BY <2>2, <2>3
<1> QED BY <1>1, <1>6, <1>7 DEF InOrderOf

\* Every set of rows can be put in order: a smallest one that could not would lose its last row.
LEMMA SortedExists ==
    ASSUME LrTable, NEW S \in SUBSET LrIds
    PROVE  \E s : InOrderOf(s, S)
<1> SUFFICES ASSUME ~ \E s : InOrderOf(s, S) PROVE FALSE
  OBVIOUS
<1> DEFINE Sizes == {n \in Nat : \E U \in SUBSET LrIds : Cardinality(U) = n /\ ~ \E s : InOrderOf(s, U)}
<1>1. \A U \in SUBSET LrIds : (~ \E s : InOrderOf(s, U)) => Cardinality(U) \in Sizes
  BY RowsFinite
<1>2. PICK n \in Sizes : \A k \in Sizes : n <= k
  <2>1. Sizes # {} /\ Sizes \in SUBSET Nat
    BY <1>1
  <2> HIDE DEF Sizes
  <2> QED BY <2>1, LeastPosition, Zenon
<1>3. PICK U \in SUBSET LrIds : Cardinality(U) = n /\ ~ \E s : InOrderOf(s, U)
  BY <1>2
<1>4. IsFiniteSet(U) /\ n \in Nat
  BY <1>3, RowsFinite
<1>5. U # {}
  <2> SUFFICES ASSUME U = {} PROVE FALSE
    OBVIOUS
  <2>1. Cardinality(U) = 0
    BY FS_EmptySet
  <2>2. 1..0 = {}
    OBVIOUS
  <2>3. <<>> \in [1..0 -> U]
    BY <2>2
  <2>4. InOrderOf(<<>>, U)
    BY <2>1, <2>2, <2>3 DEF InOrderOf
  <2> QED BY <1>3, <2>4
<1>6. PICK m \in U : \A j \in U \ {m} : StampedBefore(j, m)
  BY <1>5, LastByStamp
<1>7. Cardinality(U \ {m}) = n - 1 /\ U \ {m} \in SUBSET LrIds
  BY <1>3, <1>4, FS_RemoveElement
<1>8. \E s : InOrderOf(s, U \ {m})
  <2> SUFFICES ASSUME ~ \E s : InOrderOf(s, U \ {m}) PROVE FALSE
    OBVIOUS
  <2>1. n - 1 \in Sizes
    BY <1>1, <1>7
  <2>2. n <= n - 1
    BY <1>2, <2>1
  <2> QED BY <1>4, <2>2
<1> QED BY <1>3, <1>6, <1>8, SortedExtends

\* What ORDER BY returns: every row of the set, once, in order.
LEMMA SortRowsIs ==
    ASSUME LrTable, NEW S \in SUBSET LrIds
    PROVE  /\ SortRows(S) \in Seq(S) /\ Len(SortRows(S)) \in Nat /\ DOMAIN SortRows(S) = 1..Len(SortRows(S))
           /\ \A i \in 1..Len(SortRows(S)) : SortRows(S)[i] \in S
           /\ \A i, j \in 1..Len(SortRows(S)) : i < j => StampedBefore(SortRows(S)[i], SortRows(S)[j])
           /\ \A x \in S : \E i \in 1..Len(SortRows(S)) : SortRows(S)[i] = x
<1> DEFINE n == Cardinality(S)
           s == SortRows(S)
<1>1. \E t \in [1..n -> S] : \A i, j \in 1..n : i < j => StampedBefore(t[i], t[j])
  BY SortedExists DEF InOrderOf
<1>2. s \in [1..n -> S] /\ \A i, j \in 1..n : i < j => StampedBefore(s[i], s[j])
  BY <1>1 DEF SortRows
<1>3. n \in Nat /\ IsFiniteSet(S)
  BY RowsFinite
<1> HIDE DEF s, n
<1>4. s \in Seq(S) /\ Len(s) = n /\ DOMAIN s = 1..n
  BY <1>2, <1>3
<1>5. \A i, j \in 1..n : i # j => s[i] # s[j]
  <2> SUFFICES ASSUME NEW i \in 1..n, NEW j \in 1..n, i # j PROVE s[i] # s[j]
    OBVIOUS
  <2>1. i < j \/ j < i
    BY <1>3
  <2>2. s[i] \in LrIds /\ s[j] \in LrIds
    BY <1>2
  <2>3. StampedBefore(s[i], s[j]) \/ StampedBefore(s[j], s[i])
    BY <1>2, <2>1
  <2> QED BY <2>2, <2>3, StampsOrder
<1>6. s \in Injection(1..n, S)
  BY <1>2, <1>5 DEF Injection, IsInjective
<1>7. Cardinality(1..n) = n
  <2>1. Cardinality(1..n) = IF 1 > n THEN 0 ELSE n - 1 + 1
    BY <1>3, FS_Interval
  <2> QED BY <1>3, <2>1
<1>8. s \in Surjection(1..n, S)
  BY <1>3, <1>6, <1>7, FS_Injection DEF n
<1>9. \A x \in S : \E i \in 1..n : s[i] = x
  BY <1>8 DEF Surjection
<1> QED BY <1>2, <1>3, <1>4, <1>9 DEF s
-----------------------------------------------------------------------------
(* The invariant of the routes.  A removed row has lost its contents, so   *)
(* what a reader has to know about it is kept with the reader: which rows  *)
(* its snapshot held, and which record named which.                        *)

IsRecord(i) == InTable(i) /\ lrRows[i].kind = "record"

\* Ids are given out once, a removed row is gone, and a row is open for a reservation alone.
LrPast ==
    /\ \A i \in LrIds : lrNext <= i => lrRows[i].state = "absent"
    /\ \A i \in lrRemoved : i < lrNext /\ lrRows[i].state = "absent"
    /\ \A i \in LrIds : lrRows[i].state = "open" => lrRows[i].kind = "reservation"
    /\ \A i \in LrIds : lrRows[i].state # "absent" /\ lrRows[i].owner # LrGovernor => lrRows[i].subject = NoSubject

\* A record names the row that was its agent's last: a removed one, or one at or after any earlier
\* record that is still there.
NamesAtLeast(j, i) ==
    LET p == lrRows[j].prev
    IN  /\ p # 0
        /\ p \in lrRemoved \/ ( /\ p \in LrIds /\ InTable(p) /\ p < j /\ lrRows[p].owner = lrRows[j].owner
                                /\ p = i \/ StampedBefore(i, p) )
LrLinked ==
    \A i, j \in LrIds : i < j /\ IsRecord(i) /\ IsRecord(j) /\ lrRows[i].owner = lrRows[j].owner => NamesAtLeast(j, i)

\* An anchor in the cache was put there AnchorTtl before it expires.
LrCached ==
    \A q \in LrQueries : /\ anchorCache[q].expires <= lrNow + AnchorTtl
                         /\ anchorCache[q].anchor = 0 => anchorCache[q] = NoAnchor

ReaderLane(k) ==
    /\ k.pc \in {"anchor", "head"} => CheckControlPlane(k.q)
    /\ k.pc = "checked" => k.q.target \in LrOwners /\ (CheckPrincipal(k.q) \/ CheckControlPlane(k.q))
    /\ k.pc \in {"idle", "anchor", "head"} =>
          k.got = <<>> /\ k.known = {} /\ k.cursor = NoCursor /\ k.inOrder = FALSE

\* The rows the snapshot held are of the target and match the query, or were removed.
ReaderSeen(k) ==
    /\ k.head < lrNext
    /\ \A i \in k.known :
          i <= k.head /\ (i \in lrRemoved \/ (InTable(i) /\ lrRows[i].owner = k.q.target /\ RowMatches(i, k.q)))

OwnRow(i, who) ==
    \/ lrRows[i].owner \in LrAgents /\ LrPrincipalOf[lrRows[i].owner] = who
    \/ /\ lrRows[i].owner = LrGovernor /\ who \in DOMAIN LrScopes
       /\ lrRows[i].subject.agent \in LrScopes[who].agents
       /\ LrScopes[who].anyPrincipal \/ lrRows[i].subject.principal \in LrScopes[who].principals
ReaderShows(k) ==
    \A n \in 1..Len(k.got) : k.got[n] \in lrRemoved \/ (InTable(k.got[n]) /\ OwnRow(k.got[n], k.q.requester))

\* What the pages hold so far is before the cursor, and what they miss is after it.
ReaderPages(k) ==
    k.q.route = "list" =>
        /\ \A m, n \in 1..Len(k.got) : m # n => k.got[m] # k.got[n]
        /\ \A n \in 1..Len(k.got) : k.got[n] <= k.head
        /\ k.pc # "shown" => \A n \in 1..Len(k.got) : k.got[n] \in lrRemoved \/ ~AfterPage(k.got[n], k.cursor)
        /\ \A i \in k.known : \/ i \in lrRemoved
                              \/ \E n \in 1..Len(k.got) : k.got[n] = i
                              \/ k.pc # "shown" /\ AfterPage(i, k.cursor)

\* The anchor a reader has is the cached one, or expired before that one was made.
ReaderAnchored(k) ==
    k.anchored # NoAnchor =>
        k.anchored = anchorCache[k.q] \/ k.anchored.expires + AnchorTtl <= anchorCache[k.q].expires

\* The records of an orderly snapshot: none is missing from it, and each names a removed one or one
\* at or after any earlier record the snapshot held.
NamesKnown(k, i, j) ==
    LET p == lrRows[j].prev
    IN  p # 0 /\ (p \in lrRemoved \/ (p \in k.known /\ i <= p /\ p < j))
ReaderOrders(k) ==
    k.inOrder = TRUE =>
        /\ k.q.target # LrGovernor
        /\ k.known # {} => k.head \in k.known
        /\ k.known # {} =>
              \A i \in LrIds : IsRecord(i) /\ lrRows[i].owner = k.q.target /\ i <= k.head => i \in k.known
        /\ \A i, j \in k.known : i < j /\ i \notin lrRemoved /\ j \notin lrRemoved => lrRows[i].at <= lrRows[j].at
        /\ \A i, j \in k.known :
              (i < j /\ j \notin lrRemoved /\ lrRows[j].kind = "record" /\ (i \in lrRemoved \/ lrRows[i].kind = "record"))
              => NamesKnown(k, i, j)

ReaderFits(k) ==
    ReaderLane(k) /\ ReaderSeen(k) /\ ReaderShows(k) /\ ReaderPages(k) /\ ReaderAnchored(k) /\ ReaderOrders(k)

\* Two anchors for one question are the same, or one had expired when the other was given.
Apart(k, l) ==
    k.q = l.q /\ k.anchored # NoAnchor /\ l.anchored # NoAnchor =>
        k.anchored = l.anchored \/ k.anchored.expires <= l.at \/ l.anchored.expires <= k.at

ReadersFit == \A r \in LrReaders : \A k : reader[r] = k => ReaderFits(k)
ReadersApart == \A r, s \in LrReaders : Apart(reader[r], reader[s])
LrInv == LrTypeOK /\ LrPast /\ LrLinked /\ LrCached /\ ReadersFit /\ ReadersApart

LEMMA ReaderFields ==
    ASSUME NEW k \in LrReaderState
    PROVE  /\ k.q \in LrQueries /\ k.head \in 0..MaxLrRows /\ k.got \in Seq(LrIds) /\ k.known \subseteq LrIds
           /\ k.cursor.at \in Nat /\ k.cursor.id \in Nat /\ k.anchored \in LrAnchor /\ k.at \in 0..MaxLrTime
BY LrBounds DEF LrReaderState

LEMMA LrIdleIs ==
    /\ IdleReader \in LrReaderState
    /\ IdleReader.pc = "idle" /\ IdleReader.got = <<>> /\ IdleReader.known = {} /\ IdleReader.cursor = NoCursor
    /\ IdleReader.inOrder = FALSE /\ IdleReader.head = 0 /\ IdleReader.anchored = NoAnchor
<1> DEFINE q0 == CHOOSE q \in LrQueries : TRUE
<1>1. q0 \in LrQueries
  BY LrAssumption
<1> HIDE DEF q0
<1>2. IdleReader = [pc |-> "idle", q |-> q0, head |-> 0, cursor |-> NoCursor, got |-> <<>>, known |-> {},
                    inOrder |-> FALSE, start |-> 0, anchored |-> NoAnchor, at |-> 0]
  BY DEF IdleReader, q0
<1>3. NoCursor \in [at : 0..MaxLrTime, id : 0..MaxLrRows] /\ NoAnchor \in LrAnchor
  BY LrBounds DEF NoCursor, NoAnchor, LrAnchor
<1>4. <<>> \in Seq(LrIds) /\ {} \in SUBSET LrIds /\ 0 \in 0..1 /\ 0 \in 0..MaxLrRows /\ 0 \in 0..MaxLrTime
  BY LrBounds
<1> HIDE DEF NoCursor, NoAnchor
<1> QED BY <1>1, <1>2, <1>3, <1>4 DEF LrReaderState

\* A request that ended has nothing to answer for.
LEMMA LrIdleFits == ASSUME LrTypeOK PROVE ReaderFits(IdleReader) /\ \A l : Apart(IdleReader, l)
<1>1. 0 < lrNext
  BY DEF LrTypeOK
<1>2. Len(<<>>) = 0 /\ 1..0 = {}
  OBVIOUS
<1>3. ReaderLane(IdleReader)
  BY LrIdleIs DEF ReaderLane
<1>4. ReaderSeen(IdleReader)
  BY LrIdleIs, <1>1 DEF ReaderSeen
<1>5. ReaderShows(IdleReader) /\ ReaderPages(IdleReader)
  BY LrIdleIs, <1>2 DEF ReaderShows, ReaderPages
<1>6. ReaderAnchored(IdleReader) /\ ReaderOrders(IdleReader)
  BY LrIdleIs DEF ReaderAnchored, ReaderOrders
<1> QED BY <1>3, <1>4, <1>5, <1>6, LrIdleIs DEF ReaderFits, Apart

\* The invariant holds initially.
LEMMA LrStart == LrInit => LrInv
<1> SUFFICES ASSUME LrInit PROVE LrInv
  OBVIOUS
<1>1. \A i \in LrIds : lrRows[i] = NoLrRow
  BY DEF LrInit
<1>2. LrTypeOK
  <2>1. lrRows \in [LrIds -> LrRow \cup {NoLrRow}]
    BY DEF LrInit
  <2>2. NoAnchor \in LrAnchor
    BY LrBounds DEF NoAnchor, LrAnchor
  <2>3. reader \in [LrReaders -> LrReaderState] /\ anchorCache \in [LrQueries -> LrAnchor]
    BY LrIdleIs, <2>2 DEF LrInit
  <2>4. lrNext \in 1..(MaxLrRows + 1) /\ lrRemoved \subseteq LrIds /\ lrAsked \in 0..MaxLrAsked /\ lrNow \in 0..MaxLrTime
    BY LrAssumption DEF LrInit
  <2> QED BY <2>1, <2>3, <2>4 DEF LrTypeOK
<1>3. LrPast
  BY <1>1 DEF LrPast, LrInit, NoLrRow
<1>4. LrLinked
  BY <1>1 DEF LrLinked, IsRecord, InTable, NoLrRow
<1>5. LrCached
  BY LrBounds DEF LrCached, LrInit, NoAnchor
<1>6. ReadersFit /\ ReadersApart
  BY <1>2, LrIdleFits DEF ReadersFit, ReadersApart, LrInit
<1> QED BY <1>2, <1>3, <1>4, <1>5, <1>6 DEF LrInv

\* What the table keeps: rows stay as they were committed or are removed, and new ones have new ids.
LrGrows ==
    /\ lrRemoved \subseteq lrRemoved' /\ lrNext <= lrNext' /\ lrNow <= lrNow'
    /\ \A i \in LrIds : InTable(i) => lrRows'[i] = lrRows[i] \/ i \in lrRemoved'
    /\ \A i \in LrIds : IsRecord(i)' => (IsRecord(i) /\ lrRows'[i] = lrRows[i]) \/ lrNext <= i
    /\ \A i \in lrRemoved' : i \in lrRemoved \/ IsRecord(i)

LEMMA LrFitsOn ==
    ASSUME LrInv, LrGrows, LrTypeOK', UNCHANGED anchorCache, NEW k \in LrReaderState, ReaderFits(k)
    PROVE  ReaderFits(k)'
<1>1. /\ k.q \in LrQueries /\ k.head \in Nat /\ k.got \in Seq(LrIds) /\ k.known \subseteq LrIds
      /\ \A n \in 1..Len(k.got) : k.got[n] \in LrIds
  BY ReaderFields
<1>2. lrNext \in Nat /\ lrNext' \in Nat /\ lrRemoved \subseteq LrIds /\ LrIds \subseteq Nat
  BY DEF LrInv, LrTypeOK, LrIds
<1>3. /\ lrRemoved \subseteq lrRemoved' /\ lrNext <= lrNext'
      /\ \A i \in LrIds : InTable(i) => lrRows'[i] = lrRows[i] \/ i \in lrRemoved'
      /\ \A i \in LrIds : IsRecord(i)' => (IsRecord(i) /\ lrRows'[i] = lrRows[i]) \/ lrNext <= i
  BY DEF LrGrows
<1>4. ReaderLane(k)'
  BY DEF ReaderFits, ReaderLane, CheckControlPlane, CheckPrincipal
<1>5. \A i \in LrIds : i \in lrRemoved' \/ lrRows'[i] = lrRows[i] \/ ~InTable(i)
  BY <1>3
<1>6. ReaderSeen(k)'
  <2>1. k.head < lrNext'
    BY <1>1, <1>2, <1>3 DEF ReaderFits, ReaderSeen
  <2>2. \A i \in k.known : i <= k.head /\ (i \in lrRemoved \/ (InTable(i) /\ lrRows[i].owner = k.q.target /\ RowMatches(i, k.q)))
    BY DEF ReaderFits, ReaderSeen
  <2>3. \A i \in k.known : \/ i \in lrRemoved'
                           \/ InTable(i)' /\ lrRows'[i].owner = k.q.target /\ RowMatches(i, k.q)'
    BY <2>2, <1>1, <1>3, <1>5 DEF InTable, RowMatches
  <2> QED BY <2>1, <2>2, <2>3 DEF ReaderSeen
<1>7. ReaderShows(k)'
  <2>1. \A n \in 1..Len(k.got) : k.got[n] \in lrRemoved \/ (InTable(k.got[n]) /\ OwnRow(k.got[n], k.q.requester))
    BY DEF ReaderFits, ReaderShows
  <2>2. \A i \in LrIds : InTable(i) /\ OwnRow(i, k.q.requester) => i \in lrRemoved' \/ (InTable(i)' /\ OwnRow(i, k.q.requester)')
    BY <1>5 DEF InTable, OwnRow
  <2> QED BY <2>1, <2>2, <1>1, <1>3 DEF ReaderShows
<1>8. ReaderPages(k)'
  <2> SUFFICES ASSUME k.q.route = "list" PROVE ReaderPages(k)'
    BY DEF ReaderPages
  <2> DEFINE D == 1..Len(k.got)
  <2>1. /\ \A m, n \in D : m # n => k.got[m] # k.got[n]
        /\ \A n \in D : k.got[n] <= k.head
        /\ k.pc # "shown" => \A n \in D : k.got[n] \in lrRemoved \/ ~AfterPage(k.got[n], k.cursor)
        /\ \A i \in k.known : \/ i \in lrRemoved
                              \/ \E n \in D : k.got[n] = i
                              \/ k.pc # "shown" /\ AfterPage(i, k.cursor)
    BY DEF ReaderFits, ReaderPages
  <2>2. \A n \in D : k.got[n] \in lrRemoved \/ InTable(k.got[n])
    BY DEF ReaderFits, ReaderShows
  <2>3. \A i \in k.known : i \in lrRemoved \/ InTable(i)
    BY DEF ReaderFits, ReaderSeen
  <2>4. \A i \in LrIds : InTable(i) => i \in lrRemoved' \/ (AfterPage(i, k.cursor)' <=> AfterPage(i, k.cursor))
    BY <1>5 DEF AfterPage
  <2>5. k.pc # "shown" => \A n \in D : k.got[n] \in lrRemoved' \/ ~AfterPage(k.got[n], k.cursor)'
    BY <2>1, <2>2, <2>4, <1>1, <1>3
  <2>6. \A i \in k.known : \/ i \in lrRemoved'
                           \/ \E n \in D : k.got[n] = i
                           \/ k.pc # "shown" /\ AfterPage(i, k.cursor)'
    BY <2>1, <2>3, <2>4, <1>1, <1>3
  <2> QED BY <2>1, <2>5, <2>6 DEF ReaderPages
<1>9. ReaderAnchored(k)'
  BY DEF ReaderFits, ReaderAnchored
<1>10. ReaderOrders(k)'
  <2> SUFFICES ASSUME k.inOrder = TRUE PROVE ReaderOrders(k)'
    BY DEF ReaderOrders
  <2>1. /\ k.q.target # LrGovernor
        /\ k.known # {} => k.head \in k.known
        /\ k.known # {} =>
              \A i \in LrIds : IsRecord(i) /\ lrRows[i].owner = k.q.target /\ i <= k.head => i \in k.known
        /\ \A i, j \in k.known : i < j /\ i \notin lrRemoved /\ j \notin lrRemoved => lrRows[i].at <= lrRows[j].at
        /\ \A i, j \in k.known :
              (i < j /\ j \notin lrRemoved /\ lrRows[j].kind = "record" /\ (i \in lrRemoved \/ lrRows[i].kind = "record"))
              => NamesKnown(k, i, j)
    BY DEF ReaderFits, ReaderOrders
  <2>2. \A i \in k.known : i \notin lrRemoved' => i \notin lrRemoved /\ lrRows'[i] = lrRows[i]
    BY <1>1, <1>3, <1>5 DEF ReaderFits, ReaderSeen
  <2>3. k.head < lrNext
    BY DEF ReaderFits, ReaderSeen
  <2>4. k.known # {} =>
          \A i \in LrIds : IsRecord(i)' /\ lrRows'[i].owner = k.q.target /\ i <= k.head => i \in k.known
    <3> SUFFICES ASSUME k.known # {}, NEW i \in LrIds, IsRecord(i)', lrRows'[i].owner = k.q.target, i <= k.head
                 PROVE  i \in k.known
      OBVIOUS
    <3>1. ~(lrNext <= i)
      BY <2>3, <1>1, <1>2
    <3>2. IsRecord(i) /\ lrRows'[i] = lrRows[i]
      BY <3>1, <1>3
    <3> QED BY <2>1, <3>2
  <2>5. ASSUME NEW i \in k.known, NEW j \in k.known, i < j, i \notin lrRemoved', j \notin lrRemoved'
        PROVE  lrRows'[i].at <= lrRows'[j].at
    BY <2>1, <2>2, <2>5
  <2>6. ASSUME NEW i \in k.known, NEW j \in k.known, i < j, j \notin lrRemoved', lrRows'[j].kind = "record",
               i \in lrRemoved' \/ lrRows'[i].kind = "record"
        PROVE  NamesKnown(k, i, j)'
    <3>1. j \notin lrRemoved /\ lrRows'[j] = lrRows[j] /\ lrRows[j].kind = "record"
      BY <2>2, <2>6
    <3>2. i \in lrRemoved \/ lrRows[i].kind = "record"
      <4>1. CASE i \in lrRemoved'
        BY <4>1 DEF LrGrows, IsRecord
      <4>2. CASE i \notin lrRemoved'
        BY <4>2, <2>2, <2>6
      <4> QED BY <4>1, <4>2
    <3>3. NamesKnown(k, i, j)
      BY <2>1, <2>6, <3>1, <3>2
    <3> QED BY <3>1, <3>3, <1>3 DEF NamesKnown
  <2> QED BY <2>1, <2>4, <2>5, <2>6 DEF ReaderOrders
<1> QED BY <1>4, <1>6, <1>7, <1>8, <1>9, <1>10 DEF ReaderFits

\* The readers wait while the table changes.
LEMMA LrTableChanges ==
    ASSUME LrInv, LrGrows, LrTypeOK', UNCHANGED <<anchorCache, reader>>, LrPast', LrLinked'
    PROVE  LrInv'
<1>1. LrCached'
  <2>1. \A q \in LrQueries : anchorCache[q].expires \in Nat /\ lrNow \in Nat /\ lrNow' \in Nat /\ lrNow <= lrNow'
    BY LrBounds DEF LrInv, LrTypeOK, LrAnchor, LrGrows
  <2> QED BY <2>1, LrBounds DEF LrInv, LrCached
<1>2. ReadersFit'
  <2> SUFFICES ASSUME NEW r \in LrReaders, NEW k, reader[r] = k PROVE ReaderFits(k)'
    BY DEF ReadersFit
  <2>1. k \in LrReaderState /\ ReaderFits(k)
    BY DEF LrInv, LrTypeOK, ReadersFit
  <2> QED BY <2>1, LrFitsOn
<1>3. ReadersApart'
  BY DEF LrInv, ReadersApart
<1> QED BY <1>1, <1>2, <1>3 DEF LrInv

\* What is known of the rows before a new one is written at lrNext.
LEMMA LrInserts ==
    ASSUME LrInv, lrNext <= MaxLrRows, NEW row \in LrRow, lrRows' = [lrRows EXCEPT ![lrNext] = row],
           lrNext' = lrNext + 1, UNCHANGED <<lrRemoved, anchorCache, reader, lrAsked, lrNow>>,
           row.state = "open" => row.kind = "reservation",
           row.owner # LrGovernor => row.subject = NoSubject
    PROVE  /\ LrTypeOK' /\ LrGrows /\ LrPast' /\ lrNext \in LrIds /\ lrNext \notin lrRemoved
           /\ lrRows'[lrNext] = row /\ \A i \in LrIds : i # lrNext => lrRows'[i] = lrRows[i]
           /\ \A i \in LrIds : InTable(i) => i < lrNext
<1>1. lrNext \in Nat /\ lrNext \in LrIds /\ LrIds \subseteq Nat /\ lrRows \in [LrIds -> LrRow \cup {NoLrRow}]
  BY LrBounds DEF LrInv, LrTypeOK, LrIds
<1>2. lrRows'[lrNext] = row /\ \A i \in LrIds : i # lrNext => lrRows'[i] = lrRows[i]
  BY <1>1
<1>3. lrRows' \in [LrIds -> LrRow \cup {NoLrRow}]
  BY <1>1
<1>4. LrTypeOK'
  BY <1>1, <1>3, LrBounds DEF LrInv, LrTypeOK
<1>5. \A i \in LrIds : lrNext <= i => lrRows[i].state = "absent"
  BY DEF LrInv, LrPast
<1>6. \A i \in lrRemoved : i < lrNext /\ lrRows[i].state = "absent" /\ i \in LrIds
  BY DEF LrInv, LrPast, LrTypeOK
<1>7. \A i \in LrIds : InTable(i) => i < lrNext
  BY <1>1, <1>5 DEF InTable
<1>8. LrGrows
  <2>1. \A i \in LrIds : InTable(i) => lrRows'[i] = lrRows[i]
    BY <1>1, <1>2, <1>7
  <2>2. \A i \in LrIds : IsRecord(i)' => (IsRecord(i) /\ lrRows'[i] = lrRows[i]) \/ lrNext <= i
    BY <1>1, <1>2 DEF IsRecord, InTable
  <2>3. lrNow <= lrNow' /\ lrNext <= lrNext'
    BY <1>1 DEF LrInv, LrTypeOK
  <2> QED BY <2>1, <2>2, <2>3 DEF LrGrows
<1>9. LrPast'
  <2>1. \A i \in LrIds : lrNext' <= i => lrRows'[i].state = "absent"
    BY <1>1, <1>2, <1>5
  <2>2. \A i \in lrRemoved' : i < lrNext' /\ lrRows'[i].state = "absent"
    <3> SUFFICES ASSUME NEW i \in lrRemoved PROVE i < lrNext' /\ lrRows'[i].state = "absent"
      OBVIOUS
    <3>1. i < lrNext /\ i \in LrIds /\ lrRows[i].state = "absent" /\ i \in Nat
      BY <1>1, <1>6
    <3>2. i # lrNext /\ i < lrNext + 1
      BY <3>1, <1>1
    <3> QED BY <3>1, <3>2, <1>2
  <2>3. \A i \in LrIds : /\ lrRows'[i].state = "open" => lrRows'[i].kind = "reservation"
                         /\ lrRows'[i].state # "absent" /\ lrRows'[i].owner # LrGovernor => lrRows'[i].subject = NoSubject
    BY <1>2 DEF LrInv, LrPast
  <2> QED BY <2>1, <2>2, <2>3 DEF LrPast
<1>10. lrNext \notin lrRemoved
  BY <1>1, <1>6
<1> QED BY <1>1, <1>2, <1>4, <1>7, <1>8, <1>9, <1>10

\* The links of the rows that were there are not touched by a new row.
LEMMA LinksStay ==
    ASSUME LrInv, NEW i \in LrIds, NEW j \in LrIds, NEW n \in LrIds, \A m \in LrIds : m # n => lrRows'[m] = lrRows[m],
           ~InTable(n), UNCHANGED lrRemoved, i # n, j # n, i < j, IsRecord(i), IsRecord(j),
           lrRows[i].owner = lrRows[j].owner
    PROVE  NamesAtLeast(j, i)'
<1>1. NamesAtLeast(j, i)
  BY DEF LrInv, LrLinked
<1>2. lrRows'[j] = lrRows[j] /\ lrRows'[i] = lrRows[i]
  OBVIOUS
<1> DEFINE p == lrRows[j].prev
<1>3. p # 0 /\ lrRows'[j].prev = p
  BY <1>1, <1>2 DEF NamesAtLeast
<1>4. CASE p \in lrRemoved
  BY <1>3, <1>4 DEF NamesAtLeast
<1>5. CASE p \notin lrRemoved
  <2>1. p \in LrIds /\ InTable(p) /\ p < j /\ lrRows[p].owner = lrRows[j].owner /\ (p = i \/ StampedBefore(i, p))
    BY <1>1, <1>5 DEF NamesAtLeast
  <2>2. lrRows'[p] = lrRows[p]
    BY <2>1
  <2>3. InTable(p)' /\ lrRows'[p].owner = lrRows'[j].owner /\ (p = i \/ StampedBefore(i, p)')
    BY <2>1, <2>2, <1>2 DEF InTable, StampedBefore
  <2> QED BY <1>3, <2>1, <2>3 DEF NamesAtLeast
<1> QED BY <1>4, <1>5

\* A record names the last row of its agent.
LEMMA LastHashIs ==
    ASSUME LrTable, NEW a, NEW i \in RowsOf(a)
    PROVE  LastHash(a) \in RowsOf(a) /\ (LastHash(a) = i \/ StampedBefore(i, LastHash(a)))
<1>1. RowsOf(a) \in SUBSET LrIds /\ RowsOf(a) # {}
  BY DEF RowsOf
<1>2. \E m \in RowsOf(a) : \A j \in RowsOf(a) \ {m} : StampedBefore(j, m)
  BY <1>1, LastByStamp
<1>3. LastHash(a) \in RowsOf(a) /\ \A j \in RowsOf(a) \ {LastHash(a)} : StampedBefore(j, LastHash(a))
  BY <1>1, <1>2 DEF LastHash
<1> QED BY <1>3

LEMMA LastHashType == ASSUME LrTable, NEW a PROVE LastHash(a) \in 0..MaxLrRows
<1>1. CASE RowsOf(a) = {}
  BY <1>1, LrBounds DEF LastHash
<1>2. CASE RowsOf(a) # {}
  BY <1>2, LastHashIs, LrBounds DEF RowsOf, LrIds
<1> QED BY <1>1, <1>2

LEMMA AppendRecordStep ==
    ASSUME LrInv, NEW a \in LrOwners, NEW subject \in LrSubjects \cup {NoSubject}, NEW at \in 0..MaxLrTime,
           AppendRecord(a, subject, at)
    PROVE  LrInv'
<1> DEFINE row == [state |-> "committed", owner |-> a, kind |-> "record", subject |-> subject, at |-> at,
                   prev |-> LastHash(a)]
<1>1. LrTable
  BY DEF LrInv, LrTypeOK, LrTable
<1>2. row \in LrRow
  BY <1>1, LastHashType DEF LrRow
<1>3. /\ row.state = "committed" /\ row.owner = a /\ row.kind = "record" /\ row.subject = subject
      /\ row.at = at /\ row.prev = LastHash(a)
  OBVIOUS
<1>4. /\ lrNext <= MaxLrRows /\ lrRows' = [lrRows EXCEPT ![lrNext] = row] /\ lrNext' = lrNext + 1
      /\ a # LrGovernor => subject = NoSubject
      /\ UNCHANGED <<lrRemoved, anchorCache, reader, lrAsked, lrNow>>
  BY DEF AppendRecord
<1> HIDE DEF row
<1>5. /\ LrTypeOK' /\ LrGrows /\ LrPast' /\ lrNext \in LrIds /\ lrNext \notin lrRemoved
      /\ lrRows'[lrNext] = row /\ \A i \in LrIds : i # lrNext => lrRows'[i] = lrRows[i]
      /\ \A i \in LrIds : InTable(i) => i < lrNext
  BY <1>2, <1>3, <1>4, LrInserts
<1>6. ~InTable(lrNext) /\ LrIds \subseteq Nat
  BY <1>5, LrBounds DEF LrIds
<1>7. LrLinked'
  <2> SUFFICES ASSUME NEW i \in LrIds, NEW j \in LrIds, i < j, IsRecord(i)', IsRecord(j)', lrRows'[i].owner = lrRows'[j].owner
               PROVE  NamesAtLeast(j, i)'
    BY DEF LrLinked
  <2>1. i # lrNext
    <3> SUFFICES ASSUME i = lrNext PROVE FALSE
      OBVIOUS
    <3>1. j # lrNext /\ lrRows'[j] = lrRows[j]
      BY <1>5, <1>6
    <3>2. j < lrNext
      BY <3>1, <1>5 DEF IsRecord, InTable
    <3> QED BY <3>2, <1>6
  <2>2. IsRecord(i) /\ lrRows'[i] = lrRows[i]
    BY <2>1, <1>5 DEF IsRecord, InTable
  <2>3. CASE j # lrNext
    <3>1. IsRecord(j) /\ lrRows'[j] = lrRows[j]
      BY <2>3, <1>5 DEF IsRecord, InTable
    <3> QED BY <2>1, <2>2, <2>3, <3>1, <1>4, <1>5, <1>6, LinksStay
  <2>4. CASE j = lrNext
    <3>1. lrRows'[j] = row /\ lrRows[i].owner = a
      BY <2>2, <2>4, <1>3, <1>5
    <3>2. i \in RowsOf(a)
      BY <2>2, <3>1 DEF RowsOf, IsRecord
    <3>3. PICK p \in RowsOf(a) : p = LastHash(a) /\ (p = i \/ StampedBefore(i, p))
      BY <3>2, <1>1, LastHashIs
    <3>4. p \in LrIds /\ InTable(p) /\ lrRows[p].owner = a
      BY <3>3 DEF RowsOf
    <3>5. p < lrNext /\ lrRows'[p] = lrRows[p] /\ p # 0
      BY <3>4, <1>5, <1>6, LrBounds DEF LrIds
    <3>6. lrRows'[j].prev = p /\ lrRows'[j].owner = a
      BY <3>1, <3>3, <1>3
    <3>7. InTable(p)' /\ (p = i \/ StampedBefore(i, p)') /\ lrRows'[p].owner = lrRows'[j].owner
      BY <3>3, <3>4, <3>5, <3>6, <2>2 DEF InTable, StampedBefore
    <3> QED BY <3>4, <3>5, <3>6, <3>7, <2>4 DEF NamesAtLeast
  <2> QED BY <2>3, <2>4
<1> QED BY <1>4, <1>5, <1>7, LrTableChanges

LEMMA InsertReservationRowStep ==
    ASSUME LrInv, NEW a \in LrAgents, InsertReservationRow(a)
    PROVE  LrInv'
<1> DEFINE row == [state |-> "open", owner |-> a, kind |-> "reservation", subject |-> NoSubject, at |-> lrNow, prev |-> 0]
<1>1. row \in LrRow
  BY LrBounds DEF LrRow, LrOwners, LrInv, LrTypeOK
<1>2. row.state = "open" /\ row.kind = "reservation" /\ row.subject = NoSubject
  OBVIOUS
<1>3. /\ lrNext <= MaxLrRows /\ lrRows' = [lrRows EXCEPT ![lrNext] = row] /\ lrNext' = lrNext + 1
      /\ UNCHANGED <<lrRemoved, anchorCache, reader, lrAsked, lrNow>>
  BY DEF InsertReservationRow
<1> HIDE DEF row
<1>4. /\ LrTypeOK' /\ LrGrows /\ LrPast' /\ lrNext \in LrIds
      /\ lrRows'[lrNext] = row /\ \A i \in LrIds : i # lrNext => lrRows'[i] = lrRows[i]
      /\ \A i \in LrIds : InTable(i) => i < lrNext
  BY <1>1, <1>2, <1>3, LrInserts
<1>5. ~InTable(lrNext)
  BY <1>4, LrBounds DEF LrIds
<1>6. LrLinked'
  <2> SUFFICES ASSUME NEW i \in LrIds, NEW j \in LrIds, i < j, IsRecord(i)', IsRecord(j)', lrRows'[i].owner = lrRows'[j].owner
               PROVE  NamesAtLeast(j, i)'
    BY DEF LrLinked
  <2>1. i # lrNext /\ j # lrNext
    BY <1>2, <1>4 DEF IsRecord, InTable
  <2>2. lrRows'[i] = lrRows[i] /\ lrRows'[j] = lrRows[j]
    BY <2>1, <1>4
  <2>3. IsRecord(i) /\ IsRecord(j) /\ lrRows[i].owner = lrRows[j].owner
    BY <2>2 DEF IsRecord, InTable
  <2> QED BY <2>1, <2>3, <1>3, <1>4, <1>5, LinksStay
<1> QED BY <1>3, <1>4, <1>6, LrTableChanges

LEMMA CommitReservationRowStep ==
    ASSUME LrInv, NEW n \in LrIds, CommitReservationRow(n)
    PROVE  LrInv'
<1>1. lrRows \in [LrIds -> LrRow \cup {NoLrRow}] /\ LrIds \subseteq Nat
  BY LrBounds DEF LrInv, LrTypeOK, LrIds
<1>2. lrRows[n].state = "open" /\ lrRows[n].kind = "reservation"
  BY DEF CommitReservationRow, LrInv, LrPast
<1>3. lrRows[n] \in LrRow
  BY <1>1, <1>2 DEF NoLrRow
<1> DEFINE row == [lrRows[n] EXCEPT !.state = "committed"]
<1>4. row \in LrRow /\ row.kind = "reservation" /\ row.owner = lrRows[n].owner /\ row.subject = lrRows[n].subject /\ row.state = "committed"
  BY <1>2, <1>3 DEF LrRow
<1>5. lrRows' = [lrRows EXCEPT ![n] = row] /\ UNCHANGED <<lrNext, lrRemoved, anchorCache, reader, lrAsked, lrNow>>
  BY DEF CommitReservationRow
<1> HIDE DEF row
<1>6. lrRows'[n] = row /\ \A i \in LrIds : i # n => lrRows'[i] = lrRows[i]
  BY <1>1, <1>5
<1>7. LrTypeOK'
  <2>1. lrRows' \in [LrIds -> LrRow \cup {NoLrRow}]
    BY <1>1, <1>4, <1>5
  <2> QED BY <2>1, <1>5 DEF LrInv, LrTypeOK
<1>8. n < lrNext /\ n \notin lrRemoved /\ ~InTable(n) /\ lrNext \in Nat /\ lrNow \in Nat
  BY <1>1, <1>2 DEF LrInv, LrPast, LrTypeOK, InTable
<1>9. LrGrows
  <2>1. \A i \in LrIds : InTable(i) => lrRows'[i] = lrRows[i]
    BY <1>6, <1>8
  <2>2. \A i \in LrIds : IsRecord(i)' => (IsRecord(i) /\ lrRows'[i] = lrRows[i])
    BY <1>4, <1>6 DEF IsRecord, InTable
  <2> QED BY <2>1, <2>2, <1>5, <1>8 DEF LrGrows
<1>10. LrPast'
  <2>1. \A i \in LrIds : lrNext <= i => lrRows'[i].state = "absent"
    BY <1>1, <1>6, <1>8 DEF LrInv, LrPast
  <2>2. \A i \in lrRemoved : i < lrNext /\ lrRows'[i].state = "absent"
    BY <1>6, <1>8 DEF LrInv, LrPast, LrTypeOK
  <2>3. \A i \in LrIds : /\ lrRows'[i].state = "open" => lrRows'[i].kind = "reservation"
                         /\ lrRows'[i].state # "absent" /\ lrRows'[i].owner # LrGovernor => lrRows'[i].subject = NoSubject
    BY <1>2, <1>4, <1>6 DEF LrInv, LrPast
  <2> QED BY <2>1, <2>2, <2>3, <1>5 DEF LrPast
<1>11. LrLinked'
  <2> SUFFICES ASSUME NEW i \in LrIds, NEW j \in LrIds, i < j, IsRecord(i)', IsRecord(j)', lrRows'[i].owner = lrRows'[j].owner
               PROVE  NamesAtLeast(j, i)'
    BY DEF LrLinked
  <2>1. i # n /\ j # n
    BY <1>4, <1>6 DEF IsRecord, InTable
  <2>2. lrRows'[i] = lrRows[i] /\ lrRows'[j] = lrRows[j]
    BY <2>1, <1>6
  <2>3. IsRecord(i) /\ IsRecord(j) /\ lrRows[i].owner = lrRows[j].owner
    BY <2>2 DEF IsRecord, InTable
  <2> QED BY <2>1, <2>3, <1>5, <1>6, <1>8, LinksStay
<1> QED BY <1>5, <1>7, <1>9, <1>10, <1>11, LrTableChanges

LEMMA RemoveRowStep ==
    ASSUME LrInv, NEW n \in LrIds, RemoveRow(n)
    PROVE  LrInv'
<1>1. lrRows \in [LrIds -> LrRow \cup {NoLrRow}] /\ LrIds \subseteq Nat
  BY LrBounds DEF LrInv, LrTypeOK, LrIds
<1>2. IsRecord(n) /\ lrRows' = [lrRows EXCEPT ![n] = NoLrRow] /\ lrRemoved' = lrRemoved \cup {n}
      /\ UNCHANGED <<lrNext, anchorCache, reader, lrAsked, lrNow>>
  BY DEF RemoveRow, IsRecord
<1>3. lrRows'[n] = NoLrRow /\ \A i \in LrIds : i # n => lrRows'[i] = lrRows[i]
  BY <1>1, <1>2
<1>4. NoLrRow.state = "absent" /\ NoLrRow.subject = NoSubject
  BY DEF NoLrRow
<1>5. LrTypeOK'
  <2>1. lrRows' \in [LrIds -> LrRow \cup {NoLrRow}]
    BY <1>1, <1>2
  <2> QED BY <2>1, <1>2 DEF LrInv, LrTypeOK
<1>6. n < lrNext /\ n \notin lrRemoved /\ lrNext \in Nat /\ lrNow \in Nat
  BY <1>1, <1>2 DEF LrInv, LrPast, LrTypeOK, InTable, IsRecord
<1>7. LrGrows
  <2>1. \A i \in LrIds : InTable(i) => lrRows'[i] = lrRows[i] \/ i \in lrRemoved'
    BY <1>2, <1>3
  <2>2. \A i \in LrIds : IsRecord(i)' => (IsRecord(i) /\ lrRows'[i] = lrRows[i])
    BY <1>3, <1>4 DEF IsRecord, InTable
  <2> QED BY <2>1, <2>2, <1>2, <1>6 DEF LrGrows
<1>8. LrPast'
  <2>1. \A i \in LrIds : lrNext <= i => lrRows'[i].state = "absent"
    BY <1>3, <1>4 DEF LrInv, LrPast
  <2>2. \A i \in lrRemoved' : i < lrNext /\ lrRows'[i].state = "absent"
    BY <1>2, <1>3, <1>4, <1>6 DEF LrInv, LrPast, LrTypeOK
  <2>3. \A i \in LrIds : /\ lrRows'[i].state = "open" => lrRows'[i].kind = "reservation"
                         /\ lrRows'[i].state # "absent" /\ lrRows'[i].owner # LrGovernor => lrRows'[i].subject = NoSubject
    BY <1>3, <1>4 DEF LrInv, LrPast
  <2> QED BY <2>1, <2>2, <2>3, <1>2 DEF LrPast
<1>9. LrLinked'
  <2> SUFFICES ASSUME NEW i \in LrIds, NEW j \in LrIds, i < j, IsRecord(i)', IsRecord(j)', lrRows'[i].owner = lrRows'[j].owner
               PROVE  NamesAtLeast(j, i)'
    BY DEF LrLinked
  <2>1. i # n /\ j # n
    BY <1>3, <1>4 DEF IsRecord, InTable
  <2>2. lrRows'[i] = lrRows[i] /\ lrRows'[j] = lrRows[j]
    BY <2>1, <1>3
  <2>3. IsRecord(i) /\ IsRecord(j) /\ lrRows[i].owner = lrRows[j].owner
    BY <2>2 DEF IsRecord, InTable
  <2>4. NamesAtLeast(j, i)
    BY <2>3 DEF LrInv, LrLinked
  <2> DEFINE p == lrRows[j].prev
  <2>5. p # 0 /\ lrRows'[j].prev = p
    BY <2>2, <2>4 DEF NamesAtLeast
  <2>6. CASE p \in lrRemoved'
    BY <2>5, <2>6 DEF NamesAtLeast
  <2>7. CASE p \notin lrRemoved'
    <3>1. p # n /\ p \in LrIds /\ InTable(p) /\ p < j /\ lrRows[p].owner = lrRows[j].owner /\ (p = i \/ StampedBefore(i, p))
      BY <2>4, <2>7, <1>2 DEF NamesAtLeast
    <3>2. lrRows'[p] = lrRows[p]
      BY <3>1, <1>3
    <3>3. InTable(p)' /\ lrRows'[p].owner = lrRows'[j].owner /\ (p = i \/ StampedBefore(i, p)')
      BY <3>1, <3>2, <2>2 DEF InTable, StampedBefore
    <3> QED BY <2>5, <3>1, <3>3 DEF NamesAtLeast
  <2> QED BY <2>6, <2>7
<1> QED BY <1>2, <1>5, <1>7, <1>8, <1>9, LrTableChanges

LEMMA LrTickStep == ASSUME LrInv, LrTick PROVE LrInv'
<1>1. lrNow \in Nat /\ lrNow < MaxLrTime /\ lrNow' = lrNow + 1
      /\ UNCHANGED <<lrRows, lrNext, lrRemoved, anchorCache, reader, lrAsked>>
  BY DEF LrTick, LrInv, LrTypeOK
<1>2. LrTypeOK'
  BY <1>1, LrBounds DEF LrInv, LrTypeOK
<1>3. LrGrows
  BY <1>1 DEF LrGrows, InTable, IsRecord, LrInv, LrTypeOK
<1>4. LrPast' /\ LrLinked'
  BY <1>1 DEF LrInv, LrPast, LrLinked, IsRecord, InTable, NamesAtLeast, StampedBefore
<1> QED BY <1>1, <1>2, <1>3, <1>4, LrTableChanges

\* A reader moves, and the others and the table stay as they are.
LEMMA LrReaderMoves ==
    ASSUME LrInv, NEW r \in LrReaders, NEW k \in LrReaderState, reader' = [reader EXCEPT ![r] = k],
           lrAsked' \in 0..MaxLrAsked, UNCHANGED <<lrRows, lrNext, lrRemoved, anchorCache, lrNow>>,
           ReaderFits(k), \A s \in LrReaders : Apart(k, reader[s])
    PROVE  LrInv'
<1>1. reader \in [LrReaders -> LrReaderState]
  BY DEF LrInv, LrTypeOK
<1>2. reader'[r] = k /\ \A s \in LrReaders : s # r => reader'[s] = reader[s]
  BY <1>1
<1>3. LrTypeOK'
  <2>1. reader' \in [LrReaders -> LrReaderState]
    BY <1>1
  <2> QED BY <2>1 DEF LrInv, LrTypeOK
<1>4. LrGrows
  <2>1. lrNow \in Nat /\ lrNext \in Nat
    BY DEF LrInv, LrTypeOK
  <2> QED BY <2>1 DEF LrGrows, IsRecord, InTable
<1>5. LrPast' /\ LrLinked' /\ LrCached'
  BY DEF LrInv, LrPast, LrLinked, LrCached, IsRecord, InTable, NamesAtLeast, StampedBefore
<1>6. ReadersFit'
  <2> SUFFICES ASSUME NEW s \in LrReaders, NEW l, reader'[s] = l PROVE ReaderFits(l)'
    BY DEF ReadersFit
  <2>1. l \in LrReaderState /\ ReaderFits(l)
    <3>1. CASE s = r
      BY <3>1, <1>2
    <3>2. CASE s # r
      BY <3>2, <1>1, <1>2 DEF LrInv, ReadersFit
    <3> QED BY <3>1, <3>2
  <2> QED BY <2>1, <1>3, <1>4, LrFitsOn
<1>7. ReadersApart'
  <2> SUFFICES ASSUME NEW s \in LrReaders, NEW t \in LrReaders PROVE Apart(reader'[s], reader'[t])
    BY DEF ReadersApart, Apart
  <2>1. CASE s = r /\ t = r
    BY <2>1, <1>2 DEF Apart
  <2>2. CASE s = r /\ t # r
    BY <2>2, <1>2
  <2>3. CASE s # r /\ t = r
    BY <2>3, <1>2 DEF Apart
  <2>4. CASE s # r /\ t # r
    BY <2>4, <1>2 DEF LrInv, ReadersApart
  <2> QED BY <2>1, <2>2, <2>3, <2>4
<1> QED BY <1>3, <1>5, <1>6, <1>7 DEF LrInv

\* The same where the reader keeps its question and its anchor.
LEMMA LrReaderGoesOn ==
    ASSUME LrInv, NEW r \in LrReaders, NEW k \in LrReaderState, reader' = [reader EXCEPT ![r] = k],
           UNCHANGED <<lrRows, lrNext, lrRemoved, anchorCache, lrAsked, lrNow>>, ReaderFits(k),
           k.q = reader[r].q, k.anchored = reader[r].anchored, k.at = reader[r].at
    PROVE  LrInv'
<1>1. \A s \in LrReaders : Apart(k, reader[s])
  BY DEF LrInv, ReadersApart, Apart
<1>2. lrAsked' \in 0..MaxLrAsked
  BY DEF LrInv, LrTypeOK
<1> QED BY <1>1, <1>2, LrReaderMoves

LEMMA LrReaderEnds ==
    ASSUME LrInv, NEW r \in LrReaders, reader' = [reader EXCEPT ![r] = IdleReader],
           UNCHANGED <<lrRows, lrNext, lrRemoved, anchorCache, lrAsked, lrNow>>
    PROVE  LrInv'
<1>1. lrAsked' \in 0..MaxLrAsked /\ LrTypeOK
  BY DEF LrInv, LrTypeOK
<1> QED BY <1>1, LrIdleIs, LrIdleFits, LrReaderMoves

LEMMA LrReaderIs ==
    ASSUME LrInv, NEW r \in LrReaders
    PROVE  reader[r] \in LrReaderState /\ ReaderFits(reader[r])
BY DEF LrInv, LrTypeOK, ReadersFit

\* A request under its snapshot that only goes on, refused or answered.
LEMMA LrPasses ==
    ASSUME NEW k \in LrReaderState, ReaderFits(k), k.pc \in {"headed", "checked", "probed"},
           NEW pc \in {"checked", "probed", "valid", "invalid"},
           pc = "checked" => k.q.target \in LrOwners /\ (CheckPrincipal(k.q) \/ CheckControlPlane(k.q))
    PROVE  /\ [k EXCEPT !.pc = pc] \in LrReaderState /\ ReaderFits([k EXCEPT !.pc = pc])
           /\ [k EXCEPT !.pc = pc].q = k.q /\ [k EXCEPT !.pc = pc].anchored = k.anchored
           /\ [k EXCEPT !.pc = pc].at = k.at
<1>1. PICK l : l = [k EXCEPT !.pc = pc]
  OBVIOUS
<1>2. /\ l.q = k.q /\ l.head = k.head /\ l.cursor = k.cursor /\ l.got = k.got /\ l.known = k.known
      /\ l.inOrder = k.inOrder /\ l.anchored = k.anchored /\ l.at = k.at /\ l.pc = pc /\ l \in LrReaderState
  BY <1>1 DEF LrReaderState
<1>3. ReaderLane(l)
  BY <1>2 DEF ReaderLane
<1>4. ReaderSeen(l) /\ ReaderShows(l)
  BY <1>2 DEF ReaderFits, ReaderSeen, ReaderShows
<1>5. ReaderPages(l)
  BY <1>2 DEF ReaderFits, ReaderPages
<1>6. ReaderAnchored(l)
  BY <1>2 DEF ReaderFits, ReaderAnchored
<1>7. ReaderOrders(l)
  BY <1>2 DEF ReaderFits, ReaderOrders, NamesKnown
<1>8. ReaderFits(l)
  BY <1>3, <1>4, <1>5, <1>6, <1>7 DEF ReaderFits
<1> QED BY <1>1, <1>2, <1>8

LEMMA AuthorizeStep == ASSUME LrInv, NEW r \in LrReaders, Authorize(r) PROVE LrInv'
<1>1. reader[r] \in LrReaderState /\ ReaderFits(reader[r]) /\ reader[r].pc = "headed"
  BY LrReaderIs DEF Authorize
<1>2. CASE SignatureHolds(reader[r].q, reader[r].head)
  <2>1. reader[r].q.target \in LrOwners /\ (CheckPrincipal(reader[r].q) \/ CheckControlPlane(reader[r].q))
    BY <1>2 DEF SignatureHolds, ParseQueryParams
  <2>2. reader' = [reader EXCEPT ![r] = [reader[r] EXCEPT !.pc = "checked"]]
        /\ UNCHANGED <<lrRows, lrNext, lrRemoved, anchorCache, lrAsked, lrNow>>
    BY <1>2 DEF Authorize, LrGoto
  <2> QED BY <1>1, <2>1, <2>2, LrPasses, LrReaderGoesOn
<1>3. CASE ~SignatureHolds(reader[r].q, reader[r].head)
  BY <1>3, LrReaderEnds DEF Authorize, LrGoto
<1> QED BY <1>2, <1>3

LEMMA HandleChainVerifyStep ==
    ASSUME LrInv, NEW r \in LrReaders, ProbeGenesis(r) \/ HandleChainVerify(r)
    PROVE  LrInv'
<1>1. reader[r] \in LrReaderState /\ ReaderFits(reader[r]) /\ reader[r].pc \in {"headed", "checked", "probed"}
  BY LrReaderIs DEF ProbeGenesis, HandleChainVerify
<1>2. /\ \/ reader' = [reader EXCEPT ![r] = IdleReader]
         \/ \E pc \in {"probed", "valid", "invalid"} : reader' = [reader EXCEPT ![r] = [reader[r] EXCEPT !.pc = pc]]
      /\ UNCHANGED <<lrRows, lrNext, lrRemoved, anchorCache, lrAsked, lrNow>>
  BY DEF ProbeGenesis, HandleChainVerify, LrGoto
<1>3. CASE reader' = [reader EXCEPT ![r] = IdleReader]
  BY <1>2, <1>3, LrReaderEnds
<1>4. ASSUME NEW pc \in {"probed", "valid", "invalid"}, reader' = [reader EXCEPT ![r] = [reader[r] EXCEPT !.pc = pc]]
      PROVE  LrInv'
  <2>1. pc # "checked" /\ pc \in {"checked", "probed", "valid", "invalid"}
    OBVIOUS
  <2> QED BY <1>1, <1>2, <1>4, <2>1, LrPasses, LrReaderGoesOn
<1> QED BY <1>2, <1>3, <1>4

LEMMA EndRequestStep == ASSUME LrInv, NEW r \in LrReaders, EndRequest(r) PROVE LrInv'
BY LrReaderEnds DEF EndRequest, LrGoto

\* A checked requester may see the rows of the target that match its query.
LEMMA MayShow ==
    ASSUME LrInv, NEW k \in LrReaderState, ReaderFits(k), k.pc = "checked", NEW i \in RowsOf(k.q.target),
           k.q.target = LrGovernor => RowMatches(i, k.q)
    PROVE  InTable(i) /\ OwnRow(i, k.q.requester) /\ i \notin lrRemoved /\ i \in LrIds
<1>1. InTable(i) /\ lrRows[i].owner = k.q.target /\ i \in LrIds
  BY DEF RowsOf
<1>2. i \notin lrRemoved
  BY <1>1 DEF LrInv, LrPast, InTable
<1>3. k.q.target \in LrOwners /\ (CheckPrincipal(k.q) \/ CheckControlPlane(k.q))
  BY DEF ReaderFits, ReaderLane
<1>4. CASE CheckPrincipal(k.q)
  BY <1>1, <1>2, <1>3, <1>4 DEF CheckPrincipal, OwnRow, LrOwners
<1>5. CASE CheckControlPlane(k.q)
  <2>1. k.q.target = LrGovernor /\ k.q.requester \in DOMAIN LrScopes /\ k.q.agent \in LrScopes[k.q.requester].agents
        /\ (LrScopes[k.q.requester].anyPrincipal \/ k.q.principal \in LrScopes[k.q.requester].principals)
    BY <1>5 DEF CheckControlPlane
  <2>2. LrNone \notin LrScopes[k.q.requester].agents /\ LrNone \notin LrScopes[k.q.requester].principals
    BY <2>1, LrAssumption
  <2>3. lrRows[i].subject.agent = k.q.agent /\ (k.q.principal # LrNone => lrRows[i].subject.principal = k.q.principal)
    BY <2>1, <2>2 DEF RowMatches
  <2>4. OwnRow(i, k.q.requester)
    BY <2>1, <2>2, <2>3, <1>1 DEF OwnRow
  <2> QED BY <1>1, <1>2, <2>4
<1> QED BY <1>3, <1>4, <1>5

LrPlaces == {"headed", "shown", "valid", "invalid"}

LEMMA ToldFields ==
    ASSUME NEW k \in LrReaderState, NEW pc \in LrPlaces, NEW got \in Seq(LrIds),
           NEW l, l = Told(k, pc, got)
    PROVE  /\ l \in LrReaderState
           /\ l.pc = pc /\ l.got = got /\ l.q = k.q /\ l.head = k.head /\ l.cursor = k.cursor /\ l.known = k.known
           /\ l.inOrder = k.inOrder /\ l.anchored = k.anchored /\ l.at = k.at
<1>1. PICK m : m = [k EXCEPT !.pc = pc]
  OBVIOUS
<1>2. /\ m \in LrReaderState /\ m.pc = pc /\ m.got = k.got /\ m.q = k.q /\ m.head = k.head /\ m.cursor = k.cursor
      /\ m.known = k.known /\ m.inOrder = k.inOrder /\ m.anchored = k.anchored /\ m.at = k.at
  BY <1>1 DEF LrReaderState, LrPlaces
<1>3. l = [m EXCEPT !.got = got]
  BY <1>1 DEF Told
<1>4. /\ l \in LrReaderState /\ l.pc = m.pc /\ l.got = got /\ l.q = m.q /\ l.head = m.head /\ l.cursor = m.cursor
      /\ l.known = m.known /\ l.inOrder = m.inOrder /\ l.anchored = m.anchored /\ l.at = m.at
  BY <1>2, <1>3 DEF LrReaderState
<1> QED BY <1>2, <1>4

\* One record is shown or judged.
LEMMA LrTells ==
    ASSUME LrInv, NEW r \in LrReaders, reader[r].pc = "checked", reader[r].q.route # "list",
           NEW i \in RowsOf(reader[r].q.target), reader[r].q.target = LrGovernor => RecordVisibleToScope(i, reader[r].q),
           NEW pc \in {"shown", "valid", "invalid"},
           reader' = [reader EXCEPT ![r] = Told(reader[r], pc, <<i>>)],
           UNCHANGED <<lrRows, lrNext, lrRemoved, anchorCache, lrAsked, lrNow>>
    PROVE  LrInv'
<1>1. PICK k : k = reader[r]
  OBVIOUS
<1>2. k \in LrReaderState /\ ReaderFits(k) /\ k.pc = "checked"
  BY <1>1, LrReaderIs
<1>3. InTable(i) /\ OwnRow(i, k.q.requester) /\ i \in LrIds
  BY <1>1, <1>2, MayShow DEF RecordVisibleToScope, RowMatches
<1>4. PICK l, g : g = <<i>> /\ l = Told(k, pc, g)
  OBVIOUS
<1>5. g \in Seq(LrIds) /\ Len(g) = 1 /\ g[1] = i /\ pc \in {"headed", "shown", "valid", "invalid"}
  BY <1>3, <1>4
<1>6. /\ l \in LrReaderState
      /\ l.pc = pc /\ l.got = g /\ l.q = k.q /\ l.head = k.head /\ l.cursor = k.cursor /\ l.known = k.known
      /\ l.inOrder = k.inOrder /\ l.anchored = k.anchored /\ l.at = k.at
  <2>1. k \in LrReaderState /\ g \in Seq(LrIds) /\ pc \in LrPlaces /\ l = Told(k, pc, g)
    BY <1>2, <1>4, <1>5 DEF LrPlaces
  <2> QED BY <2>1, ToldFields
<1>7. ReaderLane(l)
  BY <1>6 DEF ReaderLane
<1>8. ReaderSeen(l) /\ ReaderAnchored(l)
  BY <1>2, <1>6 DEF ReaderFits, ReaderSeen, ReaderAnchored
<1>9. ReaderShows(l)
  <2>1. \A n \in 1..1 : n = 1
    OBVIOUS
  <2> QED BY <2>1, <1>3, <1>5, <1>6 DEF ReaderShows
<1>10. ReaderPages(l)
  BY <1>1, <1>6 DEF ReaderPages
<1>11. ReaderOrders(l)
  BY <1>2, <1>6 DEF ReaderFits, ReaderOrders, NamesKnown
<1>12. ReaderFits(l)
  BY <1>7, <1>8, <1>9, <1>10, <1>11 DEF ReaderFits
<1> QED BY <1>1, <1>4, <1>6, <1>12, LrReaderGoesOn

LEMMA HandleGetStep == ASSUME LrInv, NEW r \in LrReaders, HandleGet(r) \/ HandleVerify(r) PROVE LrInv'
<1> DEFINE q == reader[r].q
           allowed == /\ q.record \in RowsOf(q.target) /\ q.record <= reader[r].head
                      /\ q.target = LrGovernor => RecordVisibleToScope(q.record, q)
<1>1. reader[r].pc = "checked" /\ q.route # "list"
      /\ UNCHANGED <<lrRows, lrNext, lrRemoved, anchorCache, lrAsked, lrNow>>
  BY DEF HandleGet, HandleVerify
<1>2. CASE ~allowed
  <2>1. reader' = [reader EXCEPT ![r] = IdleReader]
    BY <1>2 DEF HandleGet, HandleVerify, LrGoto
  <2> QED BY <1>1, <2>1, LrReaderEnds
<1>3. CASE allowed
  <2>1. \E pc \in {"shown", "valid", "invalid"} : reader' = [reader EXCEPT ![r] = Told(reader[r], pc, <<q.record>>)]
    BY <1>3 DEF HandleGet, HandleVerify, LrGoto
  <2> QED BY <1>1, <1>3, <2>1, LrTells
<1> QED BY <1>2, <1>3

LEMMA MaxOfIs ==
    ASSUME NEW S \in SUBSET LrIds, S # {}
    PROVE  MaxOf(S) \in S /\ MaxOf(S) \in 1..MaxLrRows /\ \A i \in S : i <= MaxOf(S)
<1>1. \A i \in LrIds : i \in 1..MaxLrRows /\ i \in 0..MaxLrRows
  BY LrBounds DEF LrIds
<1>2. S \in SUBSET (0..MaxLrRows)
  BY <1>1
<1>3. \E i \in S : \A j \in S : j <= i
  BY <1>2, LrBounds, GreatestPosition
<1>4. MaxOf(S) \in S /\ \A j \in S : j <= MaxOf(S)
  BY <1>3 DEF MaxOf
<1> QED BY <1>1, <1>4

LEMMA MaxOfType == ASSUME NEW S \in SUBSET LrIds PROVE MaxOf(S) \in 0..MaxLrRows
<1>1. CASE S = {}
  BY <1>1, LrBounds DEF MaxOf
<1>2. CASE S # {}
  BY <1>2, MaxOfIs, LrBounds
<1> QED BY <1>1, <1>2

LEMMA RowsAreThere ==
    ASSUME LrInv, NEW i \in LrIds, InTable(i)
    PROVE  i < lrNext /\ i \notin lrRemoved
<1>1. lrNext \in Nat /\ i \in Nat
  BY LrBounds DEF LrInv, LrTypeOK, LrIds
<1> QED BY <1>1 DEF LrInv, LrPast, InTable

\* Before the first page every row is after the cursor.
LEMMA FirstPage == ASSUME LrTable, NEW i \in LrIds PROVE AfterPage(i, NoCursor)
<1>1. lrRows[i].at \in Nat /\ i \in Nat \ {0}
  BY StampsAre, LrBounds DEF LrIds
<1> QED BY <1>1 DEF AfterPage, NoCursor

\* A business head is read: the snapshot holds what the table holds.
LEMMA LedgerHeadStep ==
    ASSUME LrInv, NEW r \in LrReaders, NEW q \in LrQueries, NEW start \in 0..1, LedgerHead(r, q, start)
    PROVE  LrInv'
<1> DEFINE a == q.target
<1>1. PICK S, K, h : S = RowsOf(a) /\ K = {i \in RowsOf(a) : RowMatches(i, q)} /\ h = MaxOf(RowsOf(a))
  OBVIOUS
<1>2. S # {} /\ a # LrGovernor /\ S \in SUBSET LrIds /\ K \subseteq S
  BY <1>1 DEF LedgerHead, RowsOf
<1>3. h \in S /\ h \in 0..MaxLrRows /\ \A i \in S : i <= h
  BY <1>1, <1>2, MaxOfIs, LrBounds
<1>4. PICK o \in BOOLEAN : o = StampsFollowIds(a)
  BY DEF StampsFollowIds
<1>5. PICK k : k = [pc |-> "headed", q |-> q, head |-> h, cursor |-> NoCursor, got |-> <<>>, known |-> K, inOrder |-> o,
                    start |-> start, anchored |-> NoAnchor, at |-> 0]
  OBVIOUS
<1>6. NoCursor \in [at : 0..MaxLrTime, id : 0..MaxLrRows] /\ NoAnchor \in LrAnchor /\ <<>> \in Seq(LrIds)
  BY LrBounds DEF NoCursor, NoAnchor, LrAnchor
<1>7. /\ k \in LrReaderState
      /\ k.pc = "headed" /\ k.q = q /\ k.head = h /\ k.cursor = NoCursor /\ k.got = <<>> /\ k.known = K /\ k.inOrder = o
      /\ k.anchored = NoAnchor
  <2> HIDE DEF NoCursor, NoAnchor
  <2>1. 0 \in 0..MaxLrTime /\ K \in SUBSET LrIds
    BY <1>2, LrBounds
  <2> QED BY <1>3, <1>5, <1>6, <2>1 DEF LrReaderState
<1>8. reader' = [reader EXCEPT ![r] = k] /\ lrAsked' = lrAsked + 1 /\ lrAsked < MaxLrAsked
      /\ UNCHANGED <<lrRows, lrNext, lrRemoved, anchorCache, lrNow>>
  BY <1>1, <1>4, <1>5 DEF LedgerHead, LrGoto
<1>9. lrAsked' \in 0..MaxLrAsked
  BY <1>8, LrAssumption DEF LrInv, LrTypeOK
<1>10. LrTable /\ LrIds \subseteq Nat
  BY LrBounds DEF LrInv, LrTypeOK, LrTable, LrIds
<1>11. \A i \in S : InTable(i) /\ lrRows[i].owner = a /\ i \in LrIds /\ i < lrNext /\ i \notin lrRemoved
  BY <1>1, RowsAreThere DEF RowsOf
<1>12. ReaderLane(k)
  BY <1>7 DEF ReaderLane
<1>13. ReaderSeen(k)
  BY <1>1, <1>3, <1>7, <1>11 DEF ReaderSeen
<1>14. Len(<<>>) = 0 /\ 1..0 = {}
  OBVIOUS
<1>15. ReaderShows(k)
  BY <1>7, <1>14 DEF ReaderShows
<1>16. ReaderPages(k)
  <2>1. \A i \in K : AfterPage(i, NoCursor)
    BY <1>2, <1>10, FirstPage
  <2> QED BY <2>1, <1>7, <1>14 DEF ReaderPages
<1>17. ReaderAnchored(k)
  BY <1>7 DEF ReaderAnchored
<1>18. ReaderOrders(k)
  <2> SUFFICES ASSUME o = TRUE PROVE ReaderOrders(k)
    BY <1>7 DEF ReaderOrders
  <2>1. \A i, j \in S : i < j => lrRows[i].at <= lrRows[j].at
    BY <1>1, <1>4 DEF StampsFollowIds
  <2>2. \A i \in S : lrRows[i].subject = NoSubject
    BY <1>2, <1>11 DEF LrInv, LrPast, InTable
  <2>3. \A i, j \in S : RowMatches(i, q) => RowMatches(j, q)
    BY <2>2 DEF RowMatches
  <2>4. K # {} => K = S
    BY <2>3, <1>1
  <2>5. \A i \in LrIds : IsRecord(i) /\ lrRows[i].owner = a => i \in S
    BY <1>1 DEF IsRecord, RowsOf
  <2>6. ASSUME NEW i \in K, NEW j \in K, i < j, lrRows[j].kind = "record", i \in lrRemoved \/ lrRows[i].kind = "record"
        PROVE  NamesKnown(k, i, j)
    <3>1. IsRecord(i) /\ IsRecord(j) /\ lrRows[i].owner = lrRows[j].owner /\ i \in LrIds /\ j \in LrIds
      BY <2>6, <1>2, <1>11 DEF IsRecord
    <3>2. NamesAtLeast(j, i)
      BY <2>6, <3>1 DEF LrInv, LrLinked
    <3> DEFINE p == lrRows[j].prev
    <3>3. p # 0
      BY <3>2 DEF NamesAtLeast
    <3>4. CASE p \in lrRemoved
      BY <3>3, <3>4 DEF NamesKnown
    <3>5. CASE p \notin lrRemoved
      <4>1. p \in LrIds /\ InTable(p) /\ p < j /\ lrRows[p].owner = lrRows[j].owner /\ (p = i \/ StampedBefore(i, p))
        BY <3>2, <3>5 DEF NamesAtLeast
      <4>2. p \in S
        BY <4>1, <1>1, <1>2, <1>11 DEF RowsOf
      <4>3. p \in K
        BY <4>2, <2>4
      <4> HIDE DEF p
      <4>4. i <= p
        <5> SUFFICES ASSUME ~(i <= p) PROVE FALSE
          OBVIOUS
        <5>1. p < i /\ p # i
          BY <4>1, <3>1, <1>10
        <5>2. lrRows[p].at <= lrRows[i].at
          BY <5>1, <4>2, <1>2, <2>1
        <5>3. lrRows[p].at \in Nat /\ lrRows[i].at \in Nat /\ p \in Nat /\ i \in Nat
          BY <4>1, <3>1, <1>10, StampsAre, LrBounds
        <5>4. lrRows[i].at < lrRows[p].at \/ (lrRows[i].at = lrRows[p].at /\ i < p)
          BY <4>1, <5>1 DEF StampedBefore
        <5> QED BY <5>1, <5>2, <5>3, <5>4
      <4> QED BY <3>3, <4>1, <4>3, <4>4, <1>7 DEF NamesKnown, p
    <3> QED BY <3>4, <3>5
  <2>7. k.known # {} => k.head \in k.known
    BY <2>4, <1>3, <1>7
  <2>8. k.known # {} => \A i \in LrIds : IsRecord(i) /\ lrRows[i].owner = k.q.target /\ i <= k.head => i \in k.known
    BY <2>4, <2>5, <1>7
  <2>9. \A i, j \in k.known : i < j /\ i \notin lrRemoved /\ j \notin lrRemoved => lrRows[i].at <= lrRows[j].at
    BY <2>1, <1>2, <1>7
  <2>10. \A i, j \in k.known :
            (i < j /\ j \notin lrRemoved /\ lrRows[j].kind = "record" /\ (i \in lrRemoved \/ lrRows[i].kind = "record"))
            => NamesKnown(k, i, j)
    BY <2>6, <1>7
  <2> QED BY <2>7, <2>8, <2>9, <2>10, <1>2, <1>7 DEF ReaderOrders
<1>19. ReaderFits(k)
  BY <1>12, <1>13, <1>15, <1>16, <1>17, <1>18 DEF ReaderFits
<1>20. \A s \in LrReaders : Apart(k, reader[s])
  BY <1>7 DEF Apart
<1> QED BY <1>7, <1>8, <1>9, <1>19, <1>20, LrReaderMoves

\* A signed question has nothing to show yet.
LEMMA AskingFits ==
    ASSUME LrInv, NEW q \in LrQueries, CheckControlPlane(q), NEW pc \in {"anchor", "head"}, NEW anchored \in LrAnchor,
           NEW k, k = Asking(pc, q, anchored)
    PROVE  /\ k \in LrReaderState /\ k.q = q /\ k.anchored = anchored /\ k.at = lrNow
           /\ ReaderLane(k) /\ ReaderSeen(k) /\ ReaderShows(k) /\ ReaderPages(k) /\ ReaderOrders(k)
<1>1. NoCursor \in [at : 0..MaxLrTime, id : 0..MaxLrRows] /\ <<>> \in Seq(LrIds) /\ {} \in SUBSET LrIds
  BY LrBounds DEF NoCursor
<1>2. lrNow \in 0..MaxLrTime /\ lrNext \in Nat \ {0} /\ 0 \in 0..MaxLrRows
  BY LrBounds DEF LrInv, LrTypeOK
<1>3. /\ k \in LrReaderState
      /\ k.pc = pc /\ k.q = q /\ k.head = 0 /\ k.cursor = NoCursor /\ k.got = <<>> /\ k.known = {} /\ k.inOrder = FALSE
      /\ k.anchored = anchored /\ k.at = lrNow
  <2> HIDE DEF NoCursor
  <2> QED BY <1>1, <1>2 DEF Asking, LrReaderState
<1>4. Len(<<>>) = 0 /\ 1..0 = {}
  OBVIOUS
<1>5. ReaderLane(k)
  BY <1>3 DEF ReaderLane
<1>6. ReaderSeen(k)
  BY <1>2, <1>3 DEF ReaderSeen
<1>7. ReaderShows(k) /\ ReaderPages(k)
  BY <1>3, <1>4 DEF ReaderShows, ReaderPages
<1>8. ReaderOrders(k)
  BY <1>3 DEF ReaderOrders
<1> QED BY <1>3, <1>5, <1>6, <1>7, <1>8

\* The cached anchor, given now, agrees with every other or finds it expired.
LEMMA CachedApart ==
    ASSUME LrInv, NEW s \in LrReaders, NEW k, k.at = lrNow, k.anchored = anchorCache[k.q], k.q \in LrQueries
    PROVE  Apart(k, reader[s])
<1> SUFFICES ASSUME k.q = reader[s].q, reader[s].anchored # NoAnchor
             PROVE  k.anchored = reader[s].anchored \/ reader[s].anchored.expires <= k.at
  BY DEF Apart
<1>1. reader[s] \in LrReaderState /\ ReaderAnchored(reader[s])
  BY LrReaderIs DEF ReaderFits
<1>2. reader[s].anchored.expires \in Nat /\ lrNow \in Nat /\ anchorCache[k.q].expires \in Nat
  <2>1. reader[s].anchored \in LrAnchor /\ anchorCache[k.q] \in LrAnchor
    BY <1>1, ReaderFields DEF LrInv, LrTypeOK
  <2> QED BY <2>1, LrBounds DEF LrAnchor, LrInv, LrTypeOK
<1>3. anchorCache[k.q].expires <= lrNow + AnchorTtl
  BY DEF LrInv, LrCached
<1>4. \/ reader[s].anchored = anchorCache[k.q]
      \/ reader[s].anchored.expires + AnchorTtl <= anchorCache[k.q].expires
  BY <1>1 DEF ReaderAnchored
<1> QED BY <1>2, <1>3, <1>4, LrBounds

LEMMA SignedLedgerHeadStep ==
    ASSUME LrInv, NEW r \in LrReaders, NEW q \in LrQueries, SignedLedgerHead(r, q)
    PROVE  LrInv'
<1>1. /\ CheckControlPlane(q) /\ lrAsked < MaxLrAsked /\ lrAsked' = lrAsked + 1
      /\ UNCHANGED <<lrRows, lrNext, lrRemoved, anchorCache, lrNow>>
  BY DEF SignedLedgerHead
<1>2. lrAsked' \in 0..MaxLrAsked /\ anchorCache[q] \in LrAnchor /\ NoAnchor \in LrAnchor
  BY <1>1, LrAssumption DEF LrInv, LrTypeOK, LrAnchor, NoAnchor
<1>3. CASE AnchorAlive(q)
  <2>1. PICK k : k = Asking("head", q, anchorCache[q])
    OBVIOUS
  <2>2. /\ k \in LrReaderState /\ k.q = q /\ k.anchored = anchorCache[q] /\ k.at = lrNow
        /\ ReaderLane(k) /\ ReaderSeen(k) /\ ReaderShows(k) /\ ReaderPages(k) /\ ReaderOrders(k)
    BY <1>1, <1>2, <2>1, AskingFits
  <2>3. ReaderFits(k)
    BY <2>2 DEF ReaderFits, ReaderAnchored
  <2>4. \A s \in LrReaders : Apart(k, reader[s])
    BY <2>2, CachedApart
  <2>5. reader' = [reader EXCEPT ![r] = k]
    BY <2>1, <1>3 DEF SignedLedgerHead, LrGoto
  <2> QED BY <1>1, <1>2, <2>2, <2>3, <2>4, <2>5, LrReaderMoves
<1>4. CASE ~AnchorAlive(q)
  <2>1. PICK k : k = Asking("anchor", q, NoAnchor)
    OBVIOUS
  <2>2. /\ k \in LrReaderState /\ k.q = q /\ k.anchored = NoAnchor
        /\ ReaderLane(k) /\ ReaderSeen(k) /\ ReaderShows(k) /\ ReaderPages(k) /\ ReaderOrders(k)
    BY <1>1, <1>2, <2>1, AskingFits
  <2>3. ReaderFits(k)
    BY <2>2 DEF ReaderFits, ReaderAnchored
  <2>4. \A s \in LrReaders : Apart(k, reader[s])
    BY <2>2 DEF Apart
  <2>5. reader' = [reader EXCEPT ![r] = k]
    BY <2>1, <1>4 DEF SignedLedgerHead, LrGoto
  <2> QED BY <1>1, <1>2, <2>2, <2>3, <2>4, <2>5, LrReaderMoves
<1> QED BY <1>3, <1>4

\* Another request may have cached an anchor meanwhile: it is used, and a dead one is replaced.
LEMMA CacheAnchorStep == ASSUME LrInv, NEW r \in LrReaders, CacheAnchor(r) PROVE LrInv'
<1>1. PICK q, h, c : q = reader[r].q /\ h = reader[r].head /\ c = GetOrCacheAnchor(q, h)
  OBVIOUS
<1>2. reader[r] \in LrReaderState /\ ReaderFits(reader[r]) /\ reader[r].pc = "anchor" /\ h # 0
  BY <1>1, LrReaderIs DEF CacheAnchor
<1>3. q \in LrQueries /\ h \in 0..MaxLrRows /\ CheckControlPlane(q)
  BY <1>1, <1>2, ReaderFields DEF ReaderFits, ReaderLane
<1>4. /\ anchorCache' = [anchorCache EXCEPT ![q] = c]
      /\ reader' = [reader EXCEPT ![r] = Asking("head", q, c)]
      /\ UNCHANGED <<lrRows, lrNext, lrRemoved, lrAsked, lrNow>>
  BY <1>1 DEF CacheAnchor, LrGoto
<1>5. anchorCache \in [LrQueries -> LrAnchor] /\ lrNow \in 0..MaxLrTime /\ lrNow \in Nat
  BY DEF LrInv, LrTypeOK
<1>6. CASE AnchorAlive(q)
  <2>1. c = anchorCache[q]
    BY <1>1, <1>6 DEF GetOrCacheAnchor
  <2>2. anchorCache' = anchorCache
    BY <2>1, <1>3, <1>4, <1>5
  <2>3. PICK k : k = Asking("head", q, c)
    OBVIOUS
  <2>4. /\ k \in LrReaderState /\ k.q = q /\ k.anchored = anchorCache[q] /\ k.at = lrNow
        /\ ReaderLane(k) /\ ReaderSeen(k) /\ ReaderShows(k) /\ ReaderPages(k) /\ ReaderOrders(k)
    BY <1>3, <1>5, <2>1, <2>3, AskingFits
  <2>5. ReaderFits(k)
    BY <2>4 DEF ReaderFits, ReaderAnchored
  <2>6. \A s \in LrReaders : Apart(k, reader[s])
    BY <2>4, <1>3, CachedApart
  <2>7. lrAsked' \in 0..MaxLrAsked
    BY <1>4 DEF LrInv, LrTypeOK
  <2> QED BY <1>4, <2>2, <2>3, <2>4, <2>5, <2>6, <2>7, LrReaderMoves
<1>7. CASE ~AnchorAlive(q)
  <2>1. PICK e : e = lrNow + AnchorTtl
    OBVIOUS
  <2>2. c = [anchor |-> h, expires |-> e] /\ e \in 0..(MaxLrTime + AnchorTtl) /\ e \in Nat
    BY <1>1, <1>5, <1>7, <2>1, LrBounds DEF GetOrCacheAnchor
  <2>3. c \in LrAnchor /\ c.anchor = h /\ c.expires = e
    BY <2>2, <1>3 DEF LrAnchor
  <2>4. anchorCache'[q] = c /\ (\A p \in LrQueries : p # q => anchorCache'[p] = anchorCache[p])
        /\ anchorCache' \in [LrQueries -> LrAnchor]
    BY <1>3, <1>4, <1>5, <2>3
  <2>5. PICK k : k = Asking("head", q, c)
    OBVIOUS
  <2>6. /\ k \in LrReaderState /\ k.q = q /\ k.anchored = c /\ k.at = lrNow
        /\ ReaderLane(k) /\ ReaderSeen(k) /\ ReaderShows(k) /\ ReaderPages(k) /\ ReaderOrders(k)
    BY <1>3, <2>3, <2>5, AskingFits
  <2>7. reader \in [LrReaders -> LrReaderState] /\ reader' = [reader EXCEPT ![r] = k]
    BY <1>4, <2>5 DEF LrInv, LrTypeOK
  <2>8. reader'[r] = k /\ (\A s \in LrReaders : s # r => reader'[s] = reader[s]) /\ reader' \in [LrReaders -> LrReaderState]
    BY <2>6, <2>7
  <2>9. ASSUME NEW s \in LrReaders, reader[s].q = q, reader[s].anchored # NoAnchor
        PROVE  reader[s].anchored.expires <= lrNow
    <3>1. reader[s] \in LrReaderState /\ ReaderAnchored(reader[s])
      BY LrReaderIs DEF ReaderFits
    <3>2. reader[s].anchored \in LrAnchor /\ anchorCache[q] \in LrAnchor
      BY <3>1, <1>3, <1>5, ReaderFields
    <3>3. reader[s].anchored.expires \in Nat /\ anchorCache[q].expires \in Nat
      BY <3>2, LrBounds DEF LrAnchor
    <3>4. anchorCache[q].expires <= lrNow + AnchorTtl /\ (anchorCache[q].anchor = 0 => anchorCache[q] = NoAnchor)
      BY <1>3 DEF LrInv, LrCached
    <3>5. CASE reader[s].anchored = anchorCache[q]
      <4>1. anchorCache[q].anchor # 0
        BY <2>9, <3>4, <3>5
      <4>2. ~(lrNow < anchorCache[q].expires)
        BY <1>7, <4>1 DEF AnchorAlive
      <4> QED BY <3>3, <3>5, <4>2, <1>5
    <3>6. CASE reader[s].anchored.expires + AnchorTtl <= anchorCache[q].expires
      BY <3>3, <3>4, <3>6, <1>5, LrBounds
    <3> QED BY <3>1, <3>5, <3>6, <2>9 DEF ReaderAnchored
  <2>10. LrTypeOK'
    BY <1>4, <2>4, <2>8 DEF LrInv, LrTypeOK
  <2>11. LrPast' /\ LrLinked'
    BY <1>4 DEF LrInv, LrPast, LrLinked, IsRecord, InTable, NamesAtLeast, StampedBefore
  <2>12. LrCached'
    <3> SUFFICES ASSUME NEW p \in LrQueries
                 PROVE  anchorCache'[p].expires <= lrNow' + AnchorTtl /\ (anchorCache'[p].anchor = 0 => anchorCache'[p] = NoAnchor)
      BY DEF LrCached
    <3>1. CASE p = q
      BY <3>1, <1>2, <1>4, <1>5, <2>1, <2>2, <2>3, <2>4, LrBounds
    <3>2. CASE p # q
      BY <3>2, <1>4, <2>4 DEF LrInv, LrCached
    <3> QED BY <3>1, <3>2
  <2>13. ASSUME NEW l \in LrReaderState, ReaderLane(l), ReaderSeen(l), ReaderShows(l), ReaderPages(l), ReaderOrders(l)
         PROVE  ReaderLane(l)' /\ ReaderSeen(l)' /\ ReaderShows(l)' /\ ReaderPages(l)' /\ ReaderOrders(l)'
    <3>1. ReaderLane(l)' /\ ReaderSeen(l)'
      BY <2>13, <1>4 DEF ReaderLane, ReaderSeen, CheckControlPlane, CheckPrincipal, InTable, RowMatches
    <3>2. ReaderShows(l)' /\ ReaderPages(l)'
      BY <2>13, <1>4 DEF ReaderShows, ReaderPages, InTable, OwnRow, AfterPage
    <3>3. ReaderOrders(l)'
      BY <2>13, <1>4 DEF ReaderOrders, NamesKnown, IsRecord, InTable
    <3> QED BY <3>1, <3>2, <3>3
  <2>14. ReadersFit'
    <3> SUFFICES ASSUME NEW s \in LrReaders, NEW l, reader'[s] = l PROVE ReaderFits(l)'
      BY DEF ReadersFit
    <3>1. CASE s = r
      <4>1. l = k
        BY <3>1, <2>8
      <4>2. ReaderAnchored(k)'
        BY <2>4, <2>6 DEF ReaderAnchored
      <4> QED BY <4>1, <4>2, <2>6, <2>13 DEF ReaderFits
    <3>2. CASE s # r
      <4>1. l = reader[s] /\ l \in LrReaderState /\ ReaderFits(l)
        BY <3>2, <2>8, LrReaderIs
      <4>2. ReaderAnchored(l)'
        <5> SUFFICES ASSUME l.anchored # NoAnchor
                     PROVE  l.anchored = anchorCache'[l.q] \/ l.anchored.expires + AnchorTtl <= anchorCache'[l.q].expires
          BY DEF ReaderAnchored
        <5>1. CASE l.q = q
          <6>1. l.anchored.expires <= lrNow
            BY <2>9, <4>1, <5>1
          <6>2. l.anchored.expires \in Nat
            <7>1. l.anchored \in LrAnchor
              BY <4>1, ReaderFields
            <7> QED BY <7>1, LrBounds DEF LrAnchor
          <6>3. anchorCache'[l.q].expires = lrNow + AnchorTtl
            BY <5>1, <2>1, <2>3, <2>4
          <6> QED BY <6>1, <6>2, <6>3, <1>5, LrBounds
        <5>2. CASE l.q # q
          <6>1. anchorCache'[l.q] = anchorCache[l.q]
            BY <5>2, <2>4, <4>1, ReaderFields
          <6> QED BY <6>1, <4>1 DEF ReaderFits, ReaderAnchored
        <5> QED BY <5>1, <5>2
      <4> QED BY <4>1, <4>2, <2>13 DEF ReaderFits
    <3> QED BY <3>1, <3>2
  <2>15. ReadersApart'
    <3> SUFFICES ASSUME NEW s \in LrReaders, NEW t \in LrReaders PROVE Apart(reader'[s], reader'[t])
      BY DEF ReadersApart, Apart
    <3>1. \A u \in LrReaders : Apart(k, reader[u]) /\ Apart(reader[u], k)
      BY <2>6, <2>9 DEF Apart
    <3>2. Apart(k, k)
      BY DEF Apart
    <3>3. Apart(reader[s], reader[t])
      BY DEF LrInv, ReadersApart
    <3> QED BY <3>1, <3>2, <3>3, <2>8
  <2> QED BY <2>10, <2>11, <2>12, <2>14, <2>15 DEF LrInv
<1> QED BY <1>6, <1>7

LEMMA SelectMaxIdStep == ASSUME LrInv, NEW r \in LrReaders, SelectMaxId(r) PROVE LrInv'
<1>1. PICK k, n : k = reader[r] /\ n = MaxOf(SubjectRows(reader[r].q))
  OBVIOUS
<1>2. k \in LrReaderState /\ ReaderFits(k) /\ k.pc = "anchor"
  BY <1>1, LrReaderIs DEF SelectMaxId
<1>3. CASE n = 0
  BY <1>1, <1>3, LrReaderEnds DEF SelectMaxId, LrGoto
<1>4. CASE n # 0
  <2>1. SubjectRows(reader[r].q) \in SUBSET LrIds
    BY DEF SubjectRows, RowsOf
  <2>2. n \in SubjectRows(reader[r].q) /\ n \in 0..MaxLrRows
    <3>1. SubjectRows(reader[r].q) # {}
      BY <1>1, <1>4 DEF MaxOf
    <3> QED BY <1>1, <2>1, <3>1, MaxOfIs, LrBounds
  <2>3. n < lrNext
    BY <2>2, RowsAreThere DEF SubjectRows, RowsOf
  <2>4. PICK l : l = [k EXCEPT !.head = n]
    OBVIOUS
  <2>5. /\ l.q = k.q /\ l.head = n /\ l.cursor = k.cursor /\ l.got = k.got /\ l.known = k.known
        /\ l.inOrder = k.inOrder /\ l.anchored = k.anchored /\ l.at = k.at /\ l.pc = k.pc /\ l \in LrReaderState
    BY <1>2, <2>2, <2>4 DEF LrReaderState
  <2>6. k.got = <<>> /\ k.known = {} /\ k.inOrder = FALSE
    BY <1>2 DEF ReaderFits, ReaderLane
  <2>7. ReaderLane(l) /\ ReaderAnchored(l)
    BY <1>2, <2>5 DEF ReaderFits, ReaderLane, ReaderAnchored
  <2>8. ReaderSeen(l) /\ ReaderOrders(l)
    BY <2>3, <2>5, <2>6 DEF ReaderSeen, ReaderOrders
  <2>9. ReaderShows(l) /\ ReaderPages(l)
    <3>1. Len(<<>>) = 0 /\ 1..0 = {}
      OBVIOUS
    <3> QED BY <2>5, <2>6, <3>1 DEF ReaderShows, ReaderPages
  <2>10. ReaderFits(l)
    BY <2>7, <2>8, <2>9 DEF ReaderFits
  <2>11. reader' = [reader EXCEPT ![r] = l] /\ UNCHANGED <<lrRows, lrNext, lrRemoved, anchorCache, lrAsked, lrNow>>
    BY <1>1, <1>4, <2>4 DEF SelectMaxId, LrGoto
  <2> QED BY <1>1, <2>5, <2>10, <2>11, LrReaderGoesOn
<1> QED BY <1>3, <1>4

LEMMA AtHeadFields ==
    ASSUME NEW k \in LrReaderState, NEW head \in 0..MaxLrRows, NEW known \in SUBSET LrIds, NEW l, l = AtHead(k, head, known)
    PROVE  /\ l \in LrReaderState
           /\ l.pc = "headed" /\ l.got = k.got /\ l.q = k.q /\ l.head = head /\ l.cursor = k.cursor /\ l.known = known
           /\ l.inOrder = k.inOrder /\ l.anchored = k.anchored /\ l.at = k.at
<1>1. PICK m : m = [k EXCEPT !.pc = "headed"]
  OBVIOUS
<1>2. /\ m \in LrReaderState /\ m.pc = "headed" /\ m.got = k.got /\ m.q = k.q /\ m.cursor = k.cursor
      /\ m.inOrder = k.inOrder /\ m.anchored = k.anchored /\ m.at = k.at
  BY <1>1 DEF LrReaderState
<1>3. PICK n : n = [m EXCEPT !.head = head]
  OBVIOUS
<1>4. /\ n \in LrReaderState /\ n.pc = m.pc /\ n.got = m.got /\ n.q = m.q /\ n.head = head /\ n.cursor = m.cursor
      /\ n.inOrder = m.inOrder /\ n.anchored = m.anchored /\ n.at = m.at
  BY <1>2, <1>3 DEF LrReaderState
<1>5. l = [n EXCEPT !.known = known]
  BY <1>1, <1>3 DEF AtHead
<1>6. /\ l \in LrReaderState /\ l.pc = n.pc /\ l.got = n.got /\ l.q = n.q /\ l.head = n.head /\ l.cursor = n.cursor
      /\ l.known = known /\ l.inOrder = n.inOrder /\ l.anchored = n.anchored /\ l.at = n.at
  BY <1>4, <1>5 DEF LrReaderState
<1> QED BY <1>2, <1>4, <1>6

LEMMA SelectHeadStep == ASSUME LrInv, NEW r \in LrReaders, SelectHead(r) PROVE LrInv'
<1>1. PICK k, K : k = reader[r] /\ K = {i \in SubjectRows(reader[r].q) : i <= reader[r].anchored.anchor}
  OBVIOUS
<1>2. k \in LrReaderState /\ ReaderFits(k) /\ k.pc = "head"
  BY <1>1, LrReaderIs DEF SelectHead
<1>3. CASE K = {}
  BY <1>1, <1>3, LrReaderEnds DEF SelectHead, LrGoto
<1>4. CASE K # {}
  <2>1. K \in SUBSET LrIds
    BY <1>1 DEF SubjectRows, RowsOf
  <2>2. PICK h : h = MaxOf(K)
    OBVIOUS
  <2>3. h \in K /\ h \in 0..MaxLrRows /\ \A i \in K : i <= h
    BY <1>4, <2>1, <2>2, MaxOfIs, LrBounds
  <2>4. \A i \in K : InTable(i) /\ lrRows[i].owner = LrGovernor /\ RowMatches(i, k.q) /\ i < lrNext
    BY <1>1, <2>1, RowsAreThere DEF SubjectRows, RowsOf
  <2>5. k.q.target = LrGovernor /\ k.got = <<>> /\ k.cursor = NoCursor /\ k.inOrder = FALSE
    BY <1>2 DEF ReaderFits, ReaderLane, CheckControlPlane
  <2>6. PICK l : l = AtHead(k, h, K)
    OBVIOUS
  <2>7. /\ l \in LrReaderState
        /\ l.pc = "headed" /\ l.got = k.got /\ l.q = k.q /\ l.head = h /\ l.cursor = k.cursor /\ l.known = K
        /\ l.inOrder = k.inOrder /\ l.anchored = k.anchored /\ l.at = k.at
    BY <1>2, <2>1, <2>3, <2>6, AtHeadFields
  <2>8. ReaderLane(l) /\ ReaderAnchored(l)
    BY <1>2, <2>7 DEF ReaderFits, ReaderLane, ReaderAnchored
  <2>9. ReaderSeen(l) /\ ReaderOrders(l)
    <3>1. l.head < lrNext
      BY <2>3, <2>4, <2>7
    <3>2. \A i \in l.known : i <= l.head /\ InTable(i) /\ lrRows[i].owner = l.q.target /\ RowMatches(i, l.q)
      <4> SUFFICES ASSUME NEW i \in K PROVE i <= l.head /\ InTable(i) /\ lrRows[i].owner = l.q.target /\ RowMatches(i, l.q)
        BY <2>7
      <4>1. RowMatches(i, l.q)
        BY <2>4, <2>7
      <4> QED BY <4>1, <2>3, <2>4, <2>5, <2>7
    <3>3. ReaderOrders(l)
      BY <2>5, <2>7 DEF ReaderOrders
    <3> QED BY <3>1, <3>2, <3>3 DEF ReaderSeen
  <2>10. ReaderShows(l) /\ ReaderPages(l)
    <3>1. Len(<<>>) = 0 /\ 1..0 = {}
      OBVIOUS
    <3>2. LrTable
      BY DEF LrInv, LrTypeOK, LrTable
    <3>3. \A i \in K : AfterPage(i, NoCursor)
      BY <2>1, <3>2, FirstPage
    <3> QED BY <2>5, <2>7, <3>1, <3>3 DEF ReaderShows, ReaderPages
  <2>11. ReaderFits(l)
    BY <2>8, <2>9, <2>10 DEF ReaderFits
  <2>12. reader' = [reader EXCEPT ![r] = l] /\ UNCHANGED <<lrRows, lrNext, lrRemoved, anchorCache, lrAsked, lrNow>>
    BY <1>1, <1>4, <2>2, <2>6 DEF SelectHead, LrGoto
  <2> QED BY <1>1, <2>7, <2>11, <2>12, LrReaderGoesOn
<1> QED BY <1>3, <1>4

\* The rows a page is taken from, the page, and what was shown with it.
ListRows(k) == {i \in RowsOf(k.q.target) : i <= k.head /\ RowMatches(i, k.q) /\ AfterPage(i, k.cursor)}
PageUpTo(s, n) == SubSeq(s, 1, n)
ShownWith(got, page) == got \o page

\* A page: its rows are after the cursor, in order, and the rows it leaves are after its last one.
LEMMA PageIs ==
    ASSUME LrTable, NEW S \in SUBSET LrIds, NEW s, s = SortRows(S), NEW n \in Nat, n <= Len(s)
    PROVE  /\ PageUpTo(s, n) \in Seq(LrIds) /\ Len(PageUpTo(s, n)) = n
           /\ \A i \in 1..n : PageUpTo(s, n)[i] = s[i] /\ s[i] \in S
           /\ \A i, j \in 1..n : i # j => s[i] # s[j]
<1>1. /\ s \in Seq(S) /\ Len(s) \in Nat /\ \A i \in 1..Len(s) : s[i] \in S
      /\ \A i, j \in 1..Len(s) : i < j => StampedBefore(s[i], s[j])
  BY SortRowsIs
<1>2. \A i \in 1..n : i \in 1..Len(s) /\ s[i] \in S /\ s[i] \in LrIds
  BY <1>1
<1>3. SubSeq(s, 1, n) \in Seq(LrIds) /\ Len(SubSeq(s, 1, n)) = n /\ \A i \in 1..n : SubSeq(s, 1, n)[i] = s[i]
  <2>1. /\ SubSeq(s, 1, n) \in Seq(LrIds) /\ Len(SubSeq(s, 1, n)) = (IF 1 <= n THEN n - 1 + 1 ELSE 0)
        /\ \A i \in 1..(n - 1 + 1) : SubSeq(s, 1, n)[i] = s[1 + i - 1]
    BY <1>2, SubSeqProperties
  <2>2. n - 1 + 1 = n /\ (IF 1 <= n THEN n - 1 + 1 ELSE 0) = n /\ \A i \in 1..n : 1 + i - 1 = i
    OBVIOUS
  <2> QED BY <2>1, <2>2
<1>4. ASSUME NEW i \in 1..n, NEW j \in 1..n, i # j PROVE s[i] # s[j]
  <2>1. i < j \/ j < i
    BY <1>4
  <2>2. StampedBefore(s[i], s[j]) \/ StampedBefore(s[j], s[i])
    BY <1>1, <1>2, <2>1
  <2> QED BY <1>2, <2>2, StampsOrder
<1> QED BY <1>2, <1>3, <1>4 DEF PageUpTo

Among(i, got) == \E n \in 1..Len(got) : got[n] = i
PageJoins(k, page, got) ==
    /\ got \in Seq(LrIds)
    /\ \A n \in 1..Len(got) : got[n] <= k.head
    /\ \A n \in 1..Len(got) : got[n] \in lrRemoved \/ (InTable(got[n]) /\ OwnRow(got[n], k.q.requester))
    /\ \A m, n \in 1..Len(got) : m # n => got[m] # got[n]
    /\ \A n \in 1..Len(got) : Among(got[n], k.got) \/ Among(got[n], page)
    /\ \A m \in 1..Len(k.got) : Among(k.got[m], got)
    /\ \A m \in 1..Len(page) : Among(page[m], got)

\* A page is added to what was shown.
LEMMA PageShown ==
    ASSUME LrInv, NEW k \in LrReaderState, ReaderFits(k), k.pc = "checked", k.q.route = "list",
           NEW S, S = ListRows(k),
           NEW page \in Seq(LrIds), \A n \in 1..Len(page) : page[n] \in S,
           \A m, n \in 1..Len(page) : m # n => page[m] # page[n],
           NEW got, got = ShownWith(k.got, page)
    PROVE  PageJoins(k, page, got)
<1> DEFINE a == Len(k.got)
           b == Len(page)
<1>1. k.got \in Seq(LrIds) /\ a \in Nat /\ b \in Nat
  BY ReaderFields
<1>2. got \in Seq(LrIds) /\ Len(got) = a + b /\ \A i \in 1..(a + b) : got[i] = IF i <= a THEN k.got[i] ELSE page[i - a]
  BY <1>1, ConcatProperties DEF ShownWith
<1>3. \A i \in 1..a : i \in 1..(a + b) /\ got[i] = k.got[i]
  BY <1>1, <1>2
<1>4. \A i \in 1..b : i + a \in 1..(a + b) /\ got[i + a] = page[i]
  <2> SUFFICES ASSUME NEW i \in 1..b PROVE i + a \in 1..(a + b) /\ got[i + a] = page[i]
    OBVIOUS
  <2> HIDE DEF a, b
  <2>1. i + a \in 1..(a + b) /\ ~(i + a <= a) /\ (i + a) - a = i
    BY <1>1
  <2> QED BY <2>1, <1>2
<1>5. \A n \in 1..(a + b) : (n \in 1..a /\ got[n] = k.got[n]) \/ (n - a \in 1..b /\ got[n] = page[n - a])
  BY <1>1, <1>2
<1>6. \A m \in 1..a : k.got[m] <= k.head
                      /\ (k.got[m] \in lrRemoved \/ (InTable(k.got[m]) /\ OwnRow(k.got[m], k.q.requester)))
                      /\ (k.got[m] \in lrRemoved \/ ~AfterPage(k.got[m], k.cursor))
  BY DEF ReaderFits, ReaderShows, ReaderPages
<1>7. \A m, n \in 1..a : m # n => k.got[m] # k.got[n]
  BY DEF ReaderFits, ReaderPages
<1>8. \A i \in S : i <= k.head /\ AfterPage(i, k.cursor) /\ InTable(i) /\ OwnRow(i, k.q.requester) /\ i \notin lrRemoved
  BY MayShow DEF ListRows
<1>9. \A m \in 1..b : page[m] \in S
  OBVIOUS
<1>10. \A m \in 1..a, n \in 1..b : k.got[m] # page[n]
  BY <1>6, <1>8, <1>9
<1>11. \A m, n \in 1..b : m # n => page[m] # page[n]
  OBVIOUS
<1> HIDE DEF a, b
<1>12. \A n \in 1..(a + b) : /\ got[n] <= k.head
                             /\ got[n] \in lrRemoved \/ (InTable(got[n]) /\ OwnRow(got[n], k.q.requester))
                             /\ (\E m \in 1..a : got[n] = k.got[m]) \/ (\E m \in 1..b : got[n] = page[m])
  <2> SUFFICES ASSUME NEW n \in 1..(a + b)
               PROVE  /\ got[n] <= k.head
                      /\ got[n] \in lrRemoved \/ (InTable(got[n]) /\ OwnRow(got[n], k.q.requester))
                      /\ (\E m \in 1..a : got[n] = k.got[m]) \/ (\E m \in 1..b : got[n] = page[m])
    OBVIOUS
  <2>1. CASE n \in 1..a /\ got[n] = k.got[n]
    BY <2>1, <1>6
  <2>2. CASE n - a \in 1..b /\ got[n] = page[n - a]
    <3>1. page[n - a] \in S
      BY <2>2, <1>9
    <3> QED BY <2>2, <3>1, <1>8
  <2> QED BY <2>1, <2>2, <1>5
<1>13. ASSUME NEW m \in 1..(a + b), NEW n \in 1..(a + b), m # n PROVE got[m] # got[n]
  <2>1. CASE m \in 1..a /\ n \in 1..a
    BY <2>1, <1>3, <1>7, <1>13
  <2>2. CASE m \in 1..a /\ n \notin 1..a
    BY <2>2, <1>3, <1>5, <1>10
  <2>3. CASE m \notin 1..a /\ n \in 1..a
    BY <2>3, <1>3, <1>5, <1>10
  <2>4. CASE m \notin 1..a /\ n \notin 1..a
    <3>1. m - a \in 1..b /\ n - a \in 1..b /\ got[m] = page[m - a] /\ got[n] = page[n - a]
      BY <2>4, <1>5
    <3>2. m - a # n - a
      BY <1>1, <1>13 DEF a
    <3> QED BY <3>1, <3>2, <1>11
  <2> QED BY <2>1, <2>2, <2>3, <2>4
<1>14. \A m \in 1..a : Among(k.got[m], got)
  BY <1>2, <1>3 DEF Among
<1>15. \A m \in 1..b : Among(page[m], got)
  BY <1>2, <1>4 DEF Among
<1>16. \A n \in 1..(a + b) : Among(got[n], k.got) \/ Among(got[n], page)
  BY <1>12 DEF Among, a, b
<1>17. \A n \in 1..Len(got) : /\ got[n] <= k.head
                              /\ got[n] \in lrRemoved \/ (InTable(got[n]) /\ OwnRow(got[n], k.q.requester))
  <2> SUFFICES ASSUME NEW n \in 1..Len(got)
               PROVE  /\ got[n] <= k.head
                      /\ got[n] \in lrRemoved \/ (InTable(got[n]) /\ OwnRow(got[n], k.q.requester))
    OBVIOUS
  <2>1. n \in 1..(a + b)
    BY <1>2
  <2>2. got[n] <= k.head
    BY <2>1, <1>12
  <2>3. got[n] \in lrRemoved \/ (InTable(got[n]) /\ OwnRow(got[n], k.q.requester))
    BY <2>1, <1>12
  <2> QED BY <2>2, <2>3
<1>18. \A m, n \in 1..Len(got) : m # n => got[m] # got[n]
  BY <1>2, <1>13
<1>19. /\ \A n \in 1..Len(got) : Among(got[n], k.got) \/ Among(got[n], page)
       /\ \A m \in 1..Len(k.got) : Among(k.got[m], got)
       /\ \A m \in 1..Len(page) : Among(page[m], got)
  BY <1>2, <1>14, <1>15, <1>16 DEF a, b
<1> QED BY <1>2, <1>17, <1>18, <1>19 DEF PageJoins

LEMMA ListEnds ==
    ASSUME LrInv, NEW r \in LrReaders, NEW k, k = reader[r], k.pc = "checked", k.q.route = "list",
           NEW S, S = ListRows(k),
           NEW s, s = SortRows(S), NEW page, page = PageUpTo(s, Len(s)),
           NEW got, got = ShownWith(k.got, page),
           reader' = [reader EXCEPT ![r] = Told(k, "shown", got)],
           UNCHANGED <<lrRows, lrNext, lrRemoved, anchorCache, lrAsked, lrNow>>
    PROVE  LrInv'
<1>1. k \in LrReaderState /\ ReaderFits(k) /\ LrTable /\ S \in SUBSET LrIds
  BY LrReaderIs DEF LrInv, LrTypeOK, LrTable, RowsOf, ListRows
<1>2. Len(s) \in Nat /\ \A x \in S : \E i \in 1..Len(s) : s[i] = x
  BY <1>1, SortRowsIs
<1>3. /\ page \in Seq(LrIds) /\ Len(page) = Len(s) /\ \A i \in 1..Len(s) : page[i] = s[i] /\ s[i] \in S
      /\ \A i, j \in 1..Len(s) : i # j => s[i] # s[j]
  BY <1>1, <1>2, PageIs
<1>4. (\A n \in 1..Len(page) : page[n] \in S) /\ (\A m, n \in 1..Len(page) : m # n => page[m] # page[n])
  BY <1>3
<1>5. PageJoins(k, page, got)
  <2>1. page \in Seq(LrIds)
    BY <1>3
  <2> QED BY <2>1, <1>1, <1>4, PageShown, SMTT(60)
<1>6. PICK l : l = Told(k, "shown", got)
  OBVIOUS
<1>7. /\ l \in LrReaderState
      /\ l.pc = "shown" /\ l.got = got /\ l.q = k.q /\ l.head = k.head /\ l.cursor = k.cursor /\ l.known = k.known
      /\ l.inOrder = k.inOrder /\ l.anchored = k.anchored /\ l.at = k.at
  <2>1. "shown" \in LrPlaces /\ got \in Seq(LrIds)
    BY <1>5 DEF LrPlaces, PageJoins
  <2> QED BY <2>1, <1>1, <1>6, ToldFields
<1>8. ReaderLane(l)
  BY <1>7 DEF ReaderLane
<1>9. ReaderSeen(l) /\ ReaderAnchored(l)
  BY <1>1, <1>7 DEF ReaderFits, ReaderSeen, ReaderAnchored
<1>10. ReaderShows(l)
  BY <1>5, <1>7 DEF ReaderShows, PageJoins
<1>11. ReaderPages(l)
  <2>1. ASSUME NEW i \in k.known, i \notin lrRemoved PROVE Among(i, got)
    <3>1. InTable(i) /\ lrRows[i].owner = k.q.target /\ RowMatches(i, k.q) /\ i <= k.head /\ i \in LrIds
      BY <2>1, <1>1, ReaderFields DEF ReaderFits, ReaderSeen
    <3>2. CASE \E n \in 1..Len(k.got) : k.got[n] = i
      BY <3>2, <1>5 DEF PageJoins
    <3>3. CASE AfterPage(i, k.cursor)
      <4>1. i \in S
        BY <3>1, <3>3 DEF RowsOf, ListRows
      <4>2. \E n \in 1..Len(page) : page[n] = i
        BY <4>1, <1>2, <1>3
      <4> QED BY <4>2, <1>5 DEF PageJoins
    <3> QED BY <3>2, <3>3, <2>1, <1>1 DEF ReaderFits, ReaderPages
  <2>2. /\ \A n \in 1..Len(got) : got[n] <= k.head
        /\ \A m, n \in 1..Len(got) : m # n => got[m] # got[n]
    BY <1>5 DEF PageJoins
  <2> QED BY <2>1, <2>2, <1>7 DEF ReaderPages, Among
<1>12. ReaderOrders(l)
  BY <1>1, <1>7 DEF ReaderFits, ReaderOrders, NamesKnown
<1>13. ReaderFits(l)
  BY <1>8, <1>9, <1>10, <1>11, <1>12 DEF ReaderFits
<1> QED BY <1>6, <1>7, <1>13, LrReaderGoesOn

LEMMA ListGoesOn ==
    ASSUME LrInv, NEW r \in LrReaders, NEW k, k = reader[r], k.pc = "checked", k.q.route = "list",
           NEW S, S = ListRows(k),
           NEW s, s = SortRows(S), Len(s) > PageLimit, NEW page, page = PageUpTo(s, PageLimit),
           NEW got, got = ShownWith(k.got, page),
           reader' = [reader EXCEPT ![r] = [Told(k, "headed", got) EXCEPT !.cursor = EncodeCursor(page[Len(page)])]],
           UNCHANGED <<lrRows, lrNext, lrRemoved, anchorCache, lrAsked, lrNow>>
    PROVE  LrInv'
<1>1. k \in LrReaderState /\ ReaderFits(k) /\ LrTable /\ S \in SUBSET LrIds
  BY LrReaderIs DEF LrInv, LrTypeOK, LrTable, RowsOf, ListRows
<1>2. /\ Len(s) \in Nat /\ \A x \in S : \E i \in 1..Len(s) : s[i] = x
      /\ \A i, j \in 1..Len(s) : i < j => StampedBefore(s[i], s[j])
  <2>1. /\ Len(SortRows(S)) \in Nat /\ \A x \in S : \E i \in 1..Len(SortRows(S)) : SortRows(S)[i] = x
        /\ \A i, j \in 1..Len(SortRows(S)) : i < j => StampedBefore(SortRows(S)[i], SortRows(S)[j])
    BY <1>1, SortRowsIs
  <2> QED BY <2>1
<1>3. PageLimit \in Nat /\ PageLimit >= 1 /\ PageLimit <= Len(s)
  BY <1>2, LrBounds
<1>4. /\ page \in Seq(LrIds) /\ Len(page) = PageLimit /\ \A i \in 1..PageLimit : page[i] = s[i] /\ s[i] \in S
      /\ \A i, j \in 1..PageLimit : i # j => s[i] # s[j]
  BY <1>1, <1>3, PageIs
<1>5. (\A n \in 1..Len(page) : page[n] \in S) /\ (\A m, n \in 1..Len(page) : m # n => page[m] # page[n])
  BY <1>4
<1>6. PageJoins(k, page, got)
  BY <1>1, <1>4, <1>5, PageShown
<1>7. PICK x, c : x = s[PageLimit] /\ c = EncodeCursor(page[Len(page)])
  OBVIOUS
<1>8. x \in S /\ x \in LrIds /\ c = [at |-> lrRows[x].at, id |-> x]
  BY <1>1, <1>3, <1>4, <1>7 DEF EncodeCursor
<1>9. lrRows[x].at \in 0..MaxLrTime /\ x \in 0..MaxLrRows
  BY <1>1, <1>8, StampsAre, LrBounds
<1>10. c.at = lrRows[x].at /\ c.id = x /\ c \in [at : 0..MaxLrTime, id : 0..MaxLrRows]
  BY <1>8, <1>9
<1>11. \A i \in LrIds : AfterPage(i, c) <=> StampedBefore(x, i)
  BY <1>10 DEF AfterPage, StampedBefore
<1>12. PICK m, l : m = Told(k, "headed", got) /\ l = [m EXCEPT !.cursor = c]
  OBVIOUS
<1>13. /\ m \in LrReaderState
       /\ m.pc = "headed" /\ m.got = got /\ m.q = k.q /\ m.head = k.head /\ m.known = k.known
       /\ m.inOrder = k.inOrder /\ m.anchored = k.anchored /\ m.at = k.at
  <2>1. "headed" \in LrPlaces /\ got \in Seq(LrIds)
    BY <1>6 DEF LrPlaces, PageJoins
  <2> QED BY <2>1, <1>1, <1>12, ToldFields
<1>14. /\ l \in LrReaderState /\ l.cursor = c
       /\ l.pc = m.pc /\ l.got = m.got /\ l.q = m.q /\ l.head = m.head /\ l.known = m.known
       /\ l.inOrder = m.inOrder /\ l.anchored = m.anchored /\ l.at = m.at
  BY <1>10, <1>12, <1>13 DEF LrReaderState
<1>15. /\ l.pc = "headed" /\ l.got = got /\ l.q = k.q /\ l.head = k.head /\ l.known = k.known
       /\ l.inOrder = k.inOrder /\ l.anchored = k.anchored /\ l.at = k.at
  BY <1>13, <1>14
<1>16. ReaderLane(l)
  BY <1>15 DEF ReaderLane
<1>17. ReaderSeen(l) /\ ReaderAnchored(l)
  BY <1>1, <1>15 DEF ReaderFits, ReaderSeen, ReaderAnchored
<1>18. ReaderShows(l)
  BY <1>6, <1>15 DEF ReaderShows, PageJoins
<1>19. \A i \in S : AfterPage(i, k.cursor) /\ i \in LrIds
  BY <1>1 DEF ListRows
<1>20. ASSUME NEW i \in LrIds, ~AfterPage(i, k.cursor) PROVE ~AfterPage(i, c)
  <2>1. k.cursor.at \in Nat /\ k.cursor.id \in Nat /\ lrRows[i].at \in Nat /\ i \in Nat /\ lrRows[x].at \in Nat /\ x \in Nat
    BY <1>1, <1>8, <1>9, StampsAre, ReaderFields, LrBounds
  <2>2. AfterPage(x, k.cursor)
    BY <1>8, <1>19
  <2> QED BY <2>1, <2>2, <1>10, <1>20 DEF AfterPage
<1>21. ASSUME NEW j \in 1..PageLimit PROVE ~AfterPage(s[j], c)
  <2>1. s[j] \in LrIds /\ (s[j] = x \/ StampedBefore(s[j], x))
    <3>1. j \in 1..Len(s) /\ PageLimit \in 1..Len(s) /\ (j = PageLimit \/ j < PageLimit)
      BY <1>2, <1>3
    <3> QED BY <3>1, <1>2, <1>4, <1>7, <1>19
  <2>2. ~StampedBefore(x, s[j])
    BY <2>1, <1>1, <1>8, StampsOrder
  <2> QED BY <2>1, <2>2, <1>11
<1>22. ASSUME NEW n \in 1..Len(got) PROVE got[n] \in lrRemoved \/ ~AfterPage(got[n], c)
  <2>1. CASE Among(got[n], k.got)
    <3>1. PICK o \in 1..Len(k.got) : k.got[o] = got[n]
      BY <2>1 DEF Among
    <3>2. k.got[o] \in LrIds /\ (k.got[o] \in lrRemoved \/ ~AfterPage(k.got[o], k.cursor))
      BY <1>1, ReaderFields DEF ReaderFits, ReaderPages
    <3> QED BY <3>1, <3>2, <1>20
  <2>2. CASE Among(got[n], page)
    BY <2>2, <1>4, <1>21 DEF Among
  <2> QED BY <2>1, <2>2, <1>6 DEF PageJoins
<1>23. ASSUME NEW i \in k.known, i \notin lrRemoved PROVE Among(i, got) \/ AfterPage(i, c)
  <2>1. InTable(i) /\ lrRows[i].owner = k.q.target /\ RowMatches(i, k.q) /\ i <= k.head /\ i \in LrIds
    BY <1>23, <1>1, ReaderFields DEF ReaderFits, ReaderSeen
  <2>2. CASE \E n \in 1..Len(k.got) : k.got[n] = i
    BY <2>2, <1>6 DEF PageJoins
  <2>3. CASE AfterPage(i, k.cursor)
    <3>1. i \in S
      BY <2>1, <2>3 DEF RowsOf, ListRows
    <3>2. PICK n \in 1..Len(s) : s[n] = i
      BY <3>1, <1>2
    <3>3. CASE n <= PageLimit
      <4>1. n \in 1..Len(page) /\ page[n] = i
        BY <3>2, <3>3, <1>3, <1>4
      <4> QED BY <4>1, <1>6 DEF PageJoins
    <3>4. CASE ~(n <= PageLimit)
      <4>1. PageLimit \in 1..Len(s) /\ PageLimit < n
        BY <3>4, <1>2, <1>3
      <4>2. StampedBefore(x, i)
        BY <4>1, <3>2, <1>2, <1>7
      <4> QED BY <4>2, <2>1, <1>11
    <3> QED BY <3>3, <3>4
  <2> QED BY <2>2, <2>3, <1>23, <1>1 DEF ReaderFits, ReaderPages
<1>24. ReaderPages(l)
  <2>1. /\ \A n \in 1..Len(got) : got[n] <= k.head
        /\ \A o, n \in 1..Len(got) : o # n => got[o] # got[n]
    BY <1>6 DEF PageJoins
  <2> QED BY <2>1, <1>14, <1>15, <1>22, <1>23 DEF ReaderPages, Among
<1>25. ReaderOrders(l)
  BY <1>1, <1>15 DEF ReaderFits, ReaderOrders, NamesKnown
<1>26. ReaderFits(l)
  BY <1>16, <1>17, <1>18, <1>24, <1>25 DEF ReaderFits
<1>27. reader' = [reader EXCEPT ![r] = l]
  BY <1>7, <1>12
<1> QED BY <1>14, <1>15, <1>26, <1>27, LrReaderGoesOn

LEMMA HandleListStep == ASSUME LrInv, NEW r \in LrReaders, HandleList(r) PROVE LrInv'
<1>1. PICK k, S : /\ k = reader[r]
                  /\ S = ListRows(k)
  OBVIOUS
<1>2. PICK s : s = SortRows(S)
  OBVIOUS
<1>3. k.pc = "checked" /\ k.q.route = "list" /\ UNCHANGED <<lrRows, lrNext, lrRemoved, anchorCache, lrAsked, lrNow>>
  BY <1>1 DEF HandleList
<1>4. LrTable /\ S \in SUBSET LrIds
  BY <1>1 DEF LrInv, LrTypeOK, LrTable, RowsOf, ListRows
<1>5. Len(s) \in Nat
  BY <1>2, <1>4, SortRowsIs
<1>6. CASE Len(s) > PageLimit
  <2>1. PICK page : page = PageUpTo(s, PageLimit)
    OBVIOUS
  <2>2. PICK got : got = ShownWith(k.got, page)
    OBVIOUS
  <2>3. (IF Len(s) < PageLimit THEN Len(s) ELSE PageLimit) = PageLimit
    BY <1>5, <1>6, LrBounds
  <2>4. reader' = [reader EXCEPT ![r] = [Told(k, "headed", got) EXCEPT !.cursor = EncodeCursor(page[Len(page)])]]
    BY <1>1, <1>2, <1>6, <2>1, <2>2, <2>3 DEF HandleList, LrGoto, ListRows, PageUpTo, ShownWith
  <2> QED BY <1>1, <1>2, <1>3, <1>6, <2>1, <2>2, <2>4, ListGoesOn
<1>7. CASE ~(Len(s) > PageLimit)
  <2>1. PICK page : page = PageUpTo(s, Len(s))
    OBVIOUS
  <2>2. PICK got : got = ShownWith(k.got, page)
    OBVIOUS
  <2>3. (IF Len(s) < PageLimit THEN Len(s) ELSE PageLimit) = Len(s)
    BY <1>5, <1>7, LrBounds
  <2>4. reader' = [reader EXCEPT ![r] = Told(k, "shown", got)]
    BY <1>1, <1>2, <1>7, <2>1, <2>2, <2>3 DEF HandleList, LrGoto, ListRows, PageUpTo, ShownWith
  <2> QED BY <1>1, <1>2, <1>3, <2>1, <2>2, <2>4, ListEnds
<1> QED BY <1>6, <1>7

\* The invariant is inductive.
LEMMA LrStep == LrInv /\ [LrNext]_lrVars => LrInv'
<1> SUFFICES ASSUME LrInv, [LrNext]_lrVars PROVE LrInv'
  OBVIOUS
<1>1. \A at \in {lrNow, lrNow - 1} \cap Nat : at \in 0..MaxLrTime
  BY LrBounds DEF LrInv, LrTypeOK
<1>2. ASSUME NEW a \in LrAgents, NEW at \in {lrNow, lrNow - 1} \cap Nat, AppendRecord(a, NoSubject, at) PROVE LrInv'
  BY <1>1, <1>2, AppendRecordStep DEF LrOwners
<1>3. ASSUME NEW s \in LrSubjects, NEW at \in {lrNow, lrNow - 1} \cap Nat, AppendRecord(LrGovernor, s, at) PROVE LrInv'
  BY <1>1, <1>3, AppendRecordStep DEF LrOwners
<1>4. ASSUME NEW a \in LrAgents, InsertReservationRow(a) PROVE LrInv'
  BY <1>4, InsertReservationRowStep
<1>5. ASSUME NEW i \in LrIds, CommitReservationRow(i) \/ RemoveRow(i) PROVE LrInv'
  BY <1>5, CommitReservationRowStep, RemoveRowStep
<1>6. CASE LrTick
  BY <1>6, LrTickStep
<1>7. ASSUME NEW r \in LrReaders, NEW q \in LrQueries, NEW start \in 0..1, LedgerHead(r, q, start) PROVE LrInv'
  BY <1>7, LedgerHeadStep
<1>8. ASSUME NEW r \in LrReaders, NEW q \in LrQueries, SignedLedgerHead(r, q) PROVE LrInv'
  BY <1>8, SignedLedgerHeadStep
<1>9. ASSUME NEW r \in LrReaders, SelectMaxId(r) \/ CacheAnchor(r) \/ SelectHead(r) \/ Authorize(r) PROVE LrInv'
  BY <1>9, SelectMaxIdStep, CacheAnchorStep, SelectHeadStep, AuthorizeStep
<1>10. ASSUME NEW r \in LrReaders, HandleList(r) \/ HandleGet(r) \/ HandleVerify(r) \/ EndRequest(r)
       PROVE  LrInv'
  BY <1>10, HandleListStep, HandleGetStep, EndRequestStep
<1>12. ASSUME NEW r \in LrReaders, ProbeGenesis(r) \/ HandleChainVerify(r) PROVE LrInv'
  BY <1>12, HandleChainVerifyStep
<1>11. CASE UNCHANGED lrVars
  <2>1. LrTypeOK' /\ LrPast' /\ LrLinked'
    BY <1>11 DEF lrVars, LrInv, LrTypeOK, LrPast, LrLinked, IsRecord, InTable, NamesAtLeast, StampedBefore
  <2>2. LrGrows
    <3>1. lrNow \in Nat /\ lrNext \in Nat
      BY DEF LrInv, LrTypeOK
    <3> QED BY <1>11, <3>1 DEF LrGrows, IsRecord, InTable, lrVars
  <2> QED BY <2>1, <2>2, <1>11, LrTableChanges DEF lrVars
<1> QED BY <1>2, <1>3, <1>4, <1>5, <1>6, <1>7, <1>8, <1>9, <1>10, <1>11, <1>12 DEF LrNext

\* What the routes promise follows from it.
LEMMA LrConcludes == LrInv => LrTypeOK /\ PagesCoverTheSnapshot /\ RowsShownAreTheRequesters /\ HeadsDoNotDrift
<1> SUFFICES ASSUME LrInv PROVE PagesCoverTheSnapshot /\ RowsShownAreTheRequesters /\ HeadsDoNotDrift
  BY DEF LrInv
<1>1. ASSUME NEW r \in LrReaders
      PROVE  /\ reader[r] \in LrReaderState /\ ReaderFits(reader[r]) /\ reader[r].got \in Seq(LrIds)
             /\ DOMAIN reader[r].got = 1..Len(reader[r].got)
  BY LrReaderIs, ReaderFields
<1>2. PagesCoverTheSnapshot
  <2> SUFFICES ASSUME NEW r \in LrReaders, reader[r].pc = "shown", reader[r].q.route = "list"
               PROVE  LET got == reader[r].got
                      IN  /\ \A i, j \in DOMAIN got : i # j => got[i] # got[j]
                          /\ reader[r].known \ lrRemoved \subseteq {got[i] : i \in DOMAIN got}
                          /\ \A i \in DOMAIN got : got[i] <= reader[r].head
    BY DEF PagesCoverTheSnapshot
  <2>1. ReaderPages(reader[r])
    BY <1>1 DEF ReaderFits
  <2> QED BY <1>1, <2>1 DEF ReaderPages
<1>3. RowsShownAreTheRequesters
  <2> SUFFICES ASSUME NEW r \in LrReaders, NEW n \in 1..Len(reader[r].got)
               PROVE  reader[r].got[n] \in lrRemoved \/ OwnRow(reader[r].got[n], reader[r].q.requester)
    BY <1>1 DEF RowsShownAreTheRequesters, OwnRow
  <2> QED BY <1>1 DEF ReaderFits, ReaderShows
<1>4. HeadsDoNotDrift
  <2> SUFFICES ASSUME NEW r \in LrReaders, NEW s \in LrReaders,
                      reader[r].anchored # NoAnchor, reader[s].anchored # NoAnchor, reader[r].q = reader[s].q,
                      reader[r].at < reader[s].anchored.expires, reader[s].at < reader[r].anchored.expires
               PROVE  reader[r].anchored.anchor = reader[s].anchored.anchor
    BY DEF HeadsDoNotDrift
  <2>1. Apart(reader[r], reader[s])
    BY DEF LrInv, ReadersApart
  <2>2. reader[r].at \in Nat /\ reader[s].at \in Nat /\ reader[r].anchored.expires \in Nat /\ reader[s].anchored.expires \in Nat
    <3>1. reader[r].anchored \in LrAnchor /\ reader[s].anchored \in LrAnchor /\ reader[r].at \in Nat /\ reader[s].at \in Nat
      BY <1>1, ReaderFields
    <3> QED BY <3>1, LrBounds DEF LrAnchor
  <2> QED BY <2>1, <2>2 DEF Apart
<1> QED BY <1>2, <1>3, <1>4

\* A removed record of an orderly snapshot has a later one that names a removed row.
LEMMA MissingIsNamed ==
    ASSUME LrInv, NEW k \in LrReaderState, ReaderFits(k), k.inOrder = TRUE, k.head \notin lrRemoved,
           NEW i \in k.known, i \in lrRemoved,
           \A j \in k.known : j \notin lrRemoved => lrRows[j].kind = "record"
    PROVE  \E j \in k.known : j \notin lrRemoved /\ lrRows[j].prev # 0 /\ lrRows[j].prev \in lrRemoved
<1>1. k.known \subseteq LrIds /\ LrIds \subseteq Nat
  BY ReaderFields, LrBounds DEF LrIds
<1>2. k.head \in k.known /\ i <= k.head /\ i # k.head
  BY DEF ReaderFits, ReaderOrders, ReaderSeen
<1> DEFINE Later == {j \in k.known : j \notin lrRemoved /\ i < j}
<1>3. Later # {} /\ Later \in SUBSET Nat
  <2>1. i \in Nat /\ k.head \in Nat /\ i <= k.head /\ i # k.head
    BY <1>1, <1>2
  <2>2. i < k.head
    BY <2>1
  <2> QED BY <2>2, <1>1, <1>2
<1>4. PICK j \in Later : \A m \in Later : j <= m
  <2> HIDE DEF Later
  <2> QED BY <1>3, LeastPosition, Zenon
<1>5. j \in k.known /\ j \notin lrRemoved /\ i < j /\ lrRows[j].kind = "record"
  BY <1>4
<1>6. NamesKnown(k, i, j)
  BY <1>5 DEF ReaderFits, ReaderOrders
<1>7. PICK p : p = lrRows[j].prev
  OBVIOUS
<1>8. p # 0 /\ (p \in lrRemoved \/ (p \in k.known /\ i <= p /\ p < j))
  BY <1>6, <1>7 DEF NamesKnown
<1>9. p \in lrRemoved
  <2> SUFFICES ASSUME p \notin lrRemoved PROVE FALSE
    OBVIOUS
  <2>1. p \in k.known /\ i <= p /\ p < j /\ p # i
    BY <1>8
  <2>2. p \in Nat /\ i \in Nat /\ j \in Nat
    BY <2>1, <1>1, <1>5
  <2>3. i < p /\ ~(j <= p)
    BY <2>1, <2>2
  <2>4. p \in Later
    BY <2>1, <2>3
  <2> QED BY <2>3, <2>4, <1>4
<1> QED BY <1>5, <1>7, <1>8, <1>9

\* A request that passed the probe found a reservation of the snapshot among the rows it will read,
\* or every record an orderly snapshot held was stamped at `start` or later, or is removed.
HasReservation(k) == \E g \in SnapshotRows(k) : lrRows[g].kind = "reservation" /\ lrRows[g].at >= k.start
StartsBefore(k) == \A j \in k.known : j \in lrRemoved \/ lrRows[j].at >= k.start
LrProbed ==
    \A r \in LrReaders : \A k : k = reader[r] /\ k.pc = "probed" /\ k.inOrder = TRUE => HasReservation(k) \/ StartsBefore(k)

LEMMA ProbeFinds ==
    ASSUME LrInv, NEW k \in LrReaderState, ReaderFits(k), k.inOrder = TRUE, NEW g,
           g = CHOOSE i \in SnapshotRows(k) : \A j \in SnapshotRows(k) : i <= j,
           ~(SnapshotRows(k) # {} /\ lrRows[g].at < k.start)
    PROVE  HasReservation(k) \/ StartsBefore(k)
<1> SUFFICES ASSUME ~HasReservation(k), NEW j \in k.known, j \notin lrRemoved PROVE lrRows[j].at >= k.start
  BY DEF StartsBefore
<1>1. PICK S : S = SnapshotRows(k)
  OBVIOUS
<1>2. LrTable /\ S \in SUBSET LrIds /\ LrIds \subseteq Nat
  BY <1>1, LrBounds DEF LrInv, LrTypeOK, LrTable, SnapshotRows, RowsOf, LrIds
<1>3. \A i \in S : InTable(i) /\ lrRows[i].owner = k.q.target /\ i <= k.head /\ i \notin lrRemoved
  BY <1>1, <1>2, RowsAreThere DEF SnapshotRows, RowsOf
<1>4. j \in S
  BY <1>1, ReaderFields DEF ReaderFits, ReaderSeen, SnapshotRows, RowsOf
<1>5. g \in S /\ \A m \in S : g <= m
  <2>1. S \in SUBSET Nat /\ S # {}
    BY <1>2, <1>4
  <2>2. \E i \in S : \A m \in S : i <= m
    BY <2>1, LeastPosition
  <2> QED BY <1>1, <2>2
<1>6. k.start \in Nat /\ \A i \in S : lrRows[i].at \in Nat /\ i \in Nat
  BY <1>2, StampsAre, LrBounds DEF LrReaderState
<1>7. lrRows[g].at >= k.start
  BY <1>1, <1>5, <1>6
<1>8. lrRows[g].kind = "record"
  <2>1. lrRows[g].kind # "reservation"
    BY <1>1, <1>5, <1>7 DEF HasReservation
  <2>2. lrRows[g] \in LrRow \cup {NoLrRow}
    BY <1>2, <1>5 DEF LrTable
  <2>3. lrRows[g].kind \in {"record", "reservation"}
    BY <2>2 DEF LrRow, NoLrRow
  <2> QED BY <2>1, <2>3
<1>9. g \in k.known
  <2>1. IsRecord(g) /\ lrRows[g].owner = k.q.target /\ g <= k.head /\ g \in LrIds
    BY <1>2, <1>3, <1>5, <1>8 DEF IsRecord
  <2> QED BY <2>1 DEF ReaderFits, ReaderOrders
<1>10. lrRows[g].at <= lrRows[j].at
  <2>1. g <= j /\ g \notin lrRemoved /\ g \in Nat /\ j \in Nat
    BY <1>3, <1>4, <1>5, <1>6
  <2>2. CASE g = j
    <3>1. lrRows[j].at \in Nat
      BY <1>4, <1>6
    <3>2. \A n \in Nat : n <= n
      OBVIOUS
    <3> QED BY <2>2, <3>1, <3>2
  <2>3. CASE g # j
    <3>1. g < j
      BY <2>1, <2>3
    <3> QED BY <1>9, <2>1, <3>1 DEF ReaderFits, ReaderOrders
  <2> QED BY <2>2, <2>3
<1> QED BY <1>4, <1>5, <1>6, <1>7, <1>10

\* Rows stay as they are; only records are removed.
LEMMA RowsStay ==
    ASSUME LrInv, [LrNext]_lrVars
    PROVE  /\ lrRemoved \subseteq lrRemoved'
           /\ \A j \in LrIds : InTable(j) => (lrRows'[j] = lrRows[j] \/ (j \in lrRemoved' /\ lrRows[j].kind = "record"))
<1>1. lrRows \in [LrIds -> LrRow \cup {NoLrRow}] /\ lrNext \in Nat /\ \A i \in LrIds : lrNext <= i => ~InTable(i)
  BY DEF LrInv, LrTypeOK, LrPast, InTable
<1>2. ASSUME NEW a, NEW s, NEW at, AppendRecord(a, s, at)
      PROVE  lrRemoved' = lrRemoved /\ \A j \in LrIds : j # lrNext => lrRows'[j] = lrRows[j]
  BY <1>1, <1>2 DEF AppendRecord
<1>3. ASSUME NEW a, InsertReservationRow(a)
      PROVE  lrRemoved' = lrRemoved /\ \A j \in LrIds : j # lrNext => lrRows'[j] = lrRows[j]
  BY <1>1, <1>3 DEF InsertReservationRow
<1>4. ASSUME NEW i \in LrIds, CommitReservationRow(i)
      PROVE  lrRemoved' = lrRemoved /\ ~InTable(i) /\ \A j \in LrIds : j # i => lrRows'[j] = lrRows[j]
  BY <1>1, <1>4 DEF CommitReservationRow, InTable
<1>5. ASSUME NEW i \in LrIds, RemoveRow(i)
      PROVE  /\ lrRemoved' = lrRemoved \cup {i} /\ lrRows[i].kind = "record"
             /\ \A j \in LrIds : j # i => lrRows'[j] = lrRows[j]
  BY <1>1, <1>5 DEF RemoveRow
<1>6. ~InTable(lrNext) \/ lrNext \notin LrIds
  BY <1>1
<1>7. \/ UNCHANGED <<lrRows, lrRemoved>>
      \/ \E a, s, at : AppendRecord(a, s, at)
      \/ \E a : InsertReservationRow(a)
      \/ \E i \in LrIds : CommitReservationRow(i) \/ RemoveRow(i)
  <2>1. ASSUME NEW r \in LrReaders, NEW q \in LrQueries, (\E start \in 0..1 : LedgerHead(r, q, start)) \/ SignedLedgerHead(r, q)
        PROVE  UNCHANGED <<lrRows, lrRemoved>>
    BY <2>1 DEF LedgerHead, SignedLedgerHead
  <2>2. ASSUME NEW r \in LrReaders, SelectMaxId(r) \/ CacheAnchor(r) \/ SelectHead(r) \/ Authorize(r)
        PROVE  UNCHANGED <<lrRows, lrRemoved>>
    BY <2>2 DEF SelectMaxId, CacheAnchor, SelectHead, Authorize
  <2>3. ASSUME NEW r \in LrReaders, HandleList(r) \/ HandleGet(r) \/ HandleVerify(r)
        PROVE  UNCHANGED <<lrRows, lrRemoved>>
    BY <2>3 DEF HandleList, HandleGet, HandleVerify
  <2>4. ASSUME NEW r \in LrReaders, ProbeGenesis(r) \/ HandleChainVerify(r) \/ EndRequest(r)
        PROVE  UNCHANGED <<lrRows, lrRemoved>>
    BY <2>4 DEF ProbeGenesis, HandleChainVerify, EndRequest
  <2>5. LrTick \/ UNCHANGED lrVars => UNCHANGED <<lrRows, lrRemoved>>
    BY DEF LrTick, lrVars
  <2> QED BY <2>1, <2>2, <2>3, <2>4, <2>5 DEF LrNext
<1> QED BY <1>2, <1>3, <1>4, <1>5, <1>6, <1>7

\* A request that passed the probe has just passed it, or was there before.
LEMMA OnlyProbes ==
    ASSUME LrInv, [LrNext]_lrVars, NEW r \in LrReaders, reader'[r].pc = "probed"
    PROVE  reader'[r] = reader[r] \/ ProbeGenesis(r)
<1> SUFFICES ASSUME reader'[r] # reader[r], ~ProbeGenesis(r) PROVE FALSE
  OBVIOUS
<1>1. reader \in [LrReaders -> LrReaderState] /\ reader[r] \in LrReaderState
  BY DEF LrInv, LrTypeOK
<1>2. ASSUME NEW s \in LrReaders, NEW k, reader' = [reader EXCEPT ![s] = k], k.pc # "probed" PROVE FALSE
  BY <1>1, <1>2
<1>3. ASSUME NEW s \in LrReaders, NEW k, reader' = [reader EXCEPT ![s] = k], s # r PROVE FALSE
  BY <1>1, <1>3
<1>4. IdleReader.pc # "probed" /\ \A s \in LrReaders : reader[s] \in LrReaderState
  BY <1>1, LrIdleIs
<1>5. ASSUME NEW s \in LrReaders, NEW q \in LrQueries, NEW start \in 0..1, LedgerHead(s, q, start) PROVE FALSE
  <2>1. PICK k : reader' = [reader EXCEPT ![s] = k] /\ k.pc = "headed"
    BY <1>5 DEF LedgerHead, LrGoto
  <2> QED BY <1>2, <2>1
<1>6. ASSUME NEW s \in LrReaders, NEW q \in LrQueries, SignedLedgerHead(s, q) PROVE FALSE
  <2>1. PICK k : reader' = [reader EXCEPT ![s] = k] /\ k.pc \in {"head", "anchor"}
    BY <1>6 DEF SignedLedgerHead, LrGoto, Asking
  <2> QED BY <1>2, <2>1
<1>7. ASSUME NEW s \in LrReaders, SelectMaxId(s) PROVE FALSE
  <2>1. PICK n : reader' = [reader EXCEPT ![s] = IdleReader] \/ reader' = [reader EXCEPT ![s] = [reader[s] EXCEPT !.head = n]]
    BY <1>7 DEF SelectMaxId, LrGoto
  <2>2. [reader[s] EXCEPT !.head = n].pc = "anchor"
    BY <1>4, <1>7 DEF SelectMaxId, LrReaderState
  <2> QED BY <1>2, <1>4, <2>1, <2>2
<1>8. ASSUME NEW s \in LrReaders, CacheAnchor(s) PROVE FALSE
  <2>1. PICK k : reader' = [reader EXCEPT ![s] = k] /\ k.pc = "head"
    BY <1>8 DEF CacheAnchor, LrGoto, Asking
  <2> QED BY <1>2, <2>1
<1>9. ASSUME NEW s \in LrReaders, SelectHead(s) PROVE FALSE
  <2>1. PICK n, m : \/ reader' = [reader EXCEPT ![s] = IdleReader]
                    \/ reader' = [reader EXCEPT ![s] = AtHead(reader[s], n, m)]
    BY <1>9 DEF SelectHead, LrGoto
  <2>2. AtHead(reader[s], n, m).pc = "headed"
    BY <1>4 DEF AtHead, LrReaderState
  <2> QED BY <1>2, <1>4, <2>1, <2>2
<1>10. ASSUME NEW s \in LrReaders, Authorize(s) PROVE FALSE
  <2>1. [reader[s] EXCEPT !.pc = "checked"].pc = "checked"
    BY <1>4 DEF LrReaderState
  <2> QED BY <1>2, <1>4, <1>10, <2>1 DEF Authorize, LrGoto
<1>11. ASSUME NEW s \in LrReaders, NEW pc \in {"headed", "shown", "valid", "invalid"}, NEW got
       PROVE  Told(reader[s], pc, got).pc # "probed" /\ \A c : [Told(reader[s], pc, got) EXCEPT !.cursor = c].pc # "probed"
  BY <1>4 DEF Told, LrReaderState
<1>12. ASSUME NEW s \in LrReaders, HandleList(s) PROVE FALSE
  <2> DEFINE q == reader[s].q
             rows == SortRows({i \in RowsOf(q.target) : /\ i <= reader[s].head /\ RowMatches(i, q)
                                                       /\ AfterPage(i, reader[s].cursor)})
             page == SubSeq(rows, 1, IF Len(rows) < PageLimit THEN Len(rows) ELSE PageLimit)
             more == [Told(reader[s], "headed", reader[s].got \o page) EXCEPT !.cursor = EncodeCursor(page[Len(page)])]
             last == Told(reader[s], "shown", reader[s].got \o page)
  <2>1. reader' = [reader EXCEPT ![s] = IF Len(rows) > PageLimit THEN more ELSE last]
    BY <1>12, Zenon DEF HandleList, LrGoto
  <2>2. more.pc # "probed" /\ last.pc # "probed"
    BY <1>11
  <2> HIDE DEF more, last, rows
  <2>3. reader' = [reader EXCEPT ![s] = more] \/ reader' = [reader EXCEPT ![s] = last]
    BY <2>1
  <2> QED BY <1>2, <2>2, <2>3
<1>13. ASSUME NEW s \in LrReaders, HandleGet(s) \/ HandleVerify(s) PROVE FALSE
  <2>1. PICK got : \/ reader' = [reader EXCEPT ![s] = IdleReader]
                   \/ \E pc \in {"headed", "shown", "valid", "invalid"} : reader' = [reader EXCEPT ![s] = Told(reader[s], pc, got)]
    BY <1>13 DEF HandleGet, HandleVerify, LrGoto
  <2> QED BY <1>2, <1>4, <1>11, <2>1
<1>14. ASSUME NEW s \in LrReaders, ProbeGenesis(s) PROVE FALSE
  <2>1. s # r
    BY <1>14
  <2> QED BY <1>3, <1>14, <2>1 DEF ProbeGenesis, LrGoto
<1>15. ASSUME NEW s \in LrReaders, HandleChainVerify(s) PROVE FALSE
  <2>1. PICK pc \in {"valid", "invalid"} : reader' = [reader EXCEPT ![s] = [reader[s] EXCEPT !.pc = pc]]
    BY <1>15 DEF HandleChainVerify, LrGoto
  <2>2. [reader[s] EXCEPT !.pc = pc].pc = pc
    BY <1>4 DEF LrReaderState
  <2> QED BY <1>2, <2>1, <2>2
<1>16. ASSUME NEW s \in LrReaders, EndRequest(s) PROVE FALSE
  BY <1>2, <1>4, <1>16 DEF EndRequest, LrGoto
<1>17. \/ reader' = reader
       \/ \E s \in LrReaders :
            \/ \E q \in LrQueries : (\E start \in 0..1 : LedgerHead(s, q, start)) \/ SignedLedgerHead(s, q)
            \/ SelectMaxId(s) \/ CacheAnchor(s) \/ SelectHead(s) \/ Authorize(s)
            \/ HandleList(s) \/ HandleGet(s) \/ HandleVerify(s) \/ ProbeGenesis(s) \/ HandleChainVerify(s)
            \/ EndRequest(s)
  BY DEF LrNext, lrVars, AppendRecord, InsertReservationRow, CommitReservationRow, RemoveRow, LrTick
<1> QED BY <1>5, <1>6, <1>7, <1>8, <1>9, <1>10, <1>12, <1>13, <1>14, <1>15, <1>16, <1>17

LEMMA ProbedStart == LrInit => LrProbed
<1> SUFFICES ASSUME LrInit, NEW r \in LrReaders PROVE reader[r].pc # "probed"
  BY DEF LrProbed
<1> QED BY LrIdleIs DEF LrInit

LEMMA ProbedStep == LrInv /\ LrProbed /\ [LrNext]_lrVars => LrProbed'
<1> SUFFICES ASSUME LrInv, LrProbed, [LrNext]_lrVars,
                    NEW r \in LrReaders, NEW k, k = reader'[r], k.pc = "probed", k.inOrder = TRUE
             PROVE  (HasReservation(k) \/ StartsBefore(k))'
  BY DEF LrProbed
<1>1. PICK l : l = reader[r]
  OBVIOUS
<1>2. l \in LrReaderState /\ ReaderFits(l) /\ reader \in [LrReaders -> LrReaderState]
  BY <1>1, LrReaderIs DEF LrInv, LrTypeOK
<1>3. /\ k.q = l.q /\ k.head = l.head /\ k.known = l.known /\ k.start = l.start /\ l.inOrder = TRUE
      /\ HasReservation(l) \/ StartsBefore(l)
  <2>1. CASE k = l
    BY <1>1, <2>1 DEF LrProbed
  <2>2. CASE ProbeGenesis(r)
    <3>1. PICK g : g = CHOOSE i \in SnapshotRows(l) : \A j \in SnapshotRows(l) : i <= j
      OBVIOUS
    <3>2. reader' = [reader EXCEPT ![r] = IF l.q.target = LrGovernor \/ (SnapshotRows(l) # {} /\ lrRows[g].at < l.start)
                                          THEN IdleReader ELSE [l EXCEPT !.pc = "probed"]]
      BY <1>1, <2>2, <3>1 DEF ProbeGenesis, LrGoto
    <3>3. k = IF l.q.target = LrGovernor \/ (SnapshotRows(l) # {} /\ lrRows[g].at < l.start)
              THEN IdleReader ELSE [l EXCEPT !.pc = "probed"]
      BY <1>2, <3>2
    <3>4. IdleReader.pc # "probed"
      BY LrIdleIs
    <3>5. k = [l EXCEPT !.pc = "probed"] /\ ~(SnapshotRows(l) # {} /\ lrRows[g].at < l.start)
      BY <3>3, <3>4
    <3>6. k.q = l.q /\ k.head = l.head /\ k.known = l.known /\ k.start = l.start /\ l.inOrder = TRUE
      BY <1>2, <3>5 DEF LrReaderState
    <3> QED BY <1>2, <3>1, <3>5, <3>6, ProbeFinds
  <2> QED BY <1>1, <2>1, <2>2, OnlyProbes
<1>4. /\ lrRemoved \subseteq lrRemoved'
      /\ \A j \in LrIds : InTable(j) => (lrRows'[j] = lrRows[j] \/ (j \in lrRemoved' /\ lrRows[j].kind = "record"))
  BY RowsStay
<1>5. CASE HasReservation(l)
  <2>1. PICK g \in SnapshotRows(l) : lrRows[g].kind = "reservation" /\ lrRows[g].at >= l.start
    BY <1>5 DEF HasReservation
  <2>2. g \in LrIds /\ InTable(g) /\ lrRows[g].owner = l.q.target /\ g <= l.head
    BY <2>1 DEF SnapshotRows, RowsOf
  <2>3. lrRows'[g] = lrRows[g]
    BY <1>4, <2>1, <2>2
  <2>4. g \in SnapshotRows(k)'
    BY <1>3, <2>2, <2>3 DEF SnapshotRows, RowsOf, InTable
  <2> QED BY <1>3, <2>1, <2>3, <2>4 DEF HasReservation
<1>6. CASE StartsBefore(l)
  <2> SUFFICES ASSUME NEW j \in l.known PROVE j \in lrRemoved' \/ lrRows'[j].at >= l.start
    BY <1>3 DEF StartsBefore
  <2>1. j \in lrRemoved \/ (j \in LrIds /\ InTable(j) /\ lrRows[j].at >= l.start)
    BY <1>2, <1>6, ReaderFields DEF StartsBefore, ReaderFits, ReaderSeen
  <2> QED BY <1>4, <2>1
<1> QED BY <1>3, <1>5, <1>6

\* A chain that is reported valid has lost nothing.
LEMMA ValidIsWhole ==
    ASSUME LrInv, LrProbed, NEW r \in LrReaders, HandleChainVerify(r), reader'[r].pc = "valid", reader[r].inOrder,
           reader[r].head \notin lrRemoved, NEW i \in reader[r].known
    PROVE  i \notin lrRemoved
<1> SUFFICES ASSUME i \in lrRemoved PROVE FALSE
  OBVIOUS
<1>1. PICK k : k = reader[r]
  OBVIOUS
<1>2. k \in LrReaderState /\ ReaderFits(k) /\ k.inOrder = TRUE /\ LrTable
  BY <1>1, LrReaderIs DEF LrInv, LrTypeOK, LrTable, LrReaderState
<1>3. PICK S : S = SnapshotRows(k)
  OBVIOUS
<1>4. PICK C : C = {j \in S : lrRows[j].at >= k.start}
  OBVIOUS
<1>5. S \in SUBSET LrIds /\ C \in SUBSET S /\ C \in SUBSET LrIds
  BY <1>3, <1>4 DEF SnapshotRows, RowsOf
<1>6. \A j \in S : InTable(j) /\ lrRows[j].owner = k.q.target /\ j \notin lrRemoved
  BY <1>3, <1>5, RowsAreThere DEF SnapshotRows, RowsOf
<1>7. PICK c : c = SortRows(C)
  OBVIOUS
<1>8. reader \in [LrReaders -> LrReaderState]
  BY DEF LrInv, LrTypeOK
<1>9. LinksFrom(c)
  <2>1. reader' = [reader EXCEPT ![r] = [k EXCEPT !.pc = IF LinksFrom(c) THEN "valid" ELSE "invalid"]]
    BY <1>1, <1>3, <1>4, <1>7 DEF HandleChainVerify, LrGoto
  <2>2. reader'[r] = [k EXCEPT !.pc = IF LinksFrom(c) THEN "valid" ELSE "invalid"]
    BY <2>1, <1>8
  <2>3. CASE ~LinksFrom(c)
    <3>1. reader'[r] = [k EXCEPT !.pc = "invalid"]
      BY <2>2, <2>3
    <3>2. reader'[r].pc = "invalid"
      BY <3>1, <1>2 DEF LrReaderState
    <3> QED BY <3>2
  <2> QED BY <2>3
<1>10. /\ \A n \in 1..Len(c) : c[n] \in C
       /\ \A x \in C : \E n \in 1..Len(c) : c[n] = x
       /\ DOMAIN c = 1..Len(c) /\ Len(c) \in Nat
  BY <1>2, <1>5, <1>7, SortRowsIs
<1>11. ASSUME NEW x \in C
       PROVE  lrRows[x].kind = "record" /\ (lrRows[x].prev = 0 \/ lrRows[x].prev \in C)
  <2>1. PICK n \in 1..Len(c) : c[n] = x
    BY <1>10
  <2>2. lrRows[x].prev = (IF n = 1 THEN 0 ELSE c[n - 1]) /\ lrRows[x].kind = "record"
    BY <2>1, <1>9, <1>10 DEF LinksFrom, HashAndSignaturesValid
  <2>3. CASE n = 1
    BY <2>2, <2>3
  <2>4. CASE n # 1
    <3>1. n - 1 \in 1..Len(c)
      BY <2>4, <1>10
    <3> QED BY <2>2, <2>4, <3>1, <1>10
  <2> QED BY <2>3, <2>4
<1>12. k.head \in k.known /\ k.head \notin lrRemoved
  BY <1>1, <1>2 DEF ReaderFits, ReaderOrders
<1>13. \A j \in k.known : j \notin lrRemoved => j \in S
  BY <1>2, <1>3, ReaderFields DEF ReaderFits, ReaderSeen, SnapshotRows, RowsOf
<1>14. ~HasReservation(k)
  <2> SUFFICES ASSUME HasReservation(k) PROVE FALSE
    OBVIOUS
  <2>1. PICK g \in SnapshotRows(k) : lrRows[g].kind = "reservation" /\ lrRows[g].at >= k.start
    BY DEF HasReservation
  <2> QED BY <1>3, <1>4, <1>11, <2>1
<1>15. StartsBefore(k)
  BY <1>1, <1>2, <1>14 DEF LrProbed, HandleChainVerify
<1>20. \A j \in k.known : j \notin lrRemoved => j \in C
  BY <1>4, <1>13, <1>15 DEF StartsBefore
<1>21. \A j \in k.known : j \notin lrRemoved => lrRows[j].kind = "record"
  BY <1>11, <1>20
<1>22. PICK j \in k.known : j \notin lrRemoved /\ lrRows[j].prev # 0 /\ lrRows[j].prev \in lrRemoved
  BY <1>1, <1>2, <1>12, <1>21, MissingIsNamed
<1>23. lrRows[j].prev \in C
  BY <1>11, <1>20, <1>22
<1> QED BY <1>5, <1>6, <1>22, <1>23

\* Only a chain verdict takes a reader from "probed" to "valid".
LEMMA OnlyChainVerifies ==
    ASSUME LrInv, [LrNext]_lrVars, NEW r \in LrReaders, reader[r].pc = "probed", reader'[r].pc = "valid"
    PROVE  HandleChainVerify(r)
<1> SUFFICES ASSUME ~HandleChainVerify(r) PROVE FALSE
  OBVIOUS
<1>1. reader \in [LrReaders -> LrReaderState]
  BY DEF LrInv, LrTypeOK
<1>2. ASSUME NEW s \in LrReaders, NEW k, reader' = [reader EXCEPT ![s] = k], s # r \/ k.pc # "valid" PROVE FALSE
  BY <1>1, <1>2
<1>3. reader' = reader => FALSE
  OBVIOUS
<1>4. ASSUME NEW s \in LrReaders, NEW q \in LrQueries, NEW start \in 0..1, LedgerHead(s, q, start) PROVE FALSE
  <2>1. s # r
    BY <1>4 DEF LedgerHead
  <2> QED BY <1>2, <1>4, <2>1 DEF LedgerHead, LrGoto
<1>5. ASSUME NEW s \in LrReaders, NEW q \in LrQueries, SignedLedgerHead(s, q) PROVE FALSE
  <2>1. s # r
    BY <1>5 DEF SignedLedgerHead
  <2> QED BY <1>2, <1>5, <2>1 DEF SignedLedgerHead, LrGoto
<1>6. ASSUME NEW s \in LrReaders, SelectMaxId(s) \/ CacheAnchor(s) \/ SelectHead(s) \/ Authorize(s) PROVE FALSE
  <2>1. s # r
    BY <1>6 DEF SelectMaxId, CacheAnchor, SelectHead, Authorize
  <2> QED BY <1>2, <1>6, <2>1 DEF SelectMaxId, CacheAnchor, SelectHead, Authorize, LrGoto
<1>7. ASSUME NEW s \in LrReaders, HandleList(s) \/ HandleGet(s) \/ HandleVerify(s) PROVE FALSE
  <2>1. s # r
    BY <1>7 DEF HandleList, HandleGet, HandleVerify
  <2>2. CASE HandleList(s)
    <3>1. \E k : reader' = [reader EXCEPT ![s] = k]
      BY <2>2, Zenon DEF HandleList, LrGoto
    <3> QED BY <3>1, <2>1, <1>2
  <2>3. CASE HandleGet(s)
    <3>1. \E k : reader' = [reader EXCEPT ![s] = k]
      BY <2>3, Zenon DEF HandleGet, LrGoto
    <3> QED BY <3>1, <2>1, <1>2
  <2>4. CASE HandleVerify(s)
    <3>1. \E k : reader' = [reader EXCEPT ![s] = k]
      BY <2>4, Zenon DEF HandleVerify, LrGoto
    <3> QED BY <3>1, <2>1, <1>2
  <2> QED BY <1>7, <2>2, <2>3, <2>4
<1>8. ASSUME NEW s \in LrReaders, HandleChainVerify(s) PROVE FALSE
  <2>1. s # r
    BY <1>8
  <2> QED BY <1>2, <1>8, <2>1 DEF HandleChainVerify, LrGoto
<1>11. ASSUME NEW s \in LrReaders, ProbeGenesis(s) PROVE FALSE
  <2>1. s # r
    BY <1>11 DEF ProbeGenesis
  <2> QED BY <1>2, <1>11, <2>1 DEF ProbeGenesis, LrGoto
<1>9. ASSUME NEW s \in LrReaders, EndRequest(s) PROVE FALSE
  BY <1>2, <1>9, LrIdleIs DEF EndRequest, LrGoto
<1>10. \/ reader' = reader
       \/ \E s \in LrReaders :
            \/ \E q \in LrQueries : (\E start \in 0..1 : LedgerHead(s, q, start)) \/ SignedLedgerHead(s, q)
            \/ SelectMaxId(s) \/ CacheAnchor(s) \/ SelectHead(s) \/ Authorize(s)
            \/ HandleList(s) \/ HandleGet(s) \/ HandleVerify(s) \/ ProbeGenesis(s) \/ HandleChainVerify(s)
            \/ EndRequest(s)
  BY DEF LrNext, lrVars, AppendRecord, InsertReservationRow, CommitReservationRow, RemoveRow, LrTick
<1> QED BY <1>3, <1>4, <1>5, <1>6, <1>7, <1>8, <1>9, <1>10, <1>11

\* So the step that reports a chain valid has found every record of the snapshot.
LEMMA ValidStep ==
    ASSUME LrInv, LrProbed, [LrNext]_lrVars
    PROVE  \A r \in LrReaders :
              (reader[r].inOrder /\ reader[r].pc = "probed" /\ reader'[r].pc = "valid"
                 /\ reader[r].head \notin lrRemoved /\ lrRows[reader[r].head].at >= reader[r].start)
              => \A i \in reader[r].known : i \notin lrRemoved
BY OnlyChainVerifies, ValidIsWhole

\* What is read of the ledger, for every set of readers, rows and scopes: the invariant above.
THEOREM LedgerReadsKeepTrack == LrSpec => [](LrInv /\ LrProbed)
BY LrStart, LrStep, ProbedStart, ProbedStep, PTL DEF LrSpec

-----------------------------------------------------------------------------
(* The bridge's scope validator (McpBridge)                                 *)

\* What is known of the calls in progress and of what was admitted: they are of
\* known tokens, and what an admission spent is remembered under its key.
McRunsOk ==
    \A w \in BrWorkers : scopeCall[w].at # "idle" => scopeCall[w] \in ScopeRun /\ scopeCall[w].call.token \in BrTokens

McRemembered ==
    \A a \in scopeAdmitted :
        /\ a.spent.freshDay => <<a.call.key, a.call.token>> \in scopeTables.quotaIdem
        /\ a.spent.freshTotal => <<a.call.key, a.call.token, a.call.currency>> \in scopeTables.valueIdem
        /\ a.spent.freshTotal => a.call.value \in Nat

McLimits ==
    \A a \in scopeAdmitted :
        /\ a.spent.freshDay => a.spent.calls <= a.claim.perDay \/ a.spent.calls = 1
        /\ a.spent.freshTotal => a.spent.sum <= a.claim.total \/ a.spent.sum = a.call.value

McOnce ==
    \A a, b \in scopeAdmitted :
        a # b /\ a.call.key = b.call.key /\ a.call.token = b.call.token =>
            /\ ~(a.spent.freshDay /\ b.spent.freshDay)
            /\ ~(a.spent.freshTotal /\ b.spent.freshTotal /\ a.call.currency = b.call.currency)

McDays ==
    \A t \in BrTokens, d \in 0..MaxDay :
        OrZero(scopeTables.quota[<<t, d>>]) = Cardinality(CountedOn(t, d))

McTotals ==
    \A t \in BrTokens, cur \in Currencies :
        OrZero(scopeTables.value[<<t, cur>>]) = ValueOf(SpentIn(t, cur))

\* An admission that had to spend finds its key reserved, and a reservation was made by an admission
\* that spent: so a retry whose first COMMIT went unheard is paid for.
McBacked ==
    /\ \A a \in scopeAdmitted :
          /\ SpendsDay(a.claim) => <<a.call.key, a.call.token>> \in scopeTables.quotaIdem
          /\ SpendsTotal(a.call, a.claim) => <<a.call.key, a.call.token, a.call.currency>> \in scopeTables.valueIdem
    /\ \A k \in scopeTables.quotaIdem :
          \E b \in scopeAdmitted : b.spent.freshDay /\ k = <<b.call.key, b.call.token>>
    /\ \A k \in scopeTables.valueIdem :
          \E b \in scopeAdmitted : b.spent.freshTotal /\ k = <<b.call.key, b.call.token, b.call.currency>>

McPaid ==
    \A a \in scopeAdmitted :
        /\ a.heard /\ SpendsDay(a.claim) => PaidDay(a)
        /\ a.heard /\ SpendsTotal(a.call, a.claim) => PaidTotal(a)

\* The inductive invariant.
McInv ==
    /\ McTypeOK
    /\ McRunsOk
    /\ IsFiniteSet(scopeAdmitted)
    /\ McRemembered /\ McLimits /\ McOnce /\ McDays /\ McTotals /\ McBacked

LEMMA McPays == McBacked => McPaid
<1> SUFFICES ASSUME McBacked, NEW a \in scopeAdmitted
             PROVE  (SpendsDay(a.claim) => PaidDay(a)) /\ (SpendsTotal(a.call, a.claim) => PaidTotal(a))
  BY DEF McPaid
<1>1. ASSUME SpendsDay(a.claim) PROVE PaidDay(a)
  <2>1. PICK b \in scopeAdmitted : b.spent.freshDay /\ <<a.call.key, a.call.token>> = <<b.call.key, b.call.token>>
    BY <1>1 DEF McBacked
  <2>2. b.call.key = a.call.key /\ b.call.token = a.call.token
    BY <2>1
  <2> QED BY <2>1, <2>2, Zenon DEF PaidDay
<1>2. ASSUME SpendsTotal(a.call, a.claim) PROVE PaidTotal(a)
  <2>1. PICK b \in scopeAdmitted :
          b.spent.freshTotal /\ <<a.call.key, a.call.token, a.call.currency>> = <<b.call.key, b.call.token, b.call.currency>>
    BY <1>2 DEF McBacked
  <2>2. b.call.key = a.call.key /\ b.call.token = a.call.token /\ b.call.currency = a.call.currency
    BY <2>1
  <2> QED BY <2>1, <2>2, Zenon DEF PaidTotal
<1> QED BY <1>1, <1>2

LEMMA McCounters == McInv => CountersMatchAdmissions
BY McPays DEF McInv, CountersMatchAdmissions, McLimits, McOnce, McDays, McTotals, McPaid

\* The value of one more call.
LEMMA ValueAdd ==
    ASSUME NEW S, IsFiniteSet(S), \A a \in S : a.call.value \in Nat,
           NEW x, x \notin S, x.call.value \in Nat
    PROVE  ValueOf(S \cup {x}) = ValueOf(S) + x.call.value /\ ValueOf(S) \in Nat
<1> DEFINE T == S \cup {x}
           f == [a \in T |-> a.call.value]
           g == [a \in S |-> a.call.value]
<1>1. IsFiniteSet(T)
  BY FS_AddElement
<1>2. \A a \in T : f[a] \in Nat /\ f[a] = a.call.value
  OBVIOUS
<1>3. x \in T /\ T \ {x} = S
  OBVIOUS
<1>4. \A a \in S : f[a] = g[a]
  OBVIOUS
<1>5. ValueOf(T) = SumFunctionOnSet(f, T) /\ ValueOf(S) = SumFunctionOnSet(g, S)
  BY DEF ValueOf
<1> HIDE DEF f, g, T
<1>6. SumFunctionOnSet(f, T) = f[x] + SumFunctionOnSet(f, T \ {x}) /\ SumFunctionOnSet(f, T \ {x}) \in Nat
  BY <1>1, <1>2, <1>3, SumOne
<1>7. SumFunctionOnSet(f, S) = SumFunctionOnSet(g, S)
  BY <1>4, SumAgrees
<1>8. ValueOf(T) = ValueOf(S) + x.call.value /\ ValueOf(S) \in Nat
  BY <1>2, <1>3, <1>5, <1>6, <1>7
<1> QED BY <1>8 DEF T

\* One more on a counter.
LEMMA CountsUp ==
    ASSUME NEW old \in Nat \cup {Missing}, NEW n \in Nat, NEW max \in Int
    PROVE  LET k == CheckAndIncrement(old, n, max)
           IN  /\ k \in Nat \cup {Missing}
               /\ k # Missing => /\ OrZero(k) = OrZero(old) + n
                                 /\ k <= max \/ k = n
BY DEF CheckAndIncrement, OrZero, Missing

\* A counter is a number, whatever is added.
LEMMA CountsInt ==
    ASSUME NEW old \in Nat \cup {Missing}, NEW n \in Int, NEW max \in Int
    PROVE  CheckAndIncrement(old, n, max) \in Int
BY DEF CheckAndIncrement, Missing

\* What a body finds.
LEMMA BodyIs ==
    ASSUME NEW tables \in ScopeTables, NEW c \in BrCalls, c.token \in BrTokens,
           NEW claim \in BrClaims, NEW d \in 0..MaxDay,
           NEW r, r = RunScopeTxBody(tables, c, claim, d)
    PROVE  /\ r \in Spending
           /\ SpendsDay(claim) => r.freshDay \/ Reserved(tables, c)
           /\ SpendsTotal(c, claim) => r.freshTotal \/ ValueReserved(tables, c)
           /\ r.freshDay => /\ ~Reserved(tables, c)
                            /\ r.calls = CheckAndIncrement(tables.quota[QuotaRow(c, d)], 1, claim.perDay)
                            /\ r.ok => r.calls # Missing
           /\ r.freshTotal => /\ ~ValueReserved(tables, c) /\ c.value # Missing
                              /\ r.sum = CheckAndIncrement(tables.value[ValueRow(c)], c.value, claim.total)
                              /\ r.ok => r.sum # Missing
<1> DEFINE q == tables.quota[QuotaRow(c, d)]
           v == tables.value[ValueRow(c)]
<1>1. q \in Nat \cup {Missing} /\ v \in Nat \cup {Missing}
  <2>1. c.currency \in Currencies
    BY McAssumption
  <2> QED BY <2>1 DEF ScopeTables, QuotaRow, ValueRow
<1>2. claim.perDay \in Int /\ claim.total \in Int
  BY McAssumption DEF Claim
<1>3. c.value \in Int
  BY McAssumption DEF Missing
<1> HIDE DEF q, v
<1>4a. CheckAndIncrement(q, 1, claim.perDay) \in Int
  BY <1>1, <1>2, CountsInt
<1>4b. CheckAndIncrement(v, c.value, claim.total) \in Int
  BY <1>1, <1>2, <1>3, CountsInt
<1>4. CheckAndIncrement(q, 1, claim.perDay) \in Int /\ CheckAndIncrement(v, c.value, claim.total) \in Int
  BY <1>4a, <1>4b
<1>5. r = [ok |-> r.ok, freshDay |-> r.freshDay, freshTotal |-> r.freshTotal,
           calls |-> CheckAndIncrement(q, 1, claim.perDay), sum |-> CheckAndIncrement(v, c.value, claim.total)]
      /\ r.ok \in BOOLEAN /\ r.freshDay \in BOOLEAN /\ r.freshTotal \in BOOLEAN
  BY DEF RunScopeTxBody, q, v, SpendsDay, SpendsTotal
<1>6. r \in Spending
  BY <1>4, <1>5 DEF Spending
<1>7. /\ r.freshDay => /\ ~Reserved(tables, c)
                       /\ r.ok => r.calls # Missing
      /\ r.freshTotal => /\ ~ValueReserved(tables, c) /\ c.value # Missing
                         /\ r.ok => r.sum # Missing
  BY DEF RunScopeTxBody, SpendsTotal
<1>8. /\ SpendsDay(claim) => r.freshDay \/ Reserved(tables, c)
      /\ SpendsTotal(c, claim) => r.freshTotal \/ ValueReserved(tables, c)
  BY DEF RunScopeTxBody
<1> QED BY <1>5, <1>6, <1>7, <1>8 DEF q, v

\* Serializable: the rows a body read in its snapshot are the rows there are.
LEMMA SameRows ==
    ASSUME NEW tables, NEW c, NEW d, Serializable(tables, c, d)
    PROVE  /\ tables.quota[QuotaRow(c, d)] = scopeTables.quota[QuotaRow(c, d)]
           /\ Reserved(tables, c) <=> Reserved(scopeTables, c)
           /\ c.value # Missing => tables.value[ValueRow(c)] = scopeTables.value[ValueRow(c)]
           /\ ValueReserved(tables, c) <=> ValueReserved(scopeTables, c)
BY DEF Serializable, Touched, Reserved, ValueReserved

\* An admission that spends nothing leaves the account as it is.
LEMMA AdmitsFree ==
    ASSUME McInv, NEW x \in ScopeAnswer, ~x.spent.freshDay, ~x.spent.freshTotal,
           ~SpendsDay(x.claim), ~SpendsTotal(x.call, x.claim),
           scopeAdmitted' = scopeAdmitted \cup {x}, UNCHANGED scopeTables
    PROVE  /\ scopeAdmitted' \subseteq ScopeAnswer /\ IsFiniteSet(scopeAdmitted')
           /\ McRemembered' /\ McLimits' /\ McOnce' /\ McDays' /\ McTotals' /\ McBacked'
<1>1. scopeAdmitted' \subseteq ScopeAnswer
  BY DEF McInv, McTypeOK
<1>2. IsFiniteSet(scopeAdmitted')
  BY FS_AddElement DEF McInv
<1>3. McRemembered' /\ McLimits'
  BY DEF McInv, McRemembered, McLimits
<1>4. McOnce'
  BY DEF McInv, McOnce
<1>5. \A t, d : CountedOn(t, d)' = CountedOn(t, d) /\ SpentIn(t, d)' = SpentIn(t, d)
  BY DEF CountedOn, SpentIn
<1>6. McDays'
  <2>1. McDays
    BY DEF McInv
  <2> QED BY <1>5, <2>1 DEF McDays, OrZero
<1>7. McTotals'
  <2>1. McTotals
    BY DEF McInv
  <2> QED BY <1>5, <2>1 DEF McTotals, OrZero, ValueOf
<1>8. McBacked'
  BY DEF McInv, McBacked
<1> QED BY <1>1, <1>2, <1>3, <1>4, <1>6, <1>7, <1>8

StartedRun(c, claim) ==
    [at |-> "begin", call |-> c, claim |-> claim, day |-> today,
     attempt |-> 1, snapshot |-> scopeTables, n |-> brStarted + 1]

LEMMA StartScopeStep ==
    ASSUME McInv, NEW w \in BrWorkers, NEW c \in BrCalls, NEW claim \in BrClaims, StartScope(w, c, claim)
    PROVE  McInv'
<1>1. /\ McTypeOK /\ McRunsOk /\ IsFiniteSet(scopeAdmitted)
      /\ McRemembered /\ McLimits /\ McOnce /\ McDays /\ McTotals /\ McBacked
  BY DEF McInv
<1>2. brStarted + 1 \in 1..MaxBrCalls /\ brStarted' \in 0..MaxBrCalls /\ UNCHANGED <<scopeTables, today>>
  BY <1>1, McAssumption DEF StartScope, McTypeOK
<1>3. CASE UNCHANGED <<scopeCall, scopeAdmitted>>
  <2>1. McTypeOK' /\ McRunsOk'
    BY <1>1, <1>2, <1>3 DEF McTypeOK, McRunsOk
  <2>2. McRemembered' /\ McLimits' /\ McOnce' /\ McBacked'
    BY <1>1, <1>2, <1>3 DEF McRemembered, McLimits, McOnce, McBacked
  <2>3. McDays' /\ McTotals'
    BY <1>1, <1>2, <1>3 DEF McDays, McTotals, CountedOn, SpentIn, ValueOf
  <2> QED BY <1>1, <1>3, <2>1, <2>2, <2>3 DEF McInv
<1>4. CASE ~ScopeRefuses(c, claim) /\ scopeCall' = [scopeCall EXCEPT ![w] = StartedRun(c, claim)] /\ UNCHANGED scopeAdmitted
  <2>1. c.token \in BrTokens
    BY <1>4, McAssumption DEF ScopeRefuses
  <2>2. StartedRun(c, claim) \in ScopeRun /\ StartedRun(c, claim).call = c
    BY <1>1, <1>2 DEF StartedRun, ScopeRun, McTypeOK
  <2>3. McTypeOK'
    BY <1>1, <1>2, <1>4, <2>2 DEF McTypeOK
  <2>4. McRunsOk'
    BY <1>1, <1>4, <2>1, <2>2 DEF McTypeOK, McRunsOk
  <2>5. McRemembered' /\ McLimits' /\ McOnce' /\ McBacked'
    BY <1>1, <1>2, <1>4 DEF McRemembered, McLimits, McOnce, McBacked
  <2>6. McDays' /\ McTotals'
    BY <1>1, <1>2, <1>4 DEF McDays, McTotals, CountedOn, SpentIn, ValueOf
  <2> QED BY <1>1, <1>4, <2>3, <2>4, <2>5, <2>6 DEF McInv
<1>5. CASE /\ ~SpendsDay(claim) /\ ~SpendsTotal(c, claim) /\ UNCHANGED scopeCall
           /\ scopeAdmitted' = scopeAdmitted \cup {Admission(brStarted + 1, c, claim, today, FreeOfCharge, TRUE)}
  <2> PICK x : x = Admission(brStarted + 1, c, claim, today, FreeOfCharge, TRUE)
    OBVIOUS
  <2>1. x \in ScopeAnswer /\ ~x.spent.freshDay /\ ~x.spent.freshTotal /\ x.claim = claim /\ x.call = c
    BY <1>1, <1>2 DEF Admission, FreeOfCharge, ScopeAnswer, Spending, McTypeOK, Missing
  <2>2. /\ scopeAdmitted' \subseteq ScopeAnswer /\ IsFiniteSet(scopeAdmitted')
        /\ McRemembered' /\ McLimits' /\ McOnce' /\ McDays' /\ McTotals' /\ McBacked'
    BY <1>2, <1>5, <2>1, AdmitsFree
  <2>3. McTypeOK' /\ McRunsOk'
    BY <1>1, <1>2, <1>5, <2>2 DEF McTypeOK, McRunsOk
  <2> QED BY <2>2, <2>3 DEF McInv
<1> QED BY <1>3, <1>4, <1>5 DEF StartScope, StartedRun

\* Steps that only move a validation.
LEMMA McMoves ==
    ASSUME McInv, NEW w \in BrWorkers, NEW k,
           k = NoScopeCall \/ (k \in ScopeRun /\ k.call.token \in BrTokens),
           scopeCall' = [scopeCall EXCEPT ![w] = k], UNCHANGED <<today, brStarted>>
    PROVE  /\ scopeCall' \in [BrWorkers -> ScopeRun \cup {NoScopeCall}] /\ McRunsOk'
           /\ today' \in 0..MaxDay /\ brStarted' \in 0..MaxBrCalls
<1>1. scopeCall' \in [BrWorkers -> ScopeRun \cup {NoScopeCall}]
  BY DEF McInv, McTypeOK
<1>2. McRunsOk'
  BY DEF McInv, McTypeOK, McRunsOk, NoScopeCall
<1> QED BY <1>1, <1>2 DEF McInv, McTypeOK

LEMMA SameAccount ==
    ASSUME McInv, UNCHANGED <<scopeTables, scopeAdmitted>>
    PROVE  /\ scopeTables' \in ScopeTables /\ scopeAdmitted' \subseteq ScopeAnswer
           /\ IsFiniteSet(scopeAdmitted')
           /\ McRemembered' /\ McLimits' /\ McOnce' /\ McDays' /\ McTotals' /\ McBacked'
<1>1. scopeTables' \in ScopeTables /\ scopeAdmitted' \subseteq ScopeAnswer /\ IsFiniteSet(scopeAdmitted')
  BY DEF McInv, McTypeOK
<1>2. McRemembered' /\ McLimits' /\ McOnce' /\ McBacked'
  BY DEF McInv, McRemembered, McLimits, McOnce, McBacked
<1>3. McDays' /\ McTotals'
  BY DEF McInv, McDays, McTotals, CountedOn, SpentIn, ValueOf
<1> QED BY <1>1, <1>2, <1>3

LEMMA BeginScopeStep ==
    ASSUME McInv, NEW w \in BrWorkers, BeginScope(w)
    PROVE  McInv'
<1> PICK s : s = scopeCall[w]
  OBVIOUS
<1> PICK k : k = [s EXCEPT !.at = "body", !.snapshot = scopeTables]
  OBVIOUS
<1>1. s \in ScopeRun /\ s.call.token \in BrTokens
  BY DEF McInv, McRunsOk, BeginScope
<1>2. k \in ScopeRun /\ k.call.token \in BrTokens
  BY <1>1 DEF ScopeRun, McInv, McTypeOK
<1>3. scopeCall' = [scopeCall EXCEPT ![w] = k] /\ UNCHANGED <<scopeTables, today, brStarted, scopeAdmitted>>
  BY DEF BeginScope
<1> QED BY <1>2, <1>3, McMoves, SameAccount DEF McInv, McTypeOK

\* An admission that spends writes what it spent: the counters follow.
LEMMA Spends ==
    ASSUME McInv, NEW s \in ScopeRun, s.call.token \in BrTokens, NEW heard \in BOOLEAN, NEW r,
           r = RunScopeTxBody(s.snapshot, s.call, s.claim, s.day), r.ok,
           Serializable(s.snapshot, s.call, s.day),
           scopeTables' = WriteScope(s, r),
           scopeAdmitted' = scopeAdmitted \cup {Admission(s.n, s.call, s.claim, s.day, r, heard)}
    PROVE  /\ scopeTables' \in ScopeTables /\ scopeAdmitted' \subseteq ScopeAnswer
           /\ IsFiniteSet(scopeAdmitted')
           /\ McRemembered' /\ McLimits' /\ McOnce' /\ McDays' /\ McTotals' /\ McBacked'
<1> PICK x : x = Admission(s.n, s.call, s.claim, s.day, r, heard)
  OBVIOUS
<1> PICK c : c = s.call
  OBVIOUS
<1>0. /\ s.snapshot \in ScopeTables /\ c \in BrCalls /\ s.claim \in BrClaims /\ s.day \in 0..MaxDay
      /\ s.n \in 1..MaxBrCalls /\ c.token \in BrTokens
  BY DEF ScopeRun
<1>1. /\ scopeTables \in ScopeTables /\ scopeAdmitted \subseteq ScopeAnswer /\ IsFiniteSet(scopeAdmitted)
      /\ McRemembered /\ McLimits /\ McOnce /\ McDays /\ McTotals /\ McBacked
  BY DEF McInv, McTypeOK
<1>2. /\ x \in [n : {s.n}, call : {c}, claim : {s.claim}, day : {s.day}, spent : {r}, heard : {heard}]
      /\ x.call = c /\ x.claim = s.claim /\ x.day = s.day /\ x.spent = r
  BY DEF Admission
<1> DEFINE q == scopeTables.quota[QuotaRow(c, s.day)]
           v == scopeTables.value[ValueRow(c)]
<1>3. /\ r \in Spending
      /\ SpendsDay(s.claim) => r.freshDay \/ Reserved(scopeTables, c)
      /\ SpendsTotal(c, s.claim) => r.freshTotal \/ ValueReserved(scopeTables, c)
      /\ r.freshDay => /\ ~Reserved(scopeTables, c)
                       /\ r.calls = CheckAndIncrement(q, 1, s.claim.perDay)
                       /\ r.calls # Missing
      /\ r.freshTotal => /\ ~ValueReserved(scopeTables, c) /\ c.value # Missing
                         /\ r.sum = CheckAndIncrement(v, c.value, s.claim.total)
                         /\ r.sum # Missing
  <2>1. /\ s.snapshot.quota[QuotaRow(c, s.day)] = q
        /\ Reserved(s.snapshot, c) <=> Reserved(scopeTables, c)
        /\ c.value # Missing => s.snapshot.value[ValueRow(c)] = v
        /\ ValueReserved(s.snapshot, c) <=> ValueReserved(scopeTables, c)
    BY SameRows
  <2>2. /\ r \in Spending
        /\ SpendsDay(s.claim) => r.freshDay \/ Reserved(s.snapshot, c)
        /\ SpendsTotal(c, s.claim) => r.freshTotal \/ ValueReserved(s.snapshot, c)
        /\ r.freshDay => /\ ~Reserved(s.snapshot, c)
                         /\ r.calls = CheckAndIncrement(s.snapshot.quota[QuotaRow(c, s.day)], 1, s.claim.perDay)
                         /\ r.ok => r.calls # Missing
        /\ r.freshTotal => /\ ~ValueReserved(s.snapshot, c) /\ c.value # Missing
                           /\ r.sum = CheckAndIncrement(s.snapshot.value[ValueRow(c)], c.value, s.claim.total)
                           /\ r.ok => r.sum # Missing
    BY <1>0, BodyIs
  <2> HIDE DEF q, v
  <2> QED BY <2>1, <2>2
<1>4. c.currency \in Currencies /\ c.value \in Nat \cup {Missing} /\ s.claim.perDay \in Int /\ s.claim.total \in Int /\ c.key \in BrKeys
  BY <1>0, McAssumption DEF Claim, BrKeys
<1>5. q \in Nat \cup {Missing} /\ v \in Nat \cup {Missing}
  BY <1>0, <1>1, <1>4 DEF ScopeTables, QuotaRow, ValueRow
<1> HIDE DEF q, v
<1>6. r.freshDay => /\ r.calls \in Nat /\ OrZero(r.calls) = OrZero(q) + 1
                    /\ r.calls <= s.claim.perDay \/ r.calls = 1
  BY <1>3, <1>4, <1>5, CountsUp
<1>7. r.freshTotal => /\ c.value \in Nat /\ r.sum \in Nat /\ OrZero(r.sum) = OrZero(v) + c.value
                      /\ r.sum <= s.claim.total \/ r.sum = c.value
  BY <1>3, <1>4, <1>5, CountsUp
<1>8. x \in ScopeAnswer /\ scopeAdmitted' = scopeAdmitted \cup {x}
  BY <1>0, <1>2, <1>3 DEF ScopeAnswer
<1>9. scopeAdmitted' \subseteq ScopeAnswer /\ IsFiniteSet(scopeAdmitted')
  BY <1>1, <1>8, FS_AddElement
<1>10. /\ scopeTables'.quota = IF r.freshDay THEN [scopeTables.quota EXCEPT ![QuotaRow(c, s.day)] = r.calls]
                               ELSE scopeTables.quota
       /\ scopeTables'.value = IF r.freshTotal THEN [scopeTables.value EXCEPT ![ValueRow(c)] = r.sum]
                               ELSE scopeTables.value
       /\ scopeTables'.quotaIdem = scopeTables.quotaIdem \cup (IF r.freshDay THEN {<<c.key, c.token>>} ELSE {})
       /\ scopeTables'.valueIdem = scopeTables.valueIdem \cup
                                   (IF r.freshTotal THEN {<<c.key, c.token, c.currency>>} ELSE {})
       /\ scopeTables' = [quota |-> scopeTables'.quota, value |-> scopeTables'.value,
                          quotaIdem |-> scopeTables'.quotaIdem, valueIdem |-> scopeTables'.valueIdem]
  BY DEF WriteScope
<1>11. scopeTables' \in ScopeTables
  <2>1. scopeTables'.quota \in [BrTokens \X (0..MaxDay) -> Nat \cup {Missing}]
    BY <1>0, <1>1, <1>6, <1>10 DEF ScopeTables, QuotaRow
  <2>2. scopeTables'.value \in [BrTokens \X Currencies -> Nat \cup {Missing}]
    BY <1>0, <1>1, <1>4, <1>7, <1>10 DEF ScopeTables, ValueRow
  <2>3. scopeTables'.quotaIdem \in SUBSET (BrKeys \X BrTokens) /\ scopeTables'.valueIdem \in SUBSET (BrKeys \X BrTokens \X Currencies)
    BY <1>0, <1>1, <1>4, <1>10 DEF ScopeTables
  <2> QED BY <1>10, <2>1, <2>2, <2>3 DEF ScopeTables
<1>12. McLimits'
  BY <1>1, <1>2, <1>6, <1>7, <1>8 DEF McLimits
<1>13. McRemembered'
  <2>1. ASSUME NEW a \in scopeAdmitted'
        PROVE  /\ a.spent.freshDay => <<a.call.key, a.call.token>> \in scopeTables'.quotaIdem
               /\ a.spent.freshTotal => <<a.call.key, a.call.token, a.call.currency>> \in scopeTables'.valueIdem
               /\ a.spent.freshTotal => a.call.value \in Nat
    <3>1. CASE a = x
      BY <1>2, <1>7, <1>10, <3>1
    <3>2. CASE a \in scopeAdmitted
      BY <1>1, <1>10, <3>2 DEF McRemembered
    <3> QED BY <1>8, <3>1, <3>2
  <2> QED BY <2>1 DEF McRemembered
<1>14. ASSUME NEW a \in scopeAdmitted, a.call.key = c.key, a.call.token = c.token
       PROVE  /\ ~(a.spent.freshDay /\ r.freshDay)
              /\ ~(a.spent.freshTotal /\ r.freshTotal /\ a.call.currency = c.currency)
  BY <1>1, <1>3, <1>14 DEF McRemembered, Reserved, ValueReserved
<1>15. McOnce'
  <2>1. ASSUME NEW a \in scopeAdmitted', NEW b \in scopeAdmitted', a # b, a.call.key = b.call.key, a.call.token = b.call.token
        PROVE  /\ ~(a.spent.freshDay /\ b.spent.freshDay)
               /\ ~(a.spent.freshTotal /\ b.spent.freshTotal /\ a.call.currency = b.call.currency)
    <3>1. CASE a \in scopeAdmitted /\ b \in scopeAdmitted
      BY <1>1, <2>1, <3>1 DEF McOnce
    <3>2. CASE a \in scopeAdmitted /\ b = x
      BY <1>2, <1>14, <2>1, <3>2
    <3>3. CASE b \in scopeAdmitted /\ a = x
      BY <1>2, <1>14, <2>1, <3>3
    <3> QED BY <1>8, <2>1, <3>1, <3>2, <3>3
  <2> QED BY <2>1 DEF McOnce
<1>16. r.freshDay \/ r.freshTotal => x \notin scopeAdmitted
  BY <1>2, <1>14
<1>17. McDays'
  <2>1. ASSUME NEW t \in BrTokens, NEW d \in 0..MaxDay
        PROVE  OrZero(scopeTables'.quota[<<t, d>>]) = Cardinality(CountedOn(t, d)')
    <3>1. OrZero(scopeTables.quota[<<t, d>>]) = Cardinality(CountedOn(t, d))
      BY <1>1 DEF McDays
    <3>2. CASE r.freshDay /\ t = c.token /\ d = s.day
      <4>1. CountedOn(t, d)' = CountedOn(t, d) \cup {x} /\ x \notin CountedOn(t, d) /\ IsFiniteSet(CountedOn(t, d))
        <5>1. CountedOn(t, d)' = CountedOn(t, d) \cup {x} /\ CountedOn(t, d) \subseteq scopeAdmitted
          BY <1>2, <1>8, <3>2 DEF CountedOn
        <5> QED BY <1>1, <1>16, <3>2, <5>1, FS_Subset
      <4>2. Cardinality(CountedOn(t, d) \cup {x}) = Cardinality(CountedOn(t, d)) + 1
        BY <4>1, FS_AddElement
      <4>3. scopeTables'.quota[<<t, d>>] = r.calls /\ scopeTables.quota[<<t, d>>] = q
        BY <1>0, <1>1, <1>10, <3>2 DEF QuotaRow, q, ScopeTables
      <4> QED BY <1>6, <3>1, <3>2, <4>1, <4>2, <4>3
    <3>3. CASE ~(r.freshDay /\ t = c.token /\ d = s.day)
      <4>1. CountedOn(t, d)' = CountedOn(t, d)
        BY <1>2, <1>8, <3>3 DEF CountedOn
      <4>2. scopeTables'.quota[<<t, d>>] = scopeTables.quota[<<t, d>>]
        BY <1>0, <1>1, <1>10, <3>3 DEF QuotaRow, ScopeTables
      <4> QED BY <3>1, <4>1, <4>2
    <3> QED BY <3>2, <3>3
  <2> QED BY <2>1 DEF McDays, OrZero
<1>18. McTotals'
  <2>1. ASSUME NEW t \in BrTokens, NEW cur \in Currencies
        PROVE  OrZero(scopeTables'.value[<<t, cur>>]) = ValueOf(SpentIn(t, cur)')
    <3>1. OrZero(scopeTables.value[<<t, cur>>]) = ValueOf(SpentIn(t, cur))
      BY <1>1 DEF McTotals
    <3>2. CASE r.freshTotal /\ t = c.token /\ cur = c.currency
      <4>1. SpentIn(t, cur)' = SpentIn(t, cur) \cup {x} /\ x \notin SpentIn(t, cur) /\ IsFiniteSet(SpentIn(t, cur))
        <5>1. SpentIn(t, cur)' = SpentIn(t, cur) \cup {x} /\ SpentIn(t, cur) \subseteq scopeAdmitted
          BY <1>2, <1>8, <3>2 DEF SpentIn
        <5> QED BY <1>1, <1>16, <3>2, <5>1, FS_Subset
      <4>2. \A a \in SpentIn(t, cur) : a.call.value \in Nat
        BY <1>1 DEF SpentIn, McRemembered
      <4>3. x.call.value \in Nat /\ x.call.value = c.value
        BY <1>2, <1>7, <3>2
      <4>4. ValueOf(SpentIn(t, cur) \cup {x}) = ValueOf(SpentIn(t, cur)) + x.call.value
        BY <4>1, <4>2, <4>3, ValueAdd
      <4>5. scopeTables'.value[<<t, cur>>] = r.sum /\ scopeTables.value[<<t, cur>>] = v
        BY <1>0, <1>1, <1>4, <1>10, <3>2 DEF ValueRow, v, ScopeTables
      <4> QED BY <1>7, <3>1, <3>2, <4>1, <4>3, <4>4, <4>5
    <3>3. CASE ~(r.freshTotal /\ t = c.token /\ cur = c.currency)
      <4>1. SpentIn(t, cur)' = SpentIn(t, cur)
        BY <1>2, <1>8, <3>3 DEF SpentIn
      <4>2. scopeTables'.value[<<t, cur>>] = scopeTables.value[<<t, cur>>]
        BY <1>0, <1>1, <1>4, <1>10, <3>3 DEF ValueRow, ScopeTables
      <4> QED BY <3>1, <4>1, <4>2
    <3> QED BY <3>2, <3>3
  <2> QED BY <2>1 DEF McTotals, OrZero, ValueOf
<1>19. McBacked'
  <2>1. ASSUME NEW a \in scopeAdmitted'
        PROVE  /\ SpendsDay(a.claim) => <<a.call.key, a.call.token>> \in scopeTables'.quotaIdem
               /\ SpendsTotal(a.call, a.claim) => <<a.call.key, a.call.token, a.call.currency>> \in scopeTables'.valueIdem
    <3>1. CASE a = x
      <4>1. SpendsDay(s.claim) => <<c.key, c.token>> \in scopeTables'.quotaIdem
        BY <1>3, <1>10 DEF Reserved
      <4>2. SpendsTotal(c, s.claim) => <<c.key, c.token, c.currency>> \in scopeTables'.valueIdem
        BY <1>3, <1>10 DEF ValueReserved
      <4> QED BY <1>2, <3>1, <4>1, <4>2
    <3>2. CASE a \in scopeAdmitted
      BY <1>1, <1>10, <3>2 DEF McBacked
    <3> QED BY <1>8, <3>1, <3>2
  <2>2. ASSUME NEW k \in scopeTables'.quotaIdem
        PROVE  \E b \in scopeAdmitted' : b.spent.freshDay /\ k = <<b.call.key, b.call.token>>
    <3>1. CASE k \in scopeTables.quotaIdem
      BY <1>1, <1>8, <3>1 DEF McBacked
    <3>2. CASE r.freshDay /\ k = <<c.key, c.token>>
      BY <1>2, <1>8, <3>2
    <3> QED BY <1>10, <3>1, <3>2
  <2>3. ASSUME NEW k \in scopeTables'.valueIdem
        PROVE  \E b \in scopeAdmitted' : b.spent.freshTotal /\ k = <<b.call.key, b.call.token, b.call.currency>>
    <3>1. CASE k \in scopeTables.valueIdem
      BY <1>1, <1>8, <3>1 DEF McBacked
    <3>2. CASE r.freshTotal /\ k = <<c.key, c.token, c.currency>>
      BY <1>2, <1>8, <3>2
    <3> QED BY <1>10, <3>1, <3>2
  <2> QED BY <2>1, <2>2, <2>3 DEF McBacked
<1> QED BY <1>9, <1>11, <1>12, <1>13, <1>15, <1>17, <1>18, <1>19

LEMMA EndScopeStep ==
    ASSUME McInv, NEW w \in BrWorkers, EndScope(w)
    PROVE  McInv'
<1> PICK s : s = scopeCall[w]
  OBVIOUS
<1> PICK r : r = RunScopeTxBody(s.snapshot, s.call, s.claim, s.day)
  OBVIOUS
<1>1. s \in ScopeRun /\ s.call.token \in BrTokens
  BY DEF McInv, McRunsOk, EndScope
<1>2. UNCHANGED <<today, brStarted>>
  BY DEF EndScope
<1>3. CASE ~Serializable(s.snapshot, s.call, s.day)
  <2> PICK k : k = IF s.attempt < BrRetryMax THEN [s EXCEPT !.at = "begin", !.attempt = @ + 1] ELSE NoScopeCall
    OBVIOUS
  <2>1. scopeCall' = [scopeCall EXCEPT ![w] = k] /\ UNCHANGED <<scopeTables, scopeAdmitted>>
    BY <1>3 DEF EndScope
  <2>2. k = NoScopeCall \/ (k \in ScopeRun /\ k.call.token \in BrTokens)
    <3>1. s.attempt + 1 \in Nat
      BY <1>1 DEF ScopeRun
    <3>2. k = NoScopeCall \/ k = [s EXCEPT !.at = "begin", !.attempt = s.attempt + 1]
      OBVIOUS
    <3> QED BY <1>1, <3>1, <3>2 DEF ScopeRun
  <2> QED BY <1>2, <2>1, <2>2, McMoves, SameAccount DEF McInv, McTypeOK
<1>4. CASE Serializable(s.snapshot, s.call, s.day) /\ r.ok
  <2>1. PICK heard \in BOOLEAN :
           /\ scopeTables' = WriteScope(s, r)
           /\ scopeAdmitted' = scopeAdmitted \cup {Admission(s.n, s.call, s.claim, s.day, r, heard)}
           /\ scopeCall' = [scopeCall EXCEPT ![w] = NoScopeCall]
    BY <1>4 DEF EndScope
  <2>2. /\ scopeCall' \in [BrWorkers -> ScopeRun \cup {NoScopeCall}] /\ McRunsOk'
        /\ today' \in 0..MaxDay /\ brStarted' \in 0..MaxBrCalls
    BY <1>2, <2>1, McMoves
  <2> QED BY <1>1, <1>4, <2>1, <2>2, Spends DEF McInv, McTypeOK
<1>5. CASE Serializable(s.snapshot, s.call, s.day) /\ ~r.ok
  <2>1. UNCHANGED <<scopeTables, scopeAdmitted>> /\ scopeCall' = [scopeCall EXCEPT ![w] = NoScopeCall]
    BY <1>5 DEF EndScope
  <2> QED BY <1>2, <2>1, McMoves, SameAccount DEF McInv, McTypeOK
<1> QED BY <1>3, <1>4, <1>5

LEMMA McInvInit == McInit => McInv
<1> SUFFICES ASSUME McInit PROVE McInv
  OBVIOUS
<1>1. McTypeOK
  BY McAssumption DEF McInit, McTypeOK, ScopeTables, NoScopeCall
<1>2. McRunsOk
  BY DEF McInit, McRunsOk, NoScopeCall
<1>3. IsFiniteSet(scopeAdmitted)
  BY FS_EmptySet DEF McInit
<1>4. McRemembered /\ McLimits /\ McOnce /\ McBacked
  BY DEF McInit, McRemembered, McLimits, McOnce, McBacked
<1>5. \A t, d : CountedOn(t, d) = {} /\ SpentIn(t, d) = {}
  BY DEF McInit, CountedOn, SpentIn
<1>6. Cardinality({}) = 0 /\ ValueOf({}) = 0
  BY FS_EmptySet, SumEmpty DEF ValueOf
<1>7. McDays
  BY <1>5, <1>6 DEF McInit, McDays, OrZero
<1>8. McTotals
  BY <1>5, <1>6 DEF McInit, McTotals, OrZero
<1> QED BY <1>1, <1>2, <1>3, <1>4, <1>7, <1>8 DEF McInv

LEMMA McInvStep == McInv /\ [McNext]_scopeVars => McInv'
<1> SUFFICES ASSUME McInv, [McNext]_scopeVars PROVE McInv'
  OBVIOUS
<1>1. CASE UNCHANGED <<scopeTables, scopeCall, brStarted, scopeAdmitted>> /\ today' \in 0..MaxDay
  <2>1. McRunsOk' /\ McTypeOK'
    BY <1>1 DEF McInv, McRunsOk, McTypeOK
  <2> QED BY <1>1, <2>1, SameAccount DEF McInv
<1>2. CASE NextDay
  BY <1>1, <1>2, McAssumption DEF NextDay, McInv, McTypeOK
<1>3. CASE UNCHANGED scopeVars
  BY <1>1, <1>3 DEF scopeVars, McInv, McTypeOK
<1>4. ASSUME NEW w \in BrWorkers,
             (\E c \in BrCalls, claim \in BrClaims : StartScope(w, c, claim)) \/ BeginScope(w) \/ EndScope(w)
      PROVE  McInv'
  BY <1>4, StartScopeStep, BeginScopeStep, EndScopeStep
<1>5. ASSUME NEW w \in BrWorkers, ScopeThrows(w) PROVE McInv'
  <2>1. scopeCall' = [scopeCall EXCEPT ![w] = NoScopeCall] /\ UNCHANGED <<scopeTables, today, brStarted, scopeAdmitted>>
    BY <1>5 DEF ScopeThrows
  <2> QED BY <2>1, McMoves, SameAccount DEF McInv, McTypeOK
<1> QED BY <1>2, <1>3, <1>4, <1>5 DEF McNext

\* Whatever validations overlap, are refused, start over, throw or lose the reply to their
\* COMMIT, the bridge's durable counters are the number and the sum of the calls it let through,
\* and every one that had to spend, heard or not, left or found its idempotency row, which an
\* admission that spent has written (validateScope, runScopeTxBody).
THEOREM BridgeCountersKeepTrack == McSpec => []McInv
<1>1. McInit => McInv
  BY McInvInit
<1>2. McInv /\ [McNext]_scopeVars => McInv'
  BY McInvStep
<1> QED BY <1>1, <1>2, PTL DEF McSpec

-----------------------------------------------------------------------------
(* The bridge's calls and its server (McpBridge)                            *)

\* Past the revocation check the binding was not revoked when the call began, for
\* a revocation is never taken back.
SendersOk ==
    \A r \in BrResolvers :
        /\ sender[r].at \in {"did", "resolved"} => ~sender[r].wasRevoked
        /\ sender[r].at = "revocation" /\ sender[r].wasRevoked => bindingRevoked # NotRevoked

\* The server: a cleanup that awaits the socket has closed the MCP server, nothing is held before
\* start() nor after a cleanup has ended.
ServerFits(s) ==
    /\ s \in ServerState
    /\ \A c \in Cleaners : s.cleaning[c] = "http" => s.mcp = FALSE
    /\ s.state = "created" => s.mcp = FALSE /\ s.http = FALSE /\ s.starting = "no" /\ \A c \in Cleaners : s.cleaning[c] = "no"
    /\ s.state \in {"stopped", "error"} => s.mcp = FALSE /\ s.http = FALSE
ServerOk == ServerFits(server)

BrInv == BrTypeOK /\ SendersOk /\ BridgeSendersAreBound /\ ServerOk

\* The steps of the calls leave the server alone, and the other way round.
LEMMA SameServer ==
    ASSUME ServerOk, server \in ServerState, UNCHANGED server
    PROVE  ServerOk' /\ server' \in ServerState
BY DEF ServerOk, ServerFits

LEMMA SameCalls ==
    ASSUME BrInv, UNCHANGED <<senderVars, outbox, shown>>, server' \in ServerState, ServerOk'
    PROVE  BrInv'
<1>1. BrTypeOK'
  BY DEF BrInv, BrTypeOK, senderVars
<1>2. SendersOk'
  BY DEF BrInv, SendersOk, senderVars
<1>3. BridgeSendersAreBound'
  BY DEF BrInv, BridgeSendersAreBound
<1> QED BY <1>1, <1>2, <1>3 DEF BrInv

\* A resolution moves on or ends.
LEMMA ResolutionMoves ==
    ASSUME BrInv, NEW r \in BrResolvers, NEW k,
           \/ k = NoResolution
           \/ /\ k \in Resolving
              /\ k.at \in {"did", "resolved"} => ~k.wasRevoked
              /\ k.at = "revocation" /\ k.wasRevoked => bindingRevoked # NotRevoked,
           sender' = [sender EXCEPT ![r] = k], UNCHANGED bindingRevoked
    PROVE  sender' \in [BrResolvers -> Resolving \cup {NoResolution}] /\ SendersOk'
<1>1. sender \in [BrResolvers -> Resolving \cup {NoResolution}] /\ SendersOk
  BY DEF BrInv, BrTypeOK
<1>2. sender' \in [BrResolvers -> Resolving \cup {NoResolution}]
  BY <1>1
<1>3. SendersOk'
  BY <1>1 DEF SendersOk, NoResolution
<1> QED BY <1>2, <1>3

LEMMA ResolutionSteps ==
    ASSUME BrInv, NEW r \in BrResolvers, LookupBinding(r) \/ CheckRevocation(r) \/ ResolveSender(r)
    PROVE  BrInv'
<1>1. UNCHANGED <<brNow, binding, bindingRevoked, outbox, shown, server>>
  BY DEF LookupBinding, CheckRevocation, ResolveSender
<1> PICK s : s = sender[r]
  OBVIOUS
<1>2. s \in Resolving \cup {NoResolution} /\ SendersOk
  BY DEF BrInv, BrTypeOK
<1>3. \E k : /\ sender' = [sender EXCEPT ![r] = k]
             /\ \/ k = NoResolution
                \/ /\ k \in Resolving
                   /\ k.at \in {"did", "resolved"} => ~k.wasRevoked
                   /\ k.at = "revocation" /\ k.wasRevoked => bindingRevoked # NotRevoked
  <2>1. CASE LookupBinding(r)
    <3> PICK k : k = [at |-> "revocation", agent |-> binding.agent,
                      began |-> brNow, wasRevoked |-> bindingRevoked # NotRevoked]
      OBVIOUS
    <3>1. binding.agent \in BrAgents /\ brNow \in 0..MaxBrTime
      BY <2>1 DEF LookupBinding, BrInv, BrTypeOK
    <3>2. k \in Resolving /\ k.at = "revocation" /\ (k.wasRevoked => bindingRevoked # NotRevoked)
      BY <3>1 DEF Resolving
    <3> QED BY <2>1, <3>2 DEF LookupBinding
  <2>2. CASE sender' = [sender EXCEPT ![r] = NoResolution]
    BY <2>2
  <2>3. CASE s.at = "revocation" /\ bindingRevoked = NotRevoked /\ sender' = [sender EXCEPT ![r].at = "did"]
    <3> PICK k : k = [s EXCEPT !.at = "did"]
      OBVIOUS
    <3>1. s \in Resolving /\ ~s.wasRevoked
      BY <1>2, <2>3 DEF SendersOk, NoResolution, Resolving
    <3>2. k \in Resolving /\ k.at = "did" /\ ~k.wasRevoked
      BY <3>1 DEF Resolving
    <3>3. sender' = [sender EXCEPT ![r] = k]
      BY <2>3
    <3> QED BY <3>2, <3>3
  <2>4. CASE s.at = "did" /\ sender' = [sender EXCEPT ![r].at = "resolved"]
    <3> PICK k : k = [s EXCEPT !.at = "resolved"]
      OBVIOUS
    <3>1. s \in Resolving /\ ~s.wasRevoked
      BY <1>2, <2>4 DEF SendersOk, NoResolution, Resolving
    <3>2. k \in Resolving /\ k.at = "resolved" /\ ~k.wasRevoked
      BY <3>1 DEF Resolving
    <3>3. sender' = [sender EXCEPT ![r] = k]
      BY <2>4
    <3> QED BY <3>2, <3>3
  <2> QED BY <2>1, <2>2, <2>3, <2>4 DEF CheckRevocation, ResolveSender
<1>4. sender' \in [BrResolvers -> Resolving \cup {NoResolution}] /\ SendersOk'
  BY <1>1, <1>3, ResolutionMoves
<1>5. ServerOk' /\ server' \in ServerState
  BY <1>1, SameServer DEF BrInv, BrTypeOK
<1>6. BrTypeOK'
  BY <1>1, <1>4, <1>5 DEF BrInv, BrTypeOK
<1>7. BridgeSendersAreBound'
  BY <1>1 DEF BrInv, BridgeSendersAreBound
<1> QED BY <1>4, <1>5, <1>6, <1>7 DEF BrInv

LEMMA CreateOutboxRowStep ==
    ASSUME BrInv, NEW r \in BrResolvers, NEW m \in McpMessages, CreateOutboxRow(r, m)
    PROVE  BrInv'
<1>1. UNCHANGED <<brNow, binding, bindingRevoked, shown, server>> /\ sender' = [sender EXCEPT ![r] = NoResolution]
  BY DEF CreateOutboxRow
<1> PICK s : s = sender[r]
  OBVIOUS
<1> PICK x : x = [owner |-> Subject("agentDid", s.agent), wasRevoked |-> s.wasRevoked]
  OBVIOUS
<1>2. s \in Resolving /\ ~s.wasRevoked
  BY DEF CreateOutboxRow, BrInv, BrTypeOK, SendersOk, NoResolution
<1>3. x \in OutboxRow /\ ~x.wasRevoked
  BY <1>2 DEF OutboxRow, Subject, Subjects, Resolving
<1>4. outbox' \subseteq outbox \cup {x}
  BY DEF CreateOutboxRow
<1>5. sender' \in [BrResolvers -> Resolving \cup {NoResolution}] /\ SendersOk'
  BY <1>1, ResolutionMoves
<1>6. ServerOk' /\ server' \in ServerState
  BY <1>1, SameServer DEF BrInv, BrTypeOK
<1>7. BrTypeOK'
  BY <1>1, <1>3, <1>4, <1>5, <1>6 DEF BrInv, BrTypeOK
<1>8. BridgeSendersAreBound'
  BY <1>1, <1>3, <1>4 DEF BrInv, BridgeSendersAreBound
<1> QED BY <1>5, <1>6, <1>7, <1>8 DEF BrInv

LEMMA WorldSteps ==
    ASSUME BrInv, ChangeBinding \/ BrTick
    PROVE  BrInv'
<1>1. UNCHANGED <<sender, outbox, shown, server>>
  BY DEF ChangeBinding, BrTick
<1>2. /\ brNow' \in 0..MaxBrTime /\ bindingRevoked' \in 0..MaxBrTime \cup {NotRevoked}
      /\ binding' \in [agent : BrAgents \cup {"none"}, notAfter : 0..MaxBrTime]
      /\ bindingRevoked # NotRevoked => bindingRevoked' # NotRevoked
  <2>1. CASE BrTick
    BY <2>1, BrAssumption DEF BrTick, BrInv, BrTypeOK
  <2>2. CASE ChangeBinding
    BY <2>2 DEF ChangeBinding, BrInv, BrTypeOK, NotRevoked
  <2> QED BY <2>1, <2>2
<1>3. SendersOk'
  BY <1>1, <1>2 DEF BrInv, SendersOk
<1>4. ServerOk' /\ server' \in ServerState
  BY <1>1, SameServer DEF BrInv, BrTypeOK
<1>5. BrTypeOK'
  BY <1>1, <1>2, <1>4 DEF BrInv, BrTypeOK
<1>6. BridgeSendersAreBound'
  BY <1>1 DEF BrInv, BridgeSendersAreBound
<1> QED BY <1>3, <1>4, <1>5, <1>6 DEF BrInv

LEMMA GetOutboxStep ==
    ASSUME BrInv, NEW row \in outbox, NEW s \in Subjects, NEW a \in BrAgents, GetOutboxByID(row, s, a)
    PROVE  BrInv'
<1> PICK x : x = [row |-> row, caller |-> a]
  OBVIOUS
<1>1. UNCHANGED <<brNow, binding, bindingRevoked, sender, outbox, server>> /\ shown' = shown \cup {x}
  BY DEF GetOutboxByID, senderVars
<1>2. x \in [row : OutboxRow, caller : BrAgents] /\ x.caller = x.row.owner.value
  BY DEF GetOutboxByID, OwnsRow, BrInv, BrTypeOK
<1>3. SendersOk'
  BY <1>1 DEF BrInv, SendersOk
<1>4. ServerOk' /\ server' \in ServerState
  BY <1>1, SameServer DEF BrInv, BrTypeOK
<1>5. BrTypeOK'
  BY <1>1, <1>2, <1>4 DEF BrInv, BrTypeOK
<1>6. BridgeSendersAreBound'
  BY <1>1, <1>2 DEF BrInv, BridgeSendersAreBound
<1> QED BY <1>3, <1>4, <1>5, <1>6 DEF BrInv

LEMMA StoppedFits == ServerOk => StoppedHoldsNothing
BY DEF ServerOk, ServerFits, StoppedHoldsNothing

\* The steps of a cleanup.
LEMMA CleansAtFits ==
    ASSUME NEW s, ServerFits(s), s.state # "created", NEW c \in Cleaners, NEW at \in {"mcp", "http"},
           at = "http" => s.mcp = FALSE
    PROVE  ServerFits(CleansAt(s, c, at))
<1>1. PICK k : k = CleansAt(s, c, at)
  OBVIOUS
<1>2. s \in ServerState /\ s.cleaning \in [Cleaners -> {"no", "mcp", "http"}]
  BY DEF ServerFits, ServerState
<1>3. k \in ServerState /\ k.state = s.state /\ k.mcp = s.mcp /\ k.http = s.http /\ k.cleaning = [s.cleaning EXCEPT ![c] = at]
  BY <1>1, <1>2 DEF CleansAt, ServerState
<1>4. \A d \in Cleaners : k.cleaning[d] = IF d = c THEN at ELSE s.cleaning[d]
  BY <1>2, <1>3
<1> QED BY <1>1, <1>3, <1>4 DEF ServerFits

LEMMA CleanedFits ==
    ASSUME NEW s, ServerFits(s), NEW c \in Cleaners, s.mcp = FALSE, s.http = FALSE
    PROVE  ServerFits(Cleaned(s, c))
<1>1. PICK k : k = Cleaned(s, c)
  OBVIOUS
<1>2. s \in ServerState /\ s.cleaning \in [Cleaners -> {"no", "mcp", "http"}]
  BY DEF ServerFits, ServerState
<1>3. /\ k \in ServerState /\ k.state \in {"stopped", "error"} /\ k.mcp = s.mcp /\ k.http = s.http
      /\ k.cleaning = [s.cleaning EXCEPT ![c] = "no"]
  BY <1>1, <1>2 DEF Cleaned, ServerState
<1>4. \A d \in Cleaners : k.cleaning[d] = IF d = c THEN "no" ELSE s.cleaning[d]
  BY <1>2, <1>3
<1> QED BY <1>1, <1>3, <1>4 DEF ServerFits

LEMMA CleanSocketFits ==
    ASSUME NEW s, ServerFits(s), s.state # "created", NEW c \in Cleaners, s.mcp = FALSE
    PROVE  ServerFits(CleanSocket(s, c))
<1>1. s.http \in BOOLEAN
  BY DEF ServerFits, ServerState
<1>2. CASE s.http = TRUE
  BY <1>2, CleansAtFits DEF CleanSocket
<1>3. CASE s.http = FALSE
  BY <1>3, CleanedFits DEF CleanSocket
<1> QED BY <1>1, <1>2, <1>3

LEMMA BeginCleanupFits ==
    ASSUME NEW s, ServerFits(s), s.state # "created", NEW c \in Cleaners
    PROVE  ServerFits(BeginCleanup(s, c))
<1>1. s.mcp \in BOOLEAN
  BY DEF ServerFits, ServerState
<1>2. CASE s.mcp = TRUE
  <2>1. ServerFits(CleansAt(s, c, "mcp"))
    BY CleansAtFits
  <2> QED BY <1>2, <2>1 DEF BeginCleanup
<1>3. CASE s.mcp = FALSE
  BY <1>3, CleanSocketFits DEF BeginCleanup
<1> QED BY <1>1, <1>2, <1>3

LEMMA ServerSteps ==
    ASSUME BrInv, ServerNext
    PROVE  BrInv'
<1>1. UNCHANGED <<senderVars, outbox, shown>>
  BY DEF ServerNext, StartServer, ConnectServer, ListenServer, StopServer, SilentCleanup
<1>2. PICK s : s = server
  OBVIOUS
<1>3. s \in ServerState /\ ServerFits(s)
  BY <1>2 DEF BrInv, BrTypeOK, ServerOk
<1>4. PICK k : k = server'
  OBVIOUS
<1>5. ASSUME s.starting # "no" PROVE s.state # "created"
  BY <1>3, <1>5 DEF ServerFits
<1>6. ASSUME StartServer PROVE ServerFits(k)
  <2>1. PICK transport \in {"stdio", "http"} :
          s.state = "created" /\ k = [s EXCEPT !.state = "starting", !.mcp = TRUE, !.starting = transport]
    BY <1>2, <1>4, <1>6 DEF StartServer
  <2>2. k \in ServerState /\ k.state = "starting" /\ k.cleaning = s.cleaning
    BY <1>3, <2>1 DEF ServerState
  <2> QED BY <1>3, <2>1, <2>2 DEF ServerFits
<1>7. ASSUME NEW starting \in {"no", "stdio", "http", "listen"}, NEW j, j = [s EXCEPT !.starting = starting], s.state # "created"
      PROVE  ServerFits(j) /\ j.state # "created"
  <2>1. j \in ServerState /\ j.state = s.state /\ j.mcp = s.mcp /\ j.http = s.http /\ j.cleaning = s.cleaning
    BY <1>3, <1>7 DEF ServerState
  <2> QED BY <1>3, <1>7, <2>1 DEF ServerFits
<1>8. ASSUME s.starting # "no", k = BeginCleanup([s EXCEPT !.starting = "no"], "start") PROVE ServerFits(k)
  <2>1. PICK j : j = [s EXCEPT !.starting = "no"]
    OBVIOUS
  <2>2. ServerFits(j) /\ j.state # "created" /\ "start" \in Cleaners
    BY <1>5, <1>7, <1>8, <2>1 DEF Cleaners
  <2> QED BY <1>8, <2>1, <2>2, BeginCleanupFits
<1>9. ASSUME ConnectServer PROVE ServerFits(k)
  <2>1. s.starting \in {"stdio", "http"}
    BY <1>2, <1>9 DEF ConnectServer
  <2>2. CASE k = [s EXCEPT !.starting = "no", !.state = "running"]
    <3>1. k \in ServerState /\ k.state = "running" /\ k.cleaning = s.cleaning /\ k.mcp = s.mcp
      BY <1>3, <2>2 DEF ServerState
    <3> QED BY <1>3, <3>1 DEF ServerFits
  <2>3. CASE k = [s EXCEPT !.starting = "listen"]
    BY <1>5, <1>7, <2>1, <2>3
  <2>4. CASE k = BeginCleanup([s EXCEPT !.starting = "no"], "start")
    BY <1>8, <2>1, <2>4
  <2> QED BY <1>2, <1>4, <1>9, <2>2, <2>3, <2>4 DEF ConnectServer
<1>10. ASSUME ListenServer PROVE ServerFits(k)
  <2>1. s.starting = "listen"
    BY <1>2, <1>10 DEF ListenServer
  <2>2. CASE k = [s EXCEPT !.http = TRUE, !.starting = "no", !.state = "running"]
    <3>1. k \in ServerState /\ k.state = "running" /\ k.cleaning = s.cleaning /\ k.mcp = s.mcp
      BY <1>3, <2>2 DEF ServerState
    <3> QED BY <1>3, <3>1 DEF ServerFits
  <2>3. CASE k = BeginCleanup([s EXCEPT !.starting = "no"], "start")
    BY <1>8, <2>1, <2>3
  <2> QED BY <1>2, <1>4, <1>10, <2>2, <2>3 DEF ListenServer
<1>11. ASSUME NEW c \in Cleaners, StopServer(c) PROVE ServerFits(k)
  <2>1. PICK j : j = [s EXCEPT !.state = "stopping"]
    OBVIOUS
  <2>2. k = BeginCleanup(j, c)
    BY <1>2, <1>4, <1>11, <2>1 DEF StopServer
  <2>3. j \in ServerState /\ j.state = "stopping" /\ j.mcp = s.mcp /\ j.cleaning = s.cleaning
    BY <1>3, <2>1 DEF ServerState
  <2>4. ServerFits(j)
    BY <1>3, <2>3 DEF ServerFits
  <2> QED BY <2>2, <2>3, <2>4, BeginCleanupFits
<1>12. ASSUME NEW c \in Cleaners, SilentCleanup(c) PROVE ServerFits(k)
  <2>0. s.state # "created"
    BY <1>2, <1>3, <1>12 DEF SilentCleanup, ServerFits
  <2>1. CASE s.cleaning[c] = "mcp"
    <3>1. PICK j : j = [s EXCEPT !.mcp = FALSE]
      OBVIOUS
    <3>2. k = CleanSocket(j, c)
      BY <1>2, <1>4, <1>12, <2>1, <3>1 DEF SilentCleanup
    <3>3. j \in ServerState /\ j.state = s.state /\ j.mcp = FALSE /\ j.http = s.http /\ j.cleaning = s.cleaning
      BY <1>3, <3>1 DEF ServerState
    <3>4. ServerFits(j)
      BY <1>3, <2>0, <3>3 DEF ServerFits
    <3> QED BY <2>0, <3>2, <3>3, <3>4, CleanSocketFits
  <2>2. CASE s.cleaning[c] = "http"
    <3>1. PICK j : j = [s EXCEPT !.http = FALSE]
      OBVIOUS
    <3>2. k = Cleaned(j, c)
      BY <1>2, <1>4, <1>12, <2>2, <3>1 DEF SilentCleanup
    <3>3. j \in ServerState /\ j.state = s.state /\ j.mcp = s.mcp /\ j.http = FALSE /\ j.cleaning = s.cleaning /\ s.mcp = FALSE
      BY <1>3, <2>2, <3>1 DEF ServerState, ServerFits
    <3>4. ServerFits(j)
      BY <1>3, <2>0, <3>3 DEF ServerFits
    <3> QED BY <3>2, <3>3, <3>4, CleanedFits
  <2> QED BY <1>2, <1>12, <2>1, <2>2 DEF SilentCleanup
<1>13. ServerFits(k)
  BY <1>6, <1>9, <1>10, <1>11, <1>12 DEF ServerNext
<1>14. ServerOk' /\ server' \in ServerState
  BY <1>4, <1>13 DEF ServerOk, ServerFits
<1> QED BY <1>1, <1>14, SameCalls

LEMMA BrInvInit == BrInit => BrInv
<1> SUFFICES ASSUME BrInit PROVE BrInv
  OBVIOUS
<1>1. BrTypeOK
  BY BrAssumption DEF BrInit, BrTypeOK, NoResolution, NewServer, ServerState, NotRevoked
<1>2. SendersOk /\ BridgeSendersAreBound
  BY DEF BrInit, SendersOk, BridgeSendersAreBound, NoResolution
<1>3. ServerOk
  <2>1. NewServer \in ServerState
    BY DEF NewServer, ServerState
  <2>2. NewServer.state = "created" /\ NewServer.mcp = FALSE /\ NewServer.http = FALSE /\ NewServer.starting = "no"
        /\ \A c \in Cleaners : NewServer.cleaning[c] = "no"
    BY DEF NewServer
  <2> QED BY <2>1, <2>2 DEF BrInit, ServerOk, ServerFits
<1> QED BY <1>1, <1>2, <1>3 DEF BrInv

LEMMA BrInvStep == BrInv /\ [BrNext]_brVars => BrInv'
<1> SUFFICES ASSUME BrInv, [BrNext]_brVars PROVE BrInv'
  OBVIOUS
<1>1. CASE CallNext
  BY <1>1, ResolutionSteps, CreateOutboxRowStep, WorldSteps, GetOutboxStep DEF CallNext
<1>2. CASE ServerNext
  BY <1>2, ServerSteps
<1>3. CASE UNCHANGED brVars
  <2>1. UNCHANGED <<senderVars, outbox, shown>> /\ UNCHANGED server
    BY <1>3 DEF brVars, senderVars
  <2>2. ServerOk' /\ server' \in ServerState
    BY <2>1, SameServer DEF BrInv, BrTypeOK
  <2> QED BY <2>1, <2>2, SameCalls
<1> QED BY <1>1, <1>2, <1>3 DEF BrNext

\* Whatever the registry, the revocation list, the outbox and the server do between
\* the awaits of resolveSenderForMCPCall and of start() and stop(), no call passes
\* under a binding that was revoked when it began and a stopped server holds nothing.
THEOREM BridgeCallsKeepTrack == BrSpec => []BrInv
<1>1. BrInit => BrInv
  BY BrInvInit
<1>2. BrInv /\ [BrNext]_brVars => BrInv'
  BY BrInvStep
<1> QED BY <1>1, <1>2, PTL DEF BrSpec

-----------------------------------------------------------------------------
(* The parts in MCServices.                                                *)

servicesVars == <<part, lrVars, aaVars, asVars, ssoVars, tfVars, acVars, msVars, scopeVars, brVars, scVars>>

\* Whatever part of MCServices runs, a step of it is one of that part alone.
LEMMA ServicesParts ==
    [ServicesNext]_servicesVars => UNCHANGED part /\ [AaNext]_aaVars /\ [AsNext]_asVars /\ [ScNext]_scVars
                                   /\ [MsNext]_msVars /\ [SsoNext]_ssoVars /\ [TfNext]_tfVars /\ [AcNext]_acVars
                                   /\ [LrNext]_lrVars /\ [McNext]_scopeVars /\ [BrNext]_brVars
  BY DEF ServicesNext, servicesVars, TfNext, BrNext

\* A signed request is decided once in the window its nonce is kept for (checkAndStore), and a
\* challenge pays for one disclosure, to the holder of a key, of a chain without a gap or a
\* missing tail (verifyAuditRequest): for every number of deliveries, requests and entries.
THEOREM AuditAccessHolds == ServicesSpec => []AuditAccessIsSound
<1>1. ServicesInit => AaInv /\ AsInv
  BY AaStart, AsStart DEF ServicesInit
<1>2. AaInv /\ [ServicesNext]_servicesVars => AaInv'
  BY ServicesParts, AaStep
<1>3. AsInv /\ [ServicesNext]_servicesVars => AsInv'
  BY ServicesParts, AsStep
<1>4. AaInv /\ AsInv => AuditAccessIsSound
  BY AaConcludes, AsConcludes DEF AuditAccessIsSound
<1> QED BY <1>1, <1>2, <1>3, <1>4, PTL DEF ServicesSpec, servicesVars

\* Nonces are never reused, replays never opened, dropped keys wiped and dual-key windows whole
\* (encryptEnvelopeBody, decryptEnvelopeBody, swapForDualKey, closeSession), whatever rekeys,
\* closings, timers and deliveries race at the two ends: for every number of handshakes, rekeys
\* and bodies and every length of the window.
THEOREM SealingHolds == ServicesSpec => []SealingIsSound
<1>1. ServicesInit => ScInv
  BY ScStart DEF ServicesInit
<1>2. ScInv /\ [ServicesNext]_servicesVars => ScInv'
  BY ServicesParts, ScStep
<1>3. ScInv => SealingIsSound
  BY ScConcludes
<1> QED BY <1>1, <1>2, <1>3, PTL DEF ServicesSpec, servicesVars

\* What the managed services answer, admit and account for agrees with what happened
\* (withRetry, handleResolve, handleCheck, TokenBucketRateLimiter.allow, recordUsage), whatever
\* calls time out, are retried and are answered late: for every set of clients, addresses, keys
\* and requests in flight, every quota, window and number of buckets kept.
THEOREM ManagedServicesHold == ServicesSpec => []ManagedServicesAreSound
<1>1. ServicesInit => MsInv
  BY MsStart DEF ServicesInit
<1>2. MsInv /\ [ServicesNext]_servicesVars => MsInv'
  BY ServicesParts, MsStep
<1>3. MsInv => ManagedServicesAreSound
  BY MsInvSuffices DEF ManagedServicesAreSound
<1> QED BY <1>1, <1>2, <1>3, PTL DEF ServicesSpec, servicesVars

\* A flow logs in once and only by a valid token, a subject stays the user and tenant it was first
\* bound to, a tenant-admin sees the mappings of its own tenant, and nothing is changed in the
\* console without a trace (consume, verifyCallback, resolveTenant, createUser, listMappings,
\* withAdminAudit): for every set of sessions, handlers, providers, claims, tenants and requests.
THEOREM TenancyHolds == ServicesSpec => []TenancyIsSound
<1>1. ServicesInit => SsoInv /\ TfInv /\ AcInv
  BY SsoStart, TfStart, AcStart DEF ServicesInit
<1>2. SsoInv /\ [ServicesNext]_servicesVars => SsoInv'
  BY ServicesParts, SsoStep
<1>3. TfInv /\ [ServicesNext]_servicesVars => TfInv'
  BY ServicesParts, TfStep
<1>4. AcInv /\ [ServicesNext]_servicesVars => AcInv'
  BY ServicesParts, AcStep
<1>5. SsoInv /\ TfInv /\ AcInv => TenancyIsSound
  BY SsoConcludes, TfConcludes, AcConcludes DEF TenancyIsSound
<1> QED BY <1>1, <1>2, <1>3, <1>4, <1>5, PTL DEF ServicesSpec, servicesVars

\* What is read of the ledger over HTTP is the target's and within the snapshot, whole over its
\* pages, and heads under one anchor agree (handleList, encodeCursor, authorizeLedgerRead,
\* getOrCacheAnchor), whatever is appended, reserved and removed meanwhile: for every set of
\* readers, requests and rows, every page size and anchor lifetime.
THEOREM LedgerReadsHold == ServicesSpec => []LedgerReadsAreSound
<1>1. ServicesInit => LrInv
  BY LrStart DEF ServicesInit
<1>2. LrInv /\ [ServicesNext]_servicesVars => LrInv'
  BY ServicesParts, LrStep
<1>3. LrInv => LedgerReadsAreSound
  BY LrConcludes DEF LedgerReadsAreSound
<1> QED BY <1>1, <1>2, <1>3, PTL DEF ServicesSpec, servicesVars

\* A chain reported valid over an orderly snapshot whose head is still there has lost no record
\* (handleChainVerify), whichever rows were removed before or while the request ran.
THEOREM ValidChainsAreWhole == ServicesSpec => ValidMeansNothingRemoved
<1>1. ServicesInit => LrInv /\ LrProbed
  BY LrStart, ProbedStart DEF ServicesInit
<1>2. LrInv /\ LrProbed /\ [ServicesNext]_servicesVars => LrInv' /\ LrProbed'
  BY ServicesParts, LrStep, ProbedStep
<1>3. LrInv /\ LrProbed /\ [ServicesNext]_servicesVars
        => [\A r \in LrReaders :
              (reader[r].inOrder /\ reader[r].pc = "probed" /\ reader'[r].pc = "valid"
                 /\ reader[r].head \notin lrRemoved /\ lrRows[reader[r].head].at >= reader[r].start)
              => \A i \in reader[r].known : i \notin lrRemoved]_lrVars
  BY ServicesParts, ValidStep
<1> QED BY <1>1, <1>2, <1>3, PTL DEF ServicesSpec, servicesVars, ValidMeansNothingRemoved

\* The bridge's counters are the number and the sum of the calls it admitted and a key spends
\* once (validateScope, runScopeTxBody), nobody calls under a binding that was revoked before nor
\* sees another's row (resolveSenderForMCPCall, getOutboxByID), and a stopped server holds nothing
\* (start, stop, _silentCleanup): for every set of calls, claims, tokens and agents and whatever
\* validations overlap.
THEOREM BridgeHolds == ServicesSpec => []CallsOverTheBridgeAreSound
<1>1. ServicesInit => McInv /\ BrInv
  BY McInvInit, BrInvInit DEF ServicesInit
<1>2. McInv /\ [ServicesNext]_servicesVars => McInv'
  BY ServicesParts, McInvStep
<1>3. BrInv /\ [ServicesNext]_servicesVars => BrInv'
  BY ServicesParts, BrInvStep
<1>4. McInv /\ BrInv => CallsOverTheBridgeAreSound
  BY McCounters, StoppedFits DEF McInv, BrInv, BridgeIsSound, CallsOverTheBridgeAreSound
<1> QED BY <1>1, <1>2, <1>3, <1>4, PTL DEF ServicesSpec, servicesVars
=============================================================================
