--------------------------- MODULE IdentityProofs ---------------------------
(***************************************************************************)
(* Proofs about who somebody is and what they may still do (MCIdentity):   *)
(* the registry and its key rotation (IdentityRegistry), the resolver over *)
(* several registries (FederatedResolver), revocation and its two caches   *)
(* (Revocation), the trust boundaries (TrustBoundary), and the checks of   *)
(* chains of controllers (ControllerChain) and of delegated tokens         *)
(* (Tokens), each with an inductive invariant that is proved for every set *)
(* of nodes, callers, tokens and clients and every TTL, depth and bound;   *)
(* the last section brings them to IdentitySpec, in which one of them runs.*)
(* The Merkle trees of Tokens are left to TLC.                             *)
(***************************************************************************)
EXTENDS MCIdentity, FiniteSetTheorems, SequenceTheorems, WellFoundedInduction, TLAPS

-----------------------------------------------------------------------------
(* TrustBoundary: a boundary runs for a window somebody proved.            *)

\* What a call has loaded or is about to save: a window somebody proved, or a proof for it.
TbBacked(k) ==
    /\ k.pc \in {"loaded", "verifying", "saved"} => k.loaded.state # "absent"
    /\ k.pc = "loaded" =>
          /\ k.loaded.state # "pending" => k.loaded.notAfter \in accepted[k.id]
          /\ k.loaded.notAfter <= tbNow + MaxWindow
    /\ k.pc = "verifying" =>
          /\ k.loaded.state \in {"pending", "active"}
          /\ k.next.state # "absent" /\ k.next.notAfter = k.proven /\ k.next.notAfter <= tbNow + MaxWindow
    /\ k.pc = "saved" => k.next.state # "absent"

TbCallsBacked == \A c \in TbCalls : TbBacked(tbCall[c])

TbInv == TbTypeOK /\ BoundaryIsProven /\ TbCallsBacked

\* A transition that needs no proof leaves an active or a suspended boundary.
LEMMA TbFromProven ==
    ASSUME NEW k \in TbCallState, Allowed(k) \ {"T1", "T2"} # {}
    PROVE  k.loaded.state \in {"active", "suspended"}
<1>1. k.event \in {"onTrustEstablished", "onLeaseExtended", "onSuspended", "onResumed", "onRevoked", "onExpired"}
  BY DEF TbCallState, TbEvent, TbTarget
<1> QED BY <1>1 DEF Allowed, FindLegalTransition, LegalTransitions

\* One that needs a proof leaves a pending boundary or extends an active one.
LEMMA TbByProof ==
    ASSUME NEW k \in TbCallState, Allowed(k) \cap {"T1", "T2"} # {}
    PROVE  /\ k.event \in {"onTrustEstablished", "onLeaseExtended"}
           /\ k.loaded.state \in {"pending", "active"}
<1>1. k.event \in {"onTrustEstablished", "onLeaseExtended", "onSuspended", "onResumed", "onRevoked", "onExpired"}
  BY DEF TbCallState, TbEvent, TbTarget
<1> QED BY <1>1 DEF Allowed, FindLegalTransition, LegalTransitions

LEMMA TbNextTyped ==
    ASSUME NEW v \in TbValue, NEW e \in TbEvent, NEW t \in TbTime
    PROVE  /\ NextBoundary(v, e, t) \in TbValue
           /\ NextBoundary(v, e, t).notAfter = t /\ NextBoundary(v, e, t).state \in TbState
BY DEF NextBoundary, TbValue, TbEvent, TbTarget, TbState

LEMMA TbServerTime ==
    ASSUME tbNow \in 0..MaxTbTime, NEW t \in TbTime
    PROVE  ServerEnforced(t) \in TbTime /\ ServerEnforced(t) <= tbNow + MaxWindow
BY TbAssumption DEF ServerEnforced, TbTime

LEMMA TbIdle == IdleTbCall \in TbCallState /\ IdleTbCall.pc = "idle"
BY TbAssumption DEF IdleTbCall, TbCallState, TbEvent, TbTarget, TbSource, NoBoundary, TbValue, TbTime, TbState

\* The inductive step.
LEMMA TbStep == TbInv /\ [TbNext]_tbVars => TbInv'
<1> SUFFICES ASSUME TbInv, [TbNext]_tbVars PROVE TbInv'
  OBVIOUS
<1>1. ASSUME NEW b \in TbIds, NEW t \in TbTime, CreateBoundary(b, t)
      PROVE  TbInv'
  <2> DEFINE v == [state |-> "pending", notBefore |-> tbNow, notAfter |-> ServerEnforced(t), proof |-> FALSE]
  <2>0. v \in TbValue /\ v.notAfter <= tbNow + MaxWindow
    BY TbServerTime, TbAssumption DEF TbInv, TbTypeOK, TbValue, TbState, TbTime
  <2>0a. /\ boundary' = [boundary EXCEPT ![b] = v] /\ tbStarted' \in 0..MaxTbCalls
         /\ UNCHANGED <<tbCall, tbAudit, tbNow, accepted, admitted>>
    BY <1>1, TbAssumption DEF TbInv, TbTypeOK, CreateBoundary
  <2>0b. v.state = "pending"
    OBVIOUS
  <2> HIDE DEF v
  <2>1. TbTypeOK'
    BY <2>0, <2>0a DEF TbInv, TbTypeOK
  <2>2. BoundaryIsProven'
    BY <2>0, <2>0a, <2>0b DEF TbInv, BoundaryIsProven, TbTypeOK
  <2>3. TbCallsBacked'
    BY <2>0a DEF TbInv, TbCallsBacked, TbBacked
  <2> QED BY <2>1, <2>2, <2>3 DEF TbInv
<1>2. ASSUME NEW c \in TbCalls, NEW b \in TbIds, NEW e \in TbEvent, NEW s \in TbSource, LoadBoundary(c, b, e, s)
      PROVE  TbInv'
  <2> DEFINE k == [pc |-> "loaded", id |-> b, event |-> e, source |-> s, loaded |-> boundary[b],
                   next |-> NoBoundary, proven |-> 0]
  <2>0. k \in TbCallState
    BY TbAssumption DEF TbInv, TbTypeOK, TbCallState, NoBoundary, TbValue, TbTime
  <2>0a. /\ tbCall' = [tbCall EXCEPT ![c] = k] /\ tbStarted' \in 0..MaxTbCalls
         /\ UNCHANGED <<boundary, tbAudit, tbNow, accepted, admitted>>
    BY <1>2, TbAssumption DEF TbInv, TbTypeOK, LoadBoundary
  <2>0b. TbBacked(k)
    BY <1>2 DEF TbInv, BoundaryIsProven, TbBacked, LoadBoundary
  <2> HIDE DEF k
  <2>1. TbTypeOK'
    BY <2>0, <2>0a DEF TbInv, TbTypeOK
  <2>2. BoundaryIsProven'
    BY <2>0a DEF TbInv, BoundaryIsProven
  <2>3. TbCallsBacked'
    BY <2>0a, <2>0b DEF TbInv, TbTypeOK, TbCallsBacked, TbBacked
  <2> QED BY <2>1, <2>2, <2>3 DEF TbInv
<1>3. ASSUME NEW c \in TbCalls, NEW t \in TbTime, NEW p \in TbTime, AskVerifier(c, t, p)
      PROVE  TbInv'
  <2> DEFINE k == tbCall[c]
             notAfter == IF k.event = "onTrustEstablished" THEN k.loaded.notAfter ELSE ServerEnforced(t)
             l == [k EXCEPT !.pc = "verifying", !.proven = p, !.next = NextBoundary(k.loaded, k.event, notAfter)]
  <2>p1. /\ k \in TbCallState /\ k.pc = "loaded" /\ k.loaded \in TbValue /\ k.event \in TbEvent
        /\ Allowed(k) \cap {"T1", "T2"} # {} /\ TbBacked(k) /\ ProofCovers(k.event, k.loaded, t, p)
    BY <1>3 DEF TbInv, TbTypeOK, TbCallsBacked, AskVerifier, TbCallState
  <2>p2. notAfter \in TbTime /\ notAfter <= tbNow + MaxWindow /\ p = notAfter
    BY <2>p1, TbServerTime DEF TbInv, TbTypeOK, TbBacked, ProofCovers, TbValue
  <2>p3. k.loaded.state \in {"pending", "active"}
    BY <2>p1, TbByProof
  <2>0. l \in TbCallState
    BY <2>p1, <2>p2, TbNextTyped DEF TbCallState
  <2>0a. tbCall' = [tbCall EXCEPT ![c] = l] /\ UNCHANGED <<boundary, tbAudit, tbNow, tbStarted, accepted, admitted>>
    BY <1>3 DEF AskVerifier
  <2>0b. TbBacked(l)
    <3>1. /\ l.pc = "verifying" /\ l.loaded = k.loaded /\ l.proven = p
          /\ l.next = NextBoundary(k.loaded, k.event, notAfter)
      BY <2>p1 DEF TbCallState
    <3>2. l.next.notAfter = notAfter /\ l.next.state \in TbState
      BY <2>p1, <2>p2, <3>1, TbNextTyped
    <3> QED BY <2>p2, <2>p3, <3>1, <3>2 DEF TbBacked, TbState
  <2> HIDE DEF l
  <2>1. TbTypeOK'
    BY <2>0, <2>0a DEF TbInv, TbTypeOK
  <2>2. BoundaryIsProven'
    BY <2>0a DEF TbInv, BoundaryIsProven
  <2>3. TbCallsBacked'
    BY <2>0a, <2>0b DEF TbInv, TbTypeOK, TbCallsBacked, TbBacked
  <2> QED BY <2>1, <2>2, <2>3 DEF TbInv
<1>4. ASSUME NEW c \in TbCalls, ProofVerified(c)
      PROVE  TbInv'
  <2> DEFINE k == tbCall[c]
             v == k.next
             l == [k EXCEPT !.pc = "saved", !.next = v]
  <2>p1. /\ k \in TbCallState /\ k.pc = "verifying" /\ k.id \in TbIds /\ v \in TbValue /\ TbBacked(k) /\ k.proven \in TbTime
    BY <1>4 DEF TbInv, TbTypeOK, TbCallsBacked, ProofVerified, TbCallState
  <2>p2. /\ boundary' = [boundary EXCEPT ![k.id] = v] /\ tbCall' = [tbCall EXCEPT ![c] = l]
         /\ UNCHANGED <<tbAudit, tbNow, tbStarted, admitted>>
    BY <1>4 DEF ProofVerified, SaveBoundary
  <2>p6. accepted' = [accepted EXCEPT ![k.id] = accepted[k.id] \cup {k.proven}]
    BY <1>4 DEF ProofVerified
  <2>p3. v.notAfter = k.proven /\ v.notAfter <= tbNow + MaxWindow
    BY <2>p1 DEF TbBacked
  <2>p4. \A b \in TbIds : accepted[b] \subseteq accepted'[b]
    BY <2>p6 DEF TbInv, TbTypeOK
  <2>p5. k.proven \in accepted'[k.id]
    BY <2>p1, <2>p6 DEF TbInv, TbTypeOK

  <2>0. l \in TbCallState /\ l.pc = "saved" /\ l.next = v /\ l.loaded = k.loaded
    BY <2>p1 DEF TbCallState
  <2>0a. v.state # "absent" /\ k.loaded.state # "absent"
    BY <2>p1 DEF TbBacked
  <2>0b. PICK id \in TbIds : id = k.id
    BY <2>p1
  <2> HIDE DEF k, v, l
  <2>1. TbTypeOK'
    BY <2>0, <2>p1, <2>p2, <2>p6 DEF TbInv, TbTypeOK
  <2>2. BoundaryIsProven'
    <3> SUFFICES ASSUME NEW b \in TbIds
                 PROVE  /\ boundary'[b].state \notin {"absent", "pending"} => boundary'[b].notAfter \in accepted'[b]
                        /\ boundary'[b].state # "absent" => boundary'[b].notAfter <= tbNow' + MaxWindow
                        /\ admitted'[b] \subseteq accepted'[b]
      BY DEF BoundaryIsProven
    <3>1. CASE b = k.id
      BY <2>p1, <2>p2, <2>p3, <2>p4, <2>p5, <3>1 DEF TbInv, TbTypeOK, BoundaryIsProven
    <3>2. CASE b # k.id
      <4>1. boundary'[b] = boundary[b]
        BY <2>p2, <3>2 DEF TbInv, TbTypeOK
      <4> QED BY <2>p2, <2>p4, <4>1 DEF TbInv, BoundaryIsProven
    <3> QED BY <3>1, <3>2
  <2>3. TbCallsBacked'
    <3>1. l.pc = "saved" /\ l.loaded.state # "absent" /\ l.next.state # "absent"
      BY <2>0, <2>0a
    <3>2. ASSUME NEW d \in TbCalls, d # c PROVE TbBacked(tbCall[d])'
      <4>1. tbCall'[d] = tbCall[d] /\ tbCall[d] \in TbCallState /\ TbBacked(tbCall[d]) /\ tbNow' = tbNow
        BY <2>p2, <3>2 DEF TbInv, TbTypeOK, TbCallsBacked
      <4> QED BY <2>p4, <4>1 DEF TbBacked, TbCallState
    <3>3. tbCall'[c] = l
      BY <2>p2 DEF TbInv, TbTypeOK
    <3> QED BY <3>1, <3>2, <3>3 DEF TbCallsBacked, TbBacked
  <2> QED BY <2>1, <2>2, <2>3 DEF TbInv
<1>5. ASSUME NEW c \in TbCalls, Transition(c)
      PROVE  TbInv'
  <2> DEFINE k == tbCall[c]
             v == NextBoundary(k.loaded, k.event, k.loaded.notAfter)
             l == [k EXCEPT !.pc = "saved", !.next = v]
  <2>p1. /\ k \in TbCallState /\ k.pc = "loaded" /\ k.id \in TbIds /\ TbBacked(k) /\ Allowed(k) \ {"T1", "T2"} # {}
        /\ k.loaded \in TbValue /\ k.event \in TbEvent /\ k.loaded.notAfter \in TbTime
    BY <1>5 DEF TbInv, TbTypeOK, TbCallsBacked, Transition, TransitionPasses, TbCallState, TbValue
  <2>p2. /\ boundary' = [boundary EXCEPT ![k.id] = v] /\ tbCall' = [tbCall EXCEPT ![c] = l]
        /\ UNCHANGED <<tbAudit, tbNow, tbStarted, accepted, admitted>>
    BY <1>5 DEF Transition, SaveBoundary
  <2>p3. v \in TbValue /\ v.notAfter = k.loaded.notAfter /\ v.state \in TbState
    BY <2>p1, TbNextTyped
  <2>p4. \A b \in TbIds : accepted[b] \subseteq accepted'[b]
    BY <2>p2
  <2>p5. v.notAfter \in accepted[k.id] /\ v.notAfter <= tbNow + MaxWindow
    BY <2>p1, <2>p3, TbFromProven DEF TbBacked
  <2> HIDE DEF v
  <2>0. l \in TbCallState /\ l.pc = "saved" /\ l.next = v /\ l.loaded = k.loaded
    BY <2>p1, <2>p3 DEF TbCallState
  <2>0a. v.state # "absent" /\ k.loaded.state # "absent"
    BY <2>p1, <2>p3 DEF TbBacked, TbState
  <2> HIDE DEF k, l
  <2>1. TbTypeOK'
    BY <2>0, <2>p1, <2>p2, <2>p3 DEF TbInv, TbTypeOK
  <2>2. BoundaryIsProven'
    <3> SUFFICES ASSUME NEW b \in TbIds
                 PROVE  /\ boundary'[b].state \notin {"absent", "pending"} => boundary'[b].notAfter \in accepted'[b]
                        /\ boundary'[b].state # "absent" => boundary'[b].notAfter <= tbNow' + MaxWindow
                        /\ admitted'[b] \subseteq accepted'[b]
      BY DEF BoundaryIsProven
    <3>1. CASE b = k.id
      BY <2>p1, <2>p2, <2>p3, <2>p4, <2>p5, <3>1 DEF TbInv, TbTypeOK, BoundaryIsProven
    <3>2. CASE b # k.id
      <4>1. boundary'[b] = boundary[b]
        BY <2>p2, <3>2 DEF TbInv, TbTypeOK
      <4> QED BY <2>p2, <2>p4, <4>1 DEF TbInv, BoundaryIsProven
    <3> QED BY <3>1, <3>2
  <2>3. TbCallsBacked'
    <3>1. l.pc = "saved" /\ l.loaded.state # "absent" /\ l.next.state # "absent"
      BY <2>0, <2>0a
    <3>2. ASSUME NEW d \in TbCalls, d # c PROVE TbBacked(tbCall[d])'
      <4>1. tbCall'[d] = tbCall[d] /\ tbCall[d] \in TbCallState /\ TbBacked(tbCall[d]) /\ tbNow' = tbNow
        BY <2>p2, <3>2 DEF TbInv, TbTypeOK, TbCallsBacked
      <4> QED BY <2>p4, <4>1 DEF TbBacked, TbCallState
    <3>3. tbCall'[c] = l
      BY <2>p2 DEF TbInv, TbTypeOK
    <3> QED BY <3>1, <3>2, <3>3 DEF TbCallsBacked, TbBacked
  <2> QED BY <2>1, <2>2, <2>3 DEF TbInv
<1>6. ASSUME NEW c \in TbCalls, Refused(c)
      PROVE  TbInv'
  <2>0a. /\ tbCall' = [tbCall EXCEPT ![c] = IdleTbCall] /\ UNCHANGED <<boundary, tbNow, tbStarted, accepted, admitted>>
    BY <1>6 DEF Refused, TbEnd
  <2>1. TbTypeOK'
    BY <1>6, <2>0a, TbIdle DEF TbInv, TbTypeOK, Refused
  <2>2. BoundaryIsProven'
    BY <2>0a DEF TbInv, BoundaryIsProven
  <2>3. TbCallsBacked'
    BY <2>0a, TbIdle DEF TbInv, TbTypeOK, TbCallsBacked, TbBacked
  <2> QED BY <2>1, <2>2, <2>3 DEF TbInv
<1>7. ASSUME NEW c \in TbCalls, AppendTbAudit(c)
      PROVE  TbInv'
  <2>0a. /\ tbCall' = [tbCall EXCEPT ![c] = IdleTbCall] /\ UNCHANGED <<boundary, tbNow, tbStarted, accepted, admitted>>
    BY <1>7 DEF AppendTbAudit, TbEnd
  <2>1. TbTypeOK'
    <3>1. [id |-> tbCall[c].id, event |-> tbCall[c].event, before |-> tbCall[c].loaded.state,
           after |-> tbCall[c].next.state, source |-> tbCall[c].source] \in TbAuditEvent
      BY <1>7 DEF TbInv, TbTypeOK, TbCallsBacked, TbBacked, AppendTbAudit, TbCallState, TbValue, TbAuditEvent
    <3> QED BY <1>7, <2>0a, <3>1, TbIdle DEF TbInv, TbTypeOK, AppendTbAudit
  <2>2. BoundaryIsProven'
    BY <2>0a DEF TbInv, BoundaryIsProven
  <2>3. TbCallsBacked'
    BY <2>0a, TbIdle DEF TbInv, TbTypeOK, TbCallsBacked, TbBacked
  <2> QED BY <2>1, <2>2, <2>3 DEF TbInv
<1>8. ASSUME NEW b \in TbIds, AssertBoundaryActive(b)
      PROVE  TbInv'
  <2>1. TbTypeOK'
    BY <1>8 DEF TbInv, TbTypeOK, AssertBoundaryActive, TbValue
  <2>2. BoundaryIsProven'
    <3>1. boundary' = boundary /\ tbNow' = tbNow /\ accepted' = accepted
      BY <1>8 DEF AssertBoundaryActive
    <3>2. \A d \in TbIds : admitted'[d] \subseteq accepted[d]
      BY <1>8 DEF TbInv, TbTypeOK, BoundaryIsProven, AssertBoundaryActive
    <3> QED BY <3>1, <3>2 DEF TbInv, BoundaryIsProven
  <2>3. TbCallsBacked'
    BY <1>8 DEF TbInv, TbCallsBacked, TbTypeOK, TbBacked, AssertBoundaryActive
  <2> QED BY <2>1, <2>2, <2>3 DEF TbInv
<1>9. ASSUME TbTick
      PROVE  TbInv'
  <2>1. TbTypeOK'
    BY <1>9, TbAssumption DEF TbInv, TbTypeOK, TbTick
  <2>2. BoundaryIsProven'
    BY <1>9, TbAssumption DEF TbInv, TbTypeOK, BoundaryIsProven, TbTick, TbValue, TbTime
  <2>3. TbCallsBacked'
    BY <1>9, TbAssumption DEF TbInv, TbTypeOK, TbCallsBacked, TbBacked, TbTick, TbCallState, TbValue, TbTime
  <2> QED BY <2>1, <2>2, <2>3 DEF TbInv
<1>10. CASE UNCHANGED tbVars
  BY <1>10 DEF TbInv, TbTypeOK, BoundaryIsProven, TbCallsBacked, TbBacked, tbVars
<1> QED BY <1>1, <1>2, <1>3, <1>4, <1>5, <1>6, <1>7, <1>8, <1>9, <1>10 DEF TbNext

LEMMA TbStart == TbInit => TbInv
BY TbAssumption, TbIdle DEF TbInit, TbInv, TbTypeOK, BoundaryIsProven, TbCallsBacked, TbBacked, NoBoundary, TbValue, TbTime,
   TbState

\* Only what was loaded before it ended brings an ended boundary back.
LEMMA TbEndsStep == TbInv /\ [TbNext]_tbVars => EndedUnlessOverlapped
<1> SUFFICES ASSUME TbInv, [TbNext]_tbVars, NEW b \in TbIds,
                    boundary[b].state \in TbEnded, boundary'[b].state # boundary[b].state
             PROVE  \/ boundary'[b].state = "pending"
                    \/ \E c \in TbCalls : /\ tbCall[c].id = b /\ tbCall'[c].pc = "saved"
                                          /\ tbCall[c].loaded.state \notin TbEnded
  BY DEF EndedUnlessOverlapped
<1>1. ASSUME NEW a \in TbIds, NEW t \in TbTime, CreateBoundary(a, t)
      PROVE  boundary'[b].state = "pending"
  BY <1>1 DEF TbInv, TbTypeOK, CreateBoundary
<1>2. ASSUME NEW c \in TbCalls, NEW v, SaveBoundary(c, v), tbCall[c].loaded.state \notin TbEnded
      PROVE  /\ tbCall[c].id = b /\ tbCall'[c].pc = "saved" /\ tbCall[c].loaded.state \notin TbEnded
  <2>1. tbCall'[c] = [tbCall[c] EXCEPT !.pc = "saved", !.next = v] /\ tbCall[c] \in TbCallState
    BY <1>2 DEF TbInv, TbTypeOK, SaveBoundary
  <2>2. tbCall'[c].pc = "saved"
    BY <2>1 DEF TbCallState
  <2> QED BY <1>2, <2>2 DEF TbInv, TbTypeOK, SaveBoundary
<1>3. ASSUME NEW c \in TbCalls, ProofVerified(c)
      PROVE  tbCall[c].loaded.state \notin TbEnded /\ SaveBoundary(c, tbCall[c].next)
  BY <1>3 DEF TbInv, TbCallsBacked, TbBacked, ProofVerified, TbEnded
<1>4. ASSUME NEW c \in TbCalls, Transition(c)
      PROVE  tbCall[c].loaded.state \notin TbEnded
             /\ SaveBoundary(c, NextBoundary(tbCall[c].loaded, tbCall[c].event, tbCall[c].loaded.notAfter))
  <2>1. tbCall[c] \in TbCallState /\ Allowed(tbCall[c]) \ {"T1", "T2"} # {}
    BY <1>4 DEF TbInv, TbTypeOK, Transition, TransitionPasses
  <2> QED BY <1>4, <2>1, TbFromProven DEF Transition, TbEnded
<1>5. boundary' # boundary
  OBVIOUS
<1> QED BY <1>1, <1>2, <1>3, <1>4, <1>5 DEF TbNext, LoadBoundary, AskVerifier, Refused, AppendTbAudit,
           AssertBoundaryActive, TbTick, tbVars

-----------------------------------------------------------------------------
(* IdentityRegistry: updates, and where the published key may be lost.     *)

IdCallers == IdTools \cup IdWriters
IdAgentRow == [document : IdDoc, version : 1..MaxIdVersion, previous : IdDoc \cup {NoDocument},
               status : {"active", "deactivated"}, rotation : {"ACTIVE", "ROTATING"}]
IdCall == [pc : {"idle", "read", "staged", "published", "failed"},
           read : IdDoc \cup {NoDocument}, document : IdDoc \cup {NoDocument}]

\* The document of a row, under the row's version.
UnderRow(row) == [row.document EXCEPT !.version = row.version]

IdTyped ==
    /\ idRow \in [IdNodes -> {NoAgent} \cup IdAgentRow]
    /\ idSync \subseteq [to : IdNodes, document : IdDoc]
    /\ idCaller \in [IdCallers -> IdCall]
    /\ idPending \in 0..MaxIdKeys /\ idFile \in 1..MaxIdKeys /\ idKeys \in 1..MaxIdKeys
    /\ idEvents \in 0..MaxIdEvents

\* A caller's document is made from one it read, and that one is still the row's document unless
\* the row has gone on to a later version.
IdFreshCall(k, row) ==
    /\ k.pc # "idle" => row # NoAgent
    /\ k.pc \in {"read", "staged"} =>
          /\ k.read \in IdDoc /\ k.document \in IdDoc /\ k.document.version = k.read.version + 1
          /\ k.read.version <= row.version
          /\ k.read.version = row.version => k.read = UnderRow(row)

IdFresh ==
    /\ \A c \in IdCallers : IdFreshCall(idCaller[c], idRow[IdHome])
    /\ \A w \in IdWriters : idCaller[w].pc \in {"idle", "read"}
                            /\ (idCaller[w].pc = "read" => idCaller[w].document.key = idCaller[w].read.key)

\* Before the home registry has a row there is one key.
IdFirst ==
    idRow[IdHome] = NoAgent =>
        /\ idFile = 1
        /\ \A n \in IdNodes : idRow[n] # NoAgent => idRow[n].document.key = 1
        /\ \A m \in idSync : m.document.key = 1

IdInv == IdTyped /\ IdFresh /\ IdFirst

\* What a run has in the pending file and has published, by how far it is.
IdStagedBy(k, key, pending) ==
    /\ k.pc \in {"staged", "published", "failed"} => pending = k.document.key
    /\ k.pc = "published" => key = k.document.key

IdStaged ==
    OneRun => \A t \in IdTools : IdStagedBy(idCaller[t], idRow[IdHome].document.key, idPending)

LEMMA IdRowShape ==
    ASSUME NEW r \in IdAgentRow
    PROVE  /\ r # NoAgent /\ r.document \in IdDoc /\ r.version \in 1..MaxIdVersion
           /\ r.status \in {"active", "deactivated"}
           /\ UnderRow(r) \in IdDoc /\ UnderRow(r).key = r.document.key /\ UnderRow(r).version = r.version
BY DEF IdAgentRow, NoAgent, UnderRow, IdDoc

LEMMA IdQuery ==
    ASSUME IdTyped, NEW n \in IdNodes
    PROVE  /\ QueryIdentity(n) \in IdDoc \cup {NoDocument}
           /\ QueryIdentity(n) # NoDocument =>
                 /\ idRow[n] \in IdAgentRow /\ idRow[n] # NoAgent
                 /\ QueryIdentity(n) = UnderRow(idRow[n]) /\ QueryIdentity(n) \in IdDoc
<1>1. idRow[n] \in {NoAgent} \cup IdAgentRow
  BY DEF IdTyped
<1> QED BY <1>1, IdRowShape DEF QueryIdentity, UnderRow

LEMMA IdNoDocument == NoDocument \notin IdDoc /\ NoCaller \in IdCall /\ NoCaller.pc = "idle" /\ FirstDocument \in IdDoc /\ FirstDocument.key = 1
BY IdentityAssumption DEF NoDocument, IdDoc, NoCaller, IdCall, FirstDocument

\* A document that is registered anew.
LEMMA IdRegistered ==
    ASSUME NEW d \in IdDoc
    PROVE  NewAgent(d) \in IdAgentRow /\ NewAgent(d).document = d /\ NewAgent(d) # NoAgent
BY IdentityAssumption DEF NewAgent, IdAgentRow, NoAgent

\* A document that replaces the row's: the caller had read the one it replaces.
LEMMA IdUpdated ==
    ASSUME IdTyped, IdFresh, NEW c \in IdCallers, idCaller[c].pc \in {"read", "staged"},
           MayUpdate(idRow[IdHome], idCaller[c].document)
    PROVE  /\ UpdatedAgent(idRow[IdHome], idCaller[c].document) \in IdAgentRow
           /\ UpdatedAgent(idRow[IdHome], idCaller[c].document).document = idCaller[c].document
           /\ UpdatedAgent(idRow[IdHome], idCaller[c].document).version = idRow[IdHome].version + 1
           /\ idRow[IdHome] \in IdAgentRow /\ idRow[IdHome].status = "active"
           /\ idCaller[c].read = UnderRow(idRow[IdHome])
<1> DEFINE row == idRow[IdHome]
           d == idCaller[c].document
<1>1. row \in {NoAgent} \cup IdAgentRow /\ row # NoAgent
  BY IdentityAssumption DEF IdTyped, MayUpdate
<1>2. /\ row.document \in IdDoc /\ row.version \in 1..MaxIdVersion /\ row.status \in {"active", "deactivated"}
      /\ row.rotation \in {"ACTIVE", "ROTATING"}
  BY <1>1 DEF IdAgentRow
<1>3. d \in IdDoc /\ d.version = idCaller[c].read.version + 1 /\ idCaller[c].read \in IdDoc
      /\ (idCaller[c].read.version = row.version => idCaller[c].read = UnderRow(row))
  BY DEF IdFresh, IdFreshCall
<1>4. row.version = d.version - 1 /\ row.status # "deactivated"
  BY DEF MayUpdate, VersionMatches
<1>5. d.version \in Int /\ idCaller[c].read.version \in Int /\ d.version \in 1..MaxIdVersion
  BY <1>3 DEF IdDoc
<1>6. idCaller[c].read.version = row.version /\ d.version = row.version + 1
  BY <1>2, <1>3, <1>4, <1>5
<1>7. UpdatedAgent(row, d) \in IdAgentRow
  BY <1>2, <1>3, <1>5 DEF UpdatedAgent, IdAgentRow
<1> QED BY <1>1, <1>2, <1>3, <1>4, <1>6, <1>7 DEF UpdatedAgent

\* A call still has the document it read, or an older one, when the row gets its next version.
LEMMA IdFreshOn ==
    ASSUME NEW k \in IdCall, NEW row \in IdAgentRow, NEW new \in IdAgentRow, IdFreshCall(k, row),
           new.version = row.version + 1
    PROVE  IdFreshCall(k, new)
<1>1. new # NoAgent /\ row.version \in Int /\ new.version \in Int
  BY IdRowShape
<1>2. k.read \in IdDoc => k.read.version \in Int
  BY DEF IdDoc
<1> QED BY <1>1, <1>2 DEF IdFreshCall

\* Registering, synchronizing and deactivating: the rows of other nodes, or the status.
LEMMA IdFreshRegister ==
    ASSUME IdInv, NEW n \in IdNodes, NEW d \in IdDoc, idRow[n] = NoAgent,
           idRow' = [idRow EXCEPT ![n] = NewAgent(d)], UNCHANGED idCaller
    PROVE  IdFresh'
<1>1. CASE n = IdHome
  <2>1. \A c \in IdCallers : idCaller[c].pc = "idle"
    BY <1>1 DEF IdInv, IdFresh, IdFreshCall
  <2> QED BY <2>1 DEF IdInv, IdFresh, IdFreshCall
<1>2. CASE n # IdHome
  <2>1. idRow'[IdHome] = idRow[IdHome]
    BY <1>2 DEF IdInv, IdTyped
  <2> QED BY <2>1 DEF IdInv, IdFresh
<1> QED BY <1>1, <1>2

LEMMA IdPosts ==
    ASSUME IdInv, NEW n \in IdNodes, NEW d, d = FirstDocument \/ \E m \in IdNodes : d = QueryIdentity(m),
           PostIdentity(n, d)
    PROVE  IdInv'
<1>1. d \in IdDoc
  <2>1. CASE d = FirstDocument
    BY <2>1, IdNoDocument
  <2>2. CASE \E m \in IdNodes : d = QueryIdentity(m)
    <3>1. d \in IdDoc \cup {NoDocument}
      BY <2>2, IdQuery DEF IdInv
    <3>2. d # NoDocument
      BY DEF PostIdentity, VerifyAgentIdentityDocument, VerifyRotationProof, NoDocument
    <3> QED BY <3>1, <3>2
  <2> QED BY <2>1, <2>2
<1>2. /\ idRow[n] = NoAgent /\ idRow' = [idRow EXCEPT ![n] = NewAgent(d)]
      /\ idSync' = idSync \cup BroadcastTo(n, d) /\ UNCHANGED <<idCaller, idPending, idFile, idKeys>>
  BY DEF PostIdentity, Register
<1>3. idEvents' \in 0..MaxIdEvents
  BY IdentityAssumption DEF PostIdentity, IdEvent, IdInv, IdTyped
<1>4. BroadcastTo(n, d) \subseteq [to : IdNodes, document : IdDoc] /\ \A m \in BroadcastTo(n, d) : m.document = d
  BY <1>1 DEF BroadcastTo
<1>5. idRow' \in [IdNodes -> {NoAgent} \cup IdAgentRow]
  BY <1>1, <1>2, IdRegistered DEF IdInv, IdTyped
<1>6. IdTyped'
  BY <1>2, <1>3, <1>4, <1>5 DEF IdInv, IdTyped
<1>7. IdFresh'
  BY <1>1, <1>2, IdFreshRegister
<1>8. IdFirst'
  <2> SUFFICES ASSUME idRow'[IdHome] = NoAgent
               PROVE  /\ idFile' = 1
                      /\ \A m \in IdNodes : idRow'[m] # NoAgent => idRow'[m].document.key = 1
                      /\ \A m \in idSync' : m.document.key = 1
    BY DEF IdFirst
  <2>1. idRow[IdHome] = NoAgent /\ \A m \in IdNodes : idRow'[m] = IF m = n THEN NewAgent(d) ELSE idRow[m]
    BY <1>1, <1>2, IdRegistered, IdentityAssumption DEF IdInv, IdTyped
  <2>2. d.key = 1
    <3>1. CASE d = FirstDocument
      BY <3>1, IdNoDocument
    <3>2. CASE \E m \in IdNodes : d = QueryIdentity(m)
      <4>1. PICK m \in IdNodes : d = QueryIdentity(m)
        BY <3>2
      <4>2. idRow[m] \in IdAgentRow /\ idRow[m] # NoAgent /\ d = UnderRow(idRow[m])
        BY <1>1, <4>1, IdQuery, IdNoDocument DEF IdInv
      <4> QED BY <2>1, <4>2, IdRowShape DEF IdInv, IdFirst
    <3> QED BY <3>1, <3>2
  <2> QED BY <1>1, <1>2, <1>4, <2>1, <2>2, IdRegistered DEF IdInv, IdFirst
<1> QED BY <1>6, <1>7, <1>8 DEF IdInv

LEMMA IdSyncs ==
    ASSUME IdInv, NEW m \in idSync, FederationSync(m)
    PROVE  IdInv'
<1>1. m.to \in IdNodes /\ m.document \in IdDoc
  BY DEF IdInv, IdTyped
<1>2. idSync' \subseteq idSync /\ UNCHANGED <<idCaller, idPending, idFile, idKeys, idEvents>>
      /\ (\/ idRow' = idRow
          \/ idRow[m.to] = NoAgent /\ idRow' = [idRow EXCEPT ![m.to] = NewAgent(m.document)])
  BY DEF FederationSync, Register
<1>3. CASE idRow' = idRow
  BY <1>2, <1>3 DEF IdInv, IdTyped, IdFresh, IdFirst
<1>4. CASE idRow[m.to] = NoAgent /\ idRow' = [idRow EXCEPT ![m.to] = NewAgent(m.document)]
  <2>1. idRow' \in [IdNodes -> {NoAgent} \cup IdAgentRow]
    BY <1>1, <1>4, IdRegistered DEF IdInv, IdTyped
  <2>2. IdTyped'
    BY <1>2, <2>1 DEF IdInv, IdTyped
  <2>3. IdFresh'
    BY <1>1, <1>2, <1>4, IdFreshRegister
  <2>4. idRow'[IdHome] = NoAgent => idRow[IdHome] = NoAgent
    BY <1>1, <1>4, IdRegistered, IdentityAssumption DEF IdInv, IdTyped
  <2>5. \A n \in IdNodes : idRow'[n] = IF n = m.to THEN NewAgent(m.document) ELSE idRow[n]
    BY <1>1, <1>4 DEF IdInv, IdTyped
  <2>6. IdFirst'
    BY <1>1, <1>2, <2>4, <2>5, IdRegistered DEF IdInv, IdFirst
  <2> QED BY <2>2, <2>3, <2>6 DEF IdInv
<1> QED BY <1>2, <1>3, <1>4

\* A row that only changed its status.
LEMMA IdDeletes ==
    ASSUME IdInv, NEW n \in IdNodes, DeleteIdentity(n)
    PROVE  IdInv' /\ idRow'[IdHome].document = idRow[IdHome].document /\ (idRow'[IdHome] = NoAgent => idRow[IdHome] = NoAgent)
<1> DEFINE r == [idRow[n] EXCEPT !.status = "deactivated"]
<1>1. idRow[n] \in IdAgentRow /\ idRow' = [idRow EXCEPT ![n] = r] /\ UNCHANGED <<idSync, idCaller, idPending, idFile, idKeys>>
  <2>1. idRow[n] \in {NoAgent} \cup IdAgentRow /\ idRow[n] # NoAgent /\ UNCHANGED <<idSync, idCaller, idPending, idFile, idKeys>>
    BY DEF DeleteIdentity, IdInv, IdTyped
  <2>2. idRow' = [idRow EXCEPT ![n].status = "deactivated"]
    BY DEF DeleteIdentity
  <2>3. idRow' = [idRow EXCEPT ![n] = r]
    BY <2>2
  <2> QED BY <2>1, <2>3
<1>2. idEvents' \in 0..MaxIdEvents
  BY IdentityAssumption DEF DeleteIdentity, IdEvent, IdInv, IdTyped
<1>3. /\ r \in IdAgentRow /\ r.document = idRow[n].document /\ r.version = idRow[n].version
      /\ UnderRow(r) = UnderRow(idRow[n]) /\ r # NoAgent
  BY <1>1 DEF IdAgentRow, UnderRow, NoAgent
<1> HIDE DEF r
<1>4. \A m \in IdNodes : idRow'[m] = IF m = n THEN r ELSE idRow[m]
  BY <1>1 DEF IdInv, IdTyped
<1>5. IdTyped'
  <2>1. idRow' \in [IdNodes -> {NoAgent} \cup IdAgentRow]
    BY <1>1, <1>3 DEF IdInv, IdTyped
  <2> QED BY <1>1, <1>2, <2>1 DEF IdInv, IdTyped
<1>6. IdFresh'
  BY <1>1, <1>3, <1>4, IdentityAssumption, IdRowShape DEF IdInv, IdFresh, IdFreshCall
<1>7. IdFirst'
  BY <1>1, <1>3, <1>4, IdentityAssumption, IdRowShape DEF IdInv, IdFirst
<1> QED BY <1>3, <1>4, <1>5, <1>6, <1>7, IdentityAssumption DEF IdInv

\* A caller reads the home registry and makes a document of the next version.
LEMMA IdReads ==
    ASSUME IdInv, NEW c \in IdCallers, NEW d \in IdDoc, QueryIdentity(IdHome) # NoDocument,
           d.version = QueryIdentity(IdHome).version + 1,
           c \in IdWriters => d.key = QueryIdentity(IdHome).key,
           idKeys' \in 1..MaxIdKeys, IdEvent,
           idCaller' = [idCaller EXCEPT ![c] = [pc |-> "read", read |-> QueryIdentity(IdHome), document |-> d]],
           UNCHANGED <<idRow, idSync, idPending, idFile>>
    PROVE  IdInv'
<1> DEFINE k == [pc |-> "read", read |-> QueryIdentity(IdHome), document |-> d]
<1>1. /\ idRow[IdHome] \in IdAgentRow /\ idRow[IdHome] # NoAgent
      /\ QueryIdentity(IdHome) = UnderRow(idRow[IdHome]) /\ QueryIdentity(IdHome) \in IdDoc
  BY IdQuery, IdentityAssumption DEF IdInv
<1>2. k \in IdCall /\ k.pc = "read" /\ k.read = QueryIdentity(IdHome) /\ k.document = d
  BY <1>1 DEF IdCall
<1>3. UnderRow(idRow[IdHome]).version = idRow[IdHome].version /\ idRow[IdHome].version \in Int
  BY <1>1, IdRowShape
<1>4. IdFreshCall(k, idRow[IdHome])
  BY <1>1, <1>2, <1>3 DEF IdFreshCall
<1> HIDE DEF k
<1>5. idCaller' = [idCaller EXCEPT ![c] = k]
  BY DEF k
<1>6. \A x \in IdCallers : idCaller'[x] = IF x = c THEN k ELSE idCaller[x]
  BY <1>5 DEF IdInv, IdTyped
<1>7. IdTyped'
  <2>1. idCaller' \in [IdCallers -> IdCall]
    BY <1>2, <1>5 DEF IdInv, IdTyped
  <2>2. idEvents' \in 0..MaxIdEvents
    BY IdentityAssumption DEF IdEvent, IdInv, IdTyped
  <2> QED BY <2>1, <2>2 DEF IdInv, IdTyped
<1>8. IdFresh'
  <2>1. \A x \in IdCallers : IdFreshCall(idCaller'[x], idRow'[IdHome])
    BY <1>4, <1>6 DEF IdInv, IdFresh
  <2>2. \A w \in IdWriters : idCaller'[w].pc \in {"idle", "read"}
                             /\ (idCaller'[w].pc = "read" => idCaller'[w].document.key = idCaller'[w].read.key)
    BY <1>2, <1>6 DEF IdInv, IdFresh, IdCallers
  <2> QED BY <2>1, <2>2 DEF IdFresh
<1>9. IdFirst'
  BY <1>1 DEF IdFirst
<1> QED BY <1>7, <1>8, <1>9 DEF IdInv

LEMMA IdBegins ==
    ASSUME IdInv, NEW t \in IdTools, BeginRotation(t)
    PROVE  IdInv'
<1> DEFINE q == QueryIdentity(IdHome)
           d == InitiateKeyRotation(q)
<1>1. q \in IdDoc /\ q # NoDocument /\ q.version < MaxIdVersion /\ idKeys < MaxIdKeys /\ idKeys' = idKeys + 1
  BY IdQuery, IdentityAssumption DEF BeginRotation, IdInv
<1>2. d \in IdDoc /\ d.version = q.version + 1
  BY <1>1, IdentityAssumption DEF InitiateKeyRotation, IdDoc, IdInv, IdTyped
<1>3. idKeys' \in 1..MaxIdKeys
  BY <1>1, IdentityAssumption DEF IdInv, IdTyped
<1>4. t \in IdCallers /\ t \notin IdWriters
  BY IdentityAssumption DEF IdCallers
<1>5. /\ idCaller' = [idCaller EXCEPT ![t] = [pc |-> "read", read |-> q, document |-> d]]
      /\ UNCHANGED <<idRow, idSync, idPending, idFile>> /\ IdEvent
  BY DEF BeginRotation
<1> HIDE DEF d
<1> QED BY <1>1, <1>2, <1>3, <1>4, <1>5, IdReads

LEMMA IdReadsForUpdate ==
    ASSUME IdInv, NEW w \in IdWriters, ReadForUpdate(w)
    PROVE  IdInv'
<1> DEFINE q == QueryIdentity(IdHome)
           d == [q EXCEPT !.version = q.version + 1]
<1>1. q \in IdDoc /\ q # NoDocument /\ q.version < MaxIdVersion
  BY IdQuery, IdentityAssumption DEF ReadForUpdate, IdInv
<1>2. d \in IdDoc /\ d.version = q.version + 1 /\ d.key = q.key
  BY <1>1, IdentityAssumption DEF IdDoc
<1>3. idKeys' \in 1..MaxIdKeys
  BY DEF ReadForUpdate, IdInv, IdTyped
<1>4. w \in IdCallers
  BY DEF IdCallers
<1>5. /\ idCaller' = [idCaller EXCEPT ![w] = [pc |-> "read", read |-> q, document |-> d]]
      /\ UNCHANGED <<idRow, idSync, idPending, idFile>> /\ IdEvent
  BY DEF ReadForUpdate
<1> HIDE DEF d
<1> QED BY <1>1, <1>2, <1>3, <1>4, <1>5, IdReads

\* A caller that goes on with what it has, or ends, while the registry stays as it is.
LEMMA IdGoes ==
    ASSUME IdInv, NEW c \in IdCallers, NEW k \in IdCall,
           idCaller' = [idCaller EXCEPT ![c] = k],
           k = NoCaller \/ (/\ c \notin IdWriters /\ idCaller[c].pc # "idle"
                            /\ k.read = idCaller[c].read /\ k.document = idCaller[c].document
                            /\ k.pc = "staged" => idCaller[c].pc = "read"
                            /\ k.pc # "read"),
           UNCHANGED <<idRow, idSync, idKeys>>, idPending' \in 0..MaxIdKeys, idFile' \in 1..MaxIdKeys,
           idEvents' \in 0..MaxIdEvents, idRow[IdHome] # NoAgent
    PROVE  IdInv'
<1>1. \A x \in IdCallers : idCaller'[x] = IF x = c THEN k ELSE idCaller[x]
  BY DEF IdInv, IdTyped
<1>2. IdTyped'
  BY DEF IdInv, IdTyped
<1>3. IdFreshCall(k, idRow[IdHome])
  BY IdNoDocument DEF IdInv, IdFresh, IdFreshCall
<1>4. \A w \in IdWriters : w = c => k = NoCaller
  OBVIOUS
<1>5. IdFresh'
  <2>1. \A x \in IdCallers : IdFreshCall(idCaller'[x], idRow'[IdHome])
    BY <1>1, <1>3 DEF IdInv, IdFresh
  <2>2. \A w \in IdWriters : idCaller'[w].pc \in {"idle", "read"}
                             /\ (idCaller'[w].pc = "read" => idCaller'[w].document.key = idCaller'[w].read.key)
    BY <1>1, <1>4, IdNoDocument DEF IdInv, IdFresh, IdCallers
  <2> QED BY <2>1, <2>2 DEF IdFresh
<1>6. IdFirst'
  BY DEF IdFirst
<1> QED BY <1>2, <1>5, <1>6 DEF IdInv

\* A caller that replaces the document.
LEMMA IdReplaces ==
    ASSUME IdInv, NEW c \in IdCallers, NEW k \in IdCall, k.pc \in {"idle", "published", "failed"}, c \in IdWriters => k.pc = "idle",
           idCaller[c].pc \in {"read", "staged"}, MayUpdate(idRow[IdHome], idCaller[c].document),
           idRow' = [idRow EXCEPT ![IdHome] = UpdatedAgent(idRow[IdHome], idCaller[c].document)],
           idCaller' = [idCaller EXCEPT ![c] = k],
           UNCHANGED <<idSync, idPending, idFile, idKeys, idEvents>>
    PROVE  /\ IdInv' /\ idRow[IdHome] # NoAgent
           /\ idRow'[IdHome].document = idCaller[c].document /\ idCaller[c].read = QueryIdentity(IdHome)
           /\ \A n \in IdNodes : n # IdHome => idRow'[n] = idRow[n]
<1> DEFINE row == idRow[IdHome]
           new == UpdatedAgent(row, idCaller[c].document)
<1>1. /\ new \in IdAgentRow /\ new.document = idCaller[c].document /\ new.version = row.version + 1
      /\ row \in IdAgentRow /\ row.status = "active" /\ idCaller[c].read = UnderRow(row)
  BY IdUpdated DEF IdInv
<1> HIDE DEF new
<1>2. \A x \in IdCallers : idCaller'[x] = IF x = c THEN k ELSE idCaller[x]
  BY DEF IdInv, IdTyped
<1>3. idRow' = [idRow EXCEPT ![IdHome] = new]
  BY DEF new
<1>4. idRow'[IdHome] = new /\ \A n \in IdNodes : n # IdHome => idRow'[n] = idRow[n]
  BY <1>3, IdentityAssumption DEF IdInv, IdTyped
<1>5. row # NoAgent /\ new # NoAgent
  BY <1>1, IdRowShape
<1>6. IdTyped'
  <2>1. idRow' \in [IdNodes -> {NoAgent} \cup IdAgentRow] /\ idCaller' \in [IdCallers -> IdCall]
    BY <1>1, <1>3 DEF IdInv, IdTyped
  <2> QED BY <2>1 DEF IdInv, IdTyped
<1>7. IdFresh'
  <2>1. IdFreshCall(k, new)
    BY <1>5 DEF IdFreshCall
  <2>2. ASSUME NEW x \in IdCallers PROVE IdFreshCall(idCaller[x], new)
    <3>1. idCaller[x] \in IdCall /\ IdFreshCall(idCaller[x], row)
      BY DEF IdInv, IdTyped, IdFresh
    <3> HIDE DEF row
    <3> QED BY <1>1, <3>1, IdFreshOn
  <2>3. \A x \in IdCallers : IdFreshCall(idCaller'[x], idRow'[IdHome])
    BY <1>2, <1>4, <2>1, <2>2
  <2>4. \A w \in IdWriters : idCaller'[w].pc \in {"idle", "read"}
                             /\ (idCaller'[w].pc = "read" => idCaller'[w].document.key = idCaller'[w].read.key)
    BY <1>2 DEF IdInv, IdFresh, IdCallers
  <2> QED BY <2>3, <2>4 DEF IdFresh
<1>8. IdFirst'
  BY <1>4, <1>5 DEF IdFirst
<1>9. QueryIdentity(IdHome) = UnderRow(row)
  BY <1>1, <1>5 DEF QueryIdentity, UnderRow
<1> QED BY <1>1, <1>4, <1>5, <1>6, <1>7, <1>8, <1>9 DEF IdInv

\* What a step of the command leaves of its call.
LEMMA IdToolCall ==
    ASSUME IdInv, NEW t \in IdTools, NEW pc \in {"staged", "published", "failed"}
    PROVE  /\ t \in IdCallers /\ t \notin IdWriters
           /\ [idCaller EXCEPT ![t].pc = pc] = [idCaller EXCEPT ![t] = [idCaller[t] EXCEPT !.pc = pc]]
           /\ [idCaller[t] EXCEPT !.pc = pc] \in IdCall /\ [idCaller[t] EXCEPT !.pc = pc].pc = pc
           /\ [idCaller[t] EXCEPT !.pc = pc].read = idCaller[t].read
           /\ [idCaller[t] EXCEPT !.pc = pc].document = idCaller[t].document
<1>1. t \in IdCallers /\ t \notin IdWriters
  BY IdentityAssumption DEF IdCallers
<1>2. idCaller[t] \in IdCall
  BY <1>1 DEF IdInv, IdTyped
<1> QED BY <1>1, <1>2 DEF IdCall

LEMMA IdStages ==
    ASSUME IdInv, NEW t \in IdTools, StageKey(t)
    PROVE  IdInv' /\ idPending' = idCaller[t].document.key /\ idRow[IdHome] # NoAgent
           /\ idCaller'[t].pc = "staged" /\ idCaller'[t].document = idCaller[t].document
<1> DEFINE k == [idCaller[t] EXCEPT !.pc = "staged"]
<1>1. /\ idCaller[t].pc = "read" /\ idPending' = idCaller[t].document.key
      /\ idCaller' = [idCaller EXCEPT ![t].pc = "staged"]
      /\ UNCHANGED <<idRow, idSync, idFile, idKeys, idEvents>>
  BY DEF StageKey
<1>2. /\ t \in IdCallers /\ t \notin IdWriters /\ idCaller' = [idCaller EXCEPT ![t] = k]
      /\ k \in IdCall /\ k.pc = "staged" /\ k.read = idCaller[t].read /\ k.document = idCaller[t].document
  BY <1>1, IdToolCall
<1> HIDE DEF k
<1>3. idRow[IdHome] # NoAgent /\ idCaller[t].document \in IdDoc
  BY <1>1, <1>2 DEF IdInv, IdFresh, IdFreshCall
<1>4. idPending' \in 0..MaxIdKeys /\ idFile' \in 1..MaxIdKeys /\ idEvents' \in 0..MaxIdEvents
  BY <1>1, <1>3, IdentityAssumption DEF IdDoc, IdInv, IdTyped
<1>5. IdInv'
  BY <1>1, <1>2, <1>3, <1>4, IdGoes
<1>6. idCaller'[t] = k
  BY <1>2 DEF IdInv, IdTyped
<1> QED BY <1>1, <1>2, <1>3, <1>5, <1>6

\* update() or the rename has thrown and the registry stays as it is.
LEMMA IdFails ==
    ASSUME IdInv, NEW t \in IdTools, idCaller[t].pc \in {"staged", "published"},
           idCaller' = [idCaller EXCEPT ![t].pc = "failed"],
           UNCHANGED <<idRow, idSync, idPending, idFile, idKeys, idEvents>>
    PROVE  IdInv' /\ idCaller'[t].document = idCaller[t].document /\ idCaller'[t].pc = "failed"
<1> DEFINE k == [idCaller[t] EXCEPT !.pc = "failed"]
<1>1. /\ k \in IdCall /\ k.pc = "failed" /\ idCaller' = [idCaller EXCEPT ![t] = k]
      /\ k.read = idCaller[t].read /\ k.document = idCaller[t].document /\ t \in IdCallers /\ t \notin IdWriters
  BY IdToolCall
<1> HIDE DEF k
<1>2. idCaller'[t] = k
  BY <1>1 DEF IdInv, IdTyped
<1>3. idRow[IdHome] # NoAgent
  BY <1>1 DEF IdInv, IdFresh, IdFreshCall
<1>4. idPending' \in 0..MaxIdKeys /\ idFile' \in 1..MaxIdKeys /\ idEvents' \in 0..MaxIdEvents
  BY DEF IdInv, IdTyped
<1>5. IdInv'
  BY <1>1, <1>3, <1>4, IdGoes
<1> QED BY <1>1, <1>2, <1>5

LEMMA IdPublishes ==
    ASSUME IdInv, NEW t \in IdTools, PublishKey(t)
    PROVE  /\ IdInv' /\ idRow[IdHome] # NoAgent /\ idCaller[t].pc = "staged" /\ UNCHANGED <<idPending, idFile>>
           /\ idCaller'[t].document = idCaller[t].document /\ idCaller'[t].pc \in {"published", "failed"}
           /\ \/ /\ idRow'[IdHome].document = idCaller[t].document
                 /\ idCaller[t].read = QueryIdentity(IdHome) /\ \A n \in IdNodes : n # IdHome => idRow'[n] = idRow[n]
              \/ idRow' = idRow /\ idCaller'[t].pc = "failed"
<1>1. idCaller[t].pc = "staged" /\ UNCHANGED <<idSync, idPending, idFile, idKeys, idEvents>>
  BY DEF PublishKey
<1>2. t \in IdCallers /\ t \notin IdWriters /\ idCaller[t] \in IdCall
  BY IdentityAssumption DEF IdCallers, IdInv, IdTyped
<1>3. idRow[IdHome] # NoAgent
  BY <1>1, <1>2 DEF IdInv, IdFresh, IdFreshCall
<1>4. ASSUME NEW pc \in {"published", "failed"}, MayUpdate(idRow[IdHome], idCaller[t].document),
             idRow' = [idRow EXCEPT ![IdHome] = UpdatedAgent(idRow[IdHome], idCaller[t].document)],
             idCaller' = [idCaller EXCEPT ![t].pc = pc]
      PROVE  /\ IdInv' /\ idCaller'[t].document = idCaller[t].document /\ idCaller'[t].pc = pc
             /\ idRow'[IdHome].document = idCaller[t].document
             /\ idCaller[t].read = QueryIdentity(IdHome) /\ \A n \in IdNodes : n # IdHome => idRow'[n] = idRow[n]
  <2> DEFINE k == [idCaller[t] EXCEPT !.pc = pc]
  <2>1. k \in IdCall /\ k.pc = pc /\ k.document = idCaller[t].document /\ idCaller' = [idCaller EXCEPT ![t] = k]
    BY <1>4, IdToolCall
  <2> HIDE DEF k
  <2>2. idCaller'[t] = k
    BY <1>2, <2>1 DEF IdInv, IdTyped
  <2>3. /\ IdInv' /\ idRow'[IdHome].document = idCaller[t].document /\ idCaller[t].read = QueryIdentity(IdHome)
        /\ \A n \in IdNodes : n # IdHome => idRow'[n] = idRow[n]
    BY <1>1, <1>2, <1>4, <2>1, IdReplaces
  <2> QED BY <2>1, <2>2, <2>3
<1>5. ASSUME idRow' = idRow, idCaller' = [idCaller EXCEPT ![t].pc = "failed"]
      PROVE  IdInv' /\ idCaller'[t].document = idCaller[t].document /\ idCaller'[t].pc = "failed"
  BY <1>1, <1>5, IdFails
<1>6. \/ \E pc \in {"published", "failed"} :
            /\ MayUpdate(idRow[IdHome], idCaller[t].document) /\ idCaller' = [idCaller EXCEPT ![t].pc = pc]
            /\ idRow' = [idRow EXCEPT ![IdHome] = UpdatedAgent(idRow[IdHome], idCaller[t].document)]
      \/ idRow' = idRow /\ idCaller' = [idCaller EXCEPT ![t].pc = "failed"]
  BY DEF PublishKey
<1> QED BY <1>1, <1>3, <1>4, <1>5, <1>6

\* CommitKey, RollbackKey and ToolDies, when the call is over.
LEMMA IdEnds ==
    ASSUME IdInv, NEW t \in IdTools, CommitKey(t) \/ RollbackKey(t) \/ ToolDies(t),
           idCaller' = [idCaller EXCEPT ![t] = NoCaller]
    PROVE  IdInv' /\ idCaller'[t] = NoCaller /\ UNCHANGED <<idRow, idSync>> /\ idRow[IdHome] # NoAgent
<1>1. /\ idCaller[t].pc # "idle" /\ UNCHANGED <<idRow, idSync, idKeys>>
      /\ idPending' \in {0, idPending} /\ idFile' \in {idFile} \cup (IF idPending # 0 THEN {idPending} ELSE {})
      /\ (idEvents' = idEvents \/ IdEvent)
  BY DEF CommitKey, RollbackKey, ToolDies
<1>2. t \in IdCallers /\ NoCaller \in IdCall
  BY IdNoDocument DEF IdCallers
<1>3. idRow[IdHome] # NoAgent
  BY <1>1, <1>2 DEF IdInv, IdFresh, IdFreshCall
<1>4. idPending' \in 0..MaxIdKeys /\ idFile' \in 1..MaxIdKeys
  BY <1>1, IdentityAssumption DEF IdInv, IdTyped
<1>5. idEvents' \in 0..MaxIdEvents
  BY <1>1, IdentityAssumption DEF IdInv, IdTyped, IdEvent
<1>6. IdInv'
  BY <1>1, <1>2, <1>3, <1>4, <1>5, IdGoes
<1> QED BY <1>1, <1>2, <1>3, <1>6 DEF IdInv, IdTyped

\* CommitKey, when the rename throws.
LEMMA IdCommits ==
    ASSUME IdInv, NEW t \in IdTools, CommitKey(t), idCaller' # [idCaller EXCEPT ![t] = NoCaller]
    PROVE  /\ IdInv' /\ UNCHANGED <<idRow, idPending, idFile>> /\ idCaller[t].pc = "published"
           /\ idCaller'[t].document = idCaller[t].document /\ idCaller'[t].pc = "failed"
<1>1. /\ idCaller[t].pc = "published" /\ idCaller' = [idCaller EXCEPT ![t].pc = "failed"]
      /\ UNCHANGED <<idRow, idSync, idPending, idFile, idKeys, idEvents>>
  BY DEF CommitKey
<1> QED BY <1>1, IdFails

LEMMA IdUpdatesFields ==
    ASSUME IdInv, NEW w \in IdWriters, UpdateFields(w)
    PROVE  /\ IdInv' /\ idRow[IdHome] # NoAgent /\ UNCHANGED <<idPending, idFile>>
           /\ \A x \in IdCallers : x # w => idCaller'[x] = idCaller[x]
           /\ \/ idRow' = idRow
              \/ /\ idRow'[IdHome].document = idCaller[w].document /\ idCaller[w].read = QueryIdentity(IdHome)
                 /\ idRow'[IdHome].document.key = idRow[IdHome].document.key
                 /\ \A n \in IdNodes : n # IdHome => idRow'[n] = idRow[n]
<1>1. idCaller[w].pc = "read" /\ idCaller' = [idCaller EXCEPT ![w] = NoCaller] /\ UNCHANGED <<idSync, idPending, idFile, idKeys, idEvents>>
  BY DEF UpdateFields
<1>2. w \in IdCallers /\ NoCaller \in IdCall /\ NoCaller.pc = "idle"
  BY IdNoDocument DEF IdCallers
<1>3. idRow[IdHome] # NoAgent /\ \A x \in IdCallers : x # w => idCaller'[x] = idCaller[x]
  BY <1>1, <1>2 DEF IdInv, IdTyped, IdFresh, IdFreshCall
<1>4. CASE MayUpdate(idRow[IdHome], idCaller[w].document)
  <2>1. idRow' = [idRow EXCEPT ![IdHome] = UpdatedAgent(idRow[IdHome], idCaller[w].document)]
    BY <1>4 DEF UpdateFields
  <2>2. /\ IdInv' /\ idRow'[IdHome].document = idCaller[w].document /\ idCaller[w].read = QueryIdentity(IdHome)
        /\ \A n \in IdNodes : n # IdHome => idRow'[n] = idRow[n]
    BY <1>1, <1>2, <1>4, <2>1, IdReplaces
  <2>3. idCaller[w].document.key = idCaller[w].read.key
    BY <1>1 DEF IdInv, IdFresh
  <2>4. idRow[IdHome] \in IdAgentRow /\ idCaller[w].read = UnderRow(idRow[IdHome])
    BY <1>1, <1>2, <1>4, IdUpdated DEF IdInv
  <2>5. UnderRow(idRow[IdHome]).key = idRow[IdHome].document.key
    BY <2>4, IdRowShape
  <2> QED BY <1>1, <1>3, <2>2, <2>3, <2>4, <2>5
<1>5. CASE ~MayUpdate(idRow[IdHome], idCaller[w].document)
  <2>1. idRow' = idRow
    BY <1>5 DEF UpdateFields
  <2>2. idPending' \in 0..MaxIdKeys /\ idFile' \in 1..MaxIdKeys /\ idEvents' \in 0..MaxIdEvents
    BY <1>1 DEF IdInv, IdTyped
  <2>3. IdInv'
    BY <1>1, <1>2, <1>3, <2>1, <2>2, IdGoes
  <2> QED BY <1>1, <1>3, <2>1, <2>3
<1> QED BY <1>4, <1>5

LEMMA IdStep == IdInv /\ [IdNext]_idVars => IdInv'
<1> SUFFICES ASSUME IdInv, [IdNext]_idVars PROVE IdInv'
  OBVIOUS
<1>1. CASE UNCHANGED idVars
  BY <1>1 DEF idVars, IdInv, IdTyped, IdFresh, IdFirst
<1>2. ASSUME NEW m \in idSync, SyncLost(m) PROVE IdInv'
  BY <1>2 DEF SyncLost, IdInv, IdTyped, IdFresh, IdFirst
<1>3. ASSUME NEW n \in IdNodes, PostIdentity(n, FirstDocument) PROVE IdInv'
  BY <1>3, IdPosts
<1>4. ASSUME NEW n \in IdNodes, NEW m \in IdNodes, PostIdentity(n, QueryIdentity(m)) PROVE IdInv'
  BY <1>4, IdPosts
<1>5. ASSUME NEW n \in IdNodes, DeleteIdentity(n) PROVE IdInv'
  BY <1>5, IdDeletes
<1>6. ASSUME NEW t \in IdTools, StageKey(t) \/ PublishKey(t) PROVE IdInv'
  BY <1>6, IdStages, IdPublishes
<1>7. ASSUME NEW t \in IdTools, CommitKey(t) \/ RollbackKey(t) \/ ToolDies(t) PROVE IdInv'
  BY <1>7, IdEnds, IdCommits DEF RollbackKey, ToolDies
<1>8. ASSUME NEW w \in IdWriters, UpdateFields(w) PROVE IdInv'
  BY <1>8, IdUpdatesFields
<1> QED BY <1>1, <1>2, <1>3, <1>4, <1>5, <1>6, <1>7, <1>8, IdSyncs, IdBegins, IdReadsForUpdate DEF IdNext

\* One run of the command at a time knows what is in the pending file, so the published key can
\* only be lost where PublishedKeyIsKept says.
LEMMA IdStagedStep == IdInv /\ IdStaged /\ [IdNext]_idVars => IdStaged' /\ PublishedKeyIsKept
<1> SUFFICES ASSUME OneRun, IdInv, IdStaged, [IdNext]_idVars PROVE IdStaged' /\ PublishedKeyIsKept
  BY DEF IdStaged, PublishedKeyIsKept
<1> DEFINE key == idRow[IdHome].document.key
           Kept == IdStaged' /\ PublishedKeyIsKept
<1>a. IdInv'
  BY IdStep
<1>b. IdHome \in IdNodes
  BY IdentityAssumption
<1>c. ASSUME PublishedKeyIsHeld => PublishedKeyIsHeld' PROVE PublishedKeyIsKept
  BY <1>c DEF PublishedKeyIsKept
<1>1. CASE UNCHANGED idVars
  BY <1>1 DEF idVars, IdStaged, PublishedKeyIsKept, PublishedKeyIsHeld
<1>2. ASSUME UNCHANGED <<idCaller, idPending, idFile>>,
             idRow'[IdHome] = idRow[IdHome]
                \/ (idRow[IdHome] # NoAgent /\ idRow'[IdHome].document = idRow[IdHome].document)
      PROVE  Kept
  <2>1. IdStaged'
    BY <1>2 DEF IdStaged
  <2>2. PublishedKeyIsHeld => PublishedKeyIsHeld'
    BY <1>2 DEF PublishedKeyIsHeld
  <2> QED BY <1>c, <2>1, <2>2
<1>3. ASSUME NEW n \in IdNodes, NEW d \in IdDoc, idRow[n] = NoAgent, idRow' = [idRow EXCEPT ![n] = NewAgent(d)],
             UNCHANGED <<idCaller, idPending, idFile>>, idRow[IdHome] = NoAgent => d.key = 1
      PROVE  Kept
  <2>1. CASE n = IdHome
    <3>1. idFile = 1 /\ \A c \in IdCallers : idCaller[c].pc = "idle"
      BY <1>3, <2>1 DEF IdInv, IdFirst, IdFresh, IdFreshCall
    <3>2. idRow'[IdHome].document = d /\ d.key = 1
      BY <1>3, <2>1, IdRegistered DEF IdInv, IdTyped
    <3>3. IdStaged'
      BY <1>3, <3>1 DEF IdStaged, IdStagedBy, IdCallers
    <3>4. PublishedKeyIsHeld'
      BY <1>3, <3>1, <3>2 DEF PublishedKeyIsHeld
    <3> QED BY <1>c, <3>3, <3>4
  <2>2. CASE n # IdHome
    <3>1. idRow'[IdHome] = idRow[IdHome]
      BY <1>3, <1>b, <2>2 DEF IdInv, IdTyped
    <3> QED BY <1>2, <1>3, <3>1
  <2> QED BY <2>1, <2>2
<1>4. ASSUME NEW n \in IdNodes, NEW d, d = FirstDocument \/ \E m \in IdNodes : d = QueryIdentity(m), PostIdentity(n, d)
      PROVE  Kept
  <2>1. /\ idRow[n] = NoAgent /\ idRow' = [idRow EXCEPT ![n] = NewAgent(d)] /\ UNCHANGED <<idCaller, idPending, idFile>>
    BY <1>4 DEF PostIdentity, Register
  <2>2. d \in IdDoc \cup {NoDocument} /\ d # NoDocument
    <3>1. d # NoDocument
      BY <1>4 DEF PostIdentity, VerifyAgentIdentityDocument, VerifyRotationProof, NoDocument
    <3> QED BY <1>4, <3>1, IdQuery, IdNoDocument DEF IdInv
  <2>3. idRow[IdHome] = NoAgent => d.key = 1
    <3>1. CASE d = FirstDocument
      BY <3>1, IdNoDocument
    <3>2. CASE \E m \in IdNodes : d = QueryIdentity(m)
      <4>1. PICK m \in IdNodes : d = QueryIdentity(m)
        BY <3>2
      <4>2. idRow[m] \in IdAgentRow /\ idRow[m] # NoAgent /\ d = UnderRow(idRow[m])
        BY <2>2, <4>1, IdQuery DEF IdInv
      <4> QED BY <4>2, IdRowShape DEF IdInv, IdFirst
    <3> QED BY <1>4, <3>1, <3>2
  <2> HIDE DEF Kept
  <2> QED BY <1>3, <2>1, <2>2, <2>3
<1>5. ASSUME NEW m \in idSync, FederationSync(m) PROVE Kept
  <2>1. m.to \in IdNodes /\ m.document \in IdDoc /\ (idRow[IdHome] = NoAgent => m.document.key = 1)
    BY DEF IdInv, IdTyped, IdFirst
  <2>2. UNCHANGED <<idCaller, idPending, idFile>>
        /\ (\/ idRow' = idRow
            \/ idRow[m.to] = NoAgent /\ idRow' = [idRow EXCEPT ![m.to] = NewAgent(m.document)])
    BY <1>5 DEF FederationSync, Register
  <2> HIDE DEF Kept
  <2> QED BY <1>2, <1>3, <2>1, <2>2
<1>6. ASSUME NEW m \in idSync, SyncLost(m) PROVE Kept
  BY <1>2, <1>6 DEF SyncLost
<1>7. ASSUME NEW n \in IdNodes, DeleteIdentity(n) PROVE Kept
  <2>1. UNCHANGED <<idCaller, idPending, idFile>> /\ idRow'[IdHome].document = idRow[IdHome].document
    BY <1>7, IdDeletes DEF DeleteIdentity
  <2>2. idRow[IdHome] # NoAgent \/ idRow'[IdHome] = idRow[IdHome]
    <3>1. n = IdHome => idRow[IdHome] # NoAgent
      BY <1>7 DEF DeleteIdentity
    <3>2. n # IdHome => idRow'[IdHome] = idRow[IdHome]
      BY <1>7, <1>b DEF DeleteIdentity, IdInv, IdTyped
    <3> QED BY <3>1, <3>2
  <2> HIDE DEF Kept
  <2> QED BY <1>2, <2>1, <2>2
<1>8. ASSUME NEW t \in IdTools, BeginRotation(t) PROVE Kept
  <2>1. /\ UNCHANGED <<idRow, idPending, idFile>>
        /\ idCaller' = [idCaller EXCEPT ![t] = [pc |-> "read", read |-> QueryIdentity(IdHome), document |-> InitiateKeyRotation(QueryIdentity(IdHome))]]
    BY <1>8 DEF BeginRotation
  <2>2. idCaller'[t].pc = "read" /\ \A s \in IdTools : s = t
    BY <2>1 DEF IdInv, IdTyped, IdCallers, OneRun
  <2>3. IdStaged'
    BY <2>2 DEF IdStaged, IdStagedBy
  <2>4. PublishedKeyIsHeld => PublishedKeyIsHeld'
    BY <2>1 DEF PublishedKeyIsHeld
  <2> QED BY <1>c, <2>3, <2>4
<1>9. ASSUME NEW t \in IdTools, StageKey(t) PROVE Kept
  <2>1. /\ idPending' = idCaller[t].document.key
        /\ idCaller'[t].pc = "staged" /\ idCaller'[t].document = idCaller[t].document
    BY <1>9, IdStages
  <2>2. UNCHANGED <<idRow, idFile>> /\ idCaller[t].pc = "read"
    BY <1>9 DEF StageKey
  <2>3. \A s \in IdTools : s = t
    BY DEF OneRun
  <2>4. IdStaged'
    BY <2>1, <2>3 DEF IdStaged, IdStagedBy
  <2>5. PublishedKeyIsHeld /\ ~PublishedKeyIsHeld' => idPending = key
    BY <2>2 DEF PublishedKeyIsHeld
  <2> QED BY <2>1, <2>2, <2>4, <2>5 DEF PublishedKeyIsKept
<1>10. ASSUME NEW t \in IdTools, PublishKey(t) PROVE Kept
  <2>1. /\ idCaller[t].pc = "staged" /\ UNCHANGED <<idPending, idFile>>
        /\ idCaller'[t].document = idCaller[t].document /\ idCaller'[t].pc \in {"published", "failed"}
        /\ \/ idRow'[IdHome].document = idCaller[t].document
           \/ idRow' = idRow /\ idCaller'[t].pc = "failed"
    BY <1>10, IdPublishes
  <2>2. idPending = idCaller[t].document.key /\ \A s \in IdTools : s = t
    BY <2>1 DEF IdStaged, IdStagedBy, OneRun
  <2>3. IdStaged'
    BY <2>1, <2>2 DEF IdStaged, IdStagedBy
  <2>4. PublishedKeyIsHeld => PublishedKeyIsHeld'
    BY <2>1, <2>2 DEF PublishedKeyIsHeld
  <2> QED BY <1>c, <2>3, <2>4
<1>11. ASSUME NEW t \in IdTools, CommitKey(t) \/ RollbackKey(t) \/ ToolDies(t) PROVE Kept
  <2>0. \A s \in IdTools : s = t
    BY DEF OneRun
  <2>1. CASE CommitKey(t) /\ idCaller' # [idCaller EXCEPT ![t] = NoCaller]
    <3>1. /\ UNCHANGED <<idRow, idPending, idFile>> /\ idCaller[t].pc = "published"
          /\ idCaller'[t].document = idCaller[t].document /\ idCaller'[t].pc = "failed"
      BY <2>1, IdCommits
    <3>2. IdStaged'
      BY <2>0, <3>1 DEF IdStaged, IdStagedBy
    <3>3. PublishedKeyIsHeld => PublishedKeyIsHeld'
      BY <3>1 DEF PublishedKeyIsHeld
    <3> QED BY <1>c, <3>2, <3>3
  <2>2. CASE idCaller' = [idCaller EXCEPT ![t] = NoCaller]
    <3>1. idCaller'[t].pc = "idle" /\ UNCHANGED idRow /\ idRow[IdHome] # NoAgent
      BY <1>11, <2>2, IdEnds, IdNoDocument
    <3>2. IdStaged'
      BY <2>0, <3>1 DEF IdStaged, IdStagedBy
    <3>3. CASE CommitKey(t)
      <4>1. idCaller[t].pc = "published" /\ (idFile' = idPending \/ UNCHANGED <<idPending, idFile>>)
        BY <3>3 DEF CommitKey
      <4>2. key = idPending
        BY <4>1 DEF IdStaged, IdStagedBy
      <4>3. PublishedKeyIsHeld'
        BY <3>1, <4>1, <4>2 DEF PublishedKeyIsHeld
      <4> QED BY <1>c, <3>2, <4>3
    <3>4. CASE RollbackKey(t)
      <4>1. idCaller[t].pc = "failed" /\ UNCHANGED idFile
        BY <3>4 DEF RollbackKey
      <4>2. idPending = idCaller[t].document.key
        BY <4>1 DEF IdStaged, IdStagedBy
      <4>3. PublishedKeyIsHeld /\ ~PublishedKeyIsHeld' => idPending = key
        BY <3>1, <4>1 DEF PublishedKeyIsHeld
      <4> QED BY <3>1, <3>2, <4>1, <4>2, <4>3 DEF PublishedKeyIsKept
    <3>5. CASE ToolDies(t)
      <4>1. PublishedKeyIsHeld => PublishedKeyIsHeld'
        BY <3>5 DEF ToolDies, PublishedKeyIsHeld
      <4> QED BY <1>c, <3>2, <4>1
    <3> QED BY <1>11, <3>3, <3>4, <3>5
  <2> QED BY <1>11, <2>1, <2>2 DEF RollbackKey, ToolDies
<1>12. ASSUME NEW w \in IdWriters, ReadForUpdate(w) \/ UpdateFields(w) PROVE Kept
  <2>1. \A t \in IdTools : t \in IdCallers /\ t # w
    BY IdentityAssumption DEF IdCallers
  <2>2. /\ UNCHANGED <<idPending, idFile>> /\ \A x \in IdCallers : x # w => idCaller'[x] = idCaller[x]
        /\ idRow'[IdHome] = idRow[IdHome] \/ (idRow[IdHome] # NoAgent /\ idRow'[IdHome].document.key = key)
    <3>1. CASE ReadForUpdate(w)
      BY <3>1 DEF ReadForUpdate, IdInv, IdTyped
    <3>2. CASE UpdateFields(w)
      BY <3>2, IdUpdatesFields
    <3> QED BY <1>12, <3>1, <3>2
  <2>3. IdStaged'
    BY <2>1, <2>2 DEF IdStaged, IdStagedBy
  <2>4. PublishedKeyIsHeld => PublishedKeyIsHeld'
    BY <2>2 DEF PublishedKeyIsHeld
  <2> QED BY <1>c, <2>3, <2>4
<1> HIDE DEF Kept
<1>13. Kept
  BY <1>1, <1>4, <1>5, <1>6, <1>7, <1>8, <1>9, <1>10, <1>11, <1>12 DEF IdNext, Kept
<1> QED BY <1>13 DEF Kept

\* A document is only replaced by one made from it.
LEMMA IdUpdatesStep == IdInv /\ [IdNext]_idVars => UpdatesBuildOnWhatTheyReplace
<1> SUFFICES ASSUME IdInv, [IdNext]_idVars, NEW n \in IdNodes, idRow[n] # NoAgent, idRow'[n].document # idRow[n].document
             PROVE  \E c \in IdCallers : idRow'[n].document = idCaller[c].document /\ idCaller[c].read = QueryIdentity(n)
  BY DEF UpdatesBuildOnWhatTheyReplace, IdCallers
<1>0. IdHome \in IdNodes /\ idRow' # idRow
  BY IdentityAssumption
<1>1. ASSUME NEW t \in IdTools, PublishKey(t)
      PROVE  \E c \in IdCallers : idRow'[n].document = idCaller[c].document /\ idCaller[c].read = QueryIdentity(n)
  <2>1. t \in IdCallers
    BY DEF IdCallers
  <2> QED BY <1>0, <1>1, <2>1, IdPublishes
<1>2. ASSUME NEW w \in IdWriters, UpdateFields(w)
      PROVE  \E c \in IdCallers : idRow'[n].document = idCaller[c].document /\ idCaller[c].read = QueryIdentity(n)
  <2>1. w \in IdCallers
    BY DEF IdCallers
  <2> QED BY <1>0, <1>2, <2>1, IdUpdatesFields
<1>3. ASSUME NEW m \in IdNodes, NEW r, idRow' = [idRow EXCEPT ![m] = r], idRow[m] = NoAgent \/ r.document = idRow[m].document
      PROVE  FALSE
  BY <1>3 DEF IdInv, IdTyped
<1>4. ASSUME NEW m \in IdNodes, NEW d, PostIdentity(m, d) PROVE FALSE
  <2>1. idRow[m] = NoAgent /\ idRow' = [idRow EXCEPT ![m] = NewAgent(d)]
    BY <1>4 DEF PostIdentity, Register
  <2> QED BY <1>3, <2>1
<1>5. ASSUME NEW m \in idSync, FederationSync(m) PROVE FALSE
  <2>1. m.to \in IdNodes
    BY DEF IdInv, IdTyped
  <2>2. idRow[m.to] = NoAgent /\ idRow' = [idRow EXCEPT ![m.to] = NewAgent(m.document)]
    BY <1>0, <1>5 DEF FederationSync, Register
  <2> QED BY <1>3, <2>1, <2>2
<1>6. ASSUME NEW m \in IdNodes, DeleteIdentity(m) PROVE FALSE
  <2>1. idRow' = [idRow EXCEPT ![m] = [idRow[m] EXCEPT !.status = "deactivated"]]
    BY <1>6 DEF DeleteIdentity
  <2>2. idRow[m] \in IdAgentRow
    BY <1>6 DEF DeleteIdentity, IdInv, IdTyped
  <2>3. [idRow[m] EXCEPT !.status = "deactivated"].document = idRow[m].document
    BY <2>2 DEF IdAgentRow
  <2> QED BY <1>3, <2>1, <2>3
<1>7. ~UNCHANGED idVars
  BY <1>0 DEF idVars
<1>8. ASSUME NEW m \in idSync, SyncLost(m) PROVE FALSE
  BY <1>0, <1>8 DEF SyncLost
<1>9. ASSUME NEW t \in IdTools, BeginRotation(t) \/ StageKey(t) \/ CommitKey(t) \/ RollbackKey(t) \/ ToolDies(t) PROVE FALSE
  BY <1>0, <1>9 DEF BeginRotation, StageKey, CommitKey, RollbackKey, ToolDies
<1>10. ASSUME NEW w \in IdWriters, ReadForUpdate(w) PROVE FALSE
  BY <1>0, <1>10 DEF ReadForUpdate
<1> QED BY <1>1, <1>2, <1>4, <1>5, <1>6, <1>7, <1>8, <1>9, <1>10 DEF IdNext

LEMMA IdStart == IdInit => IdInv /\ IdStaged
<1> SUFFICES ASSUME IdInit PROVE IdInv /\ IdStaged
  OBVIOUS
<1>1. IdTyped
  BY IdNoDocument, IdentityAssumption DEF IdInit, IdTyped, IdCallers
<1>2. IdFresh
  BY IdNoDocument DEF IdInit, IdFresh, IdFreshCall, IdCallers
<1>3. IdFirst
  BY IdentityAssumption DEF IdInit, IdFirst
<1>4. IdStaged
  BY IdNoDocument DEF IdInit, IdStaged, IdStagedBy
<1> QED BY <1>1, <1>2, <1>3, <1>4 DEF IdInv

LEMMA IdConcludes == IdInv => IdTypeOK
<1> SUFFICES ASSUME IdInv PROVE IdTypeOK
  OBVIOUS
<1>1. \A n \in IdNodes : idRow[n] # NoAgent => idRow[n] \in IdAgentRow
  BY DEF IdInv, IdTyped
<1> QED BY <1>1 DEF IdInv, IdTyped, IdTypeOK, IdCall, IdCallers, IdAgentRow

-----------------------------------------------------------------------------
(* FederatedResolver: what is handed out and the watermark.                *)

FrFlightState(A) ==
    [pc : {"none", "fanOut", "select", "decide", "save"}, answers : A, startEpoch : 0..MaxFrEvents,
     chosen : FrDocument \cup {Nothing}, cachedVersion : FrVersions \cup {0}, watermark : FrVersions \cup {0}]
FrNodeState ==
    [health : {"HEALTHY", "DEGRADED", "UNHEALTHY"}, failures : 0..FailureThreshold,
     successes : 0..RecoveryThreshold, recent : {s \in Seq(BOOLEAN) : Len(s) <= RateWindow}]

FrTyped ==
    /\ frCache \in [document : FrDocument \cup {Nothing}, epoch : 0..MaxFrEvents]
    /\ frEvents \in 0..MaxFrEvents /\ frEpoch \in 0..frEvents
    /\ \E A : frFlight \in FrFlightState(A)
    /\ frFlight.pc = "fanOut" => DOMAIN frFlight.answers \subseteq FrNodes
                                 /\ frFlight.answers \in [DOMAIN frFlight.answers -> Answers]
    /\ frFlight.pc \in {"select", "decide", "save"} => frFlight.chosen \in FrDocument
    /\ frHealth \in [FrNodes -> FrNodeState]
    /\ frMark \in FrVersions \cup {0}
    /\ frReturned \in [document : FrDocument \cup {Nothing}, here : BOOLEAN]
    /\ frFlights \in 0..MaxFlights

\* The watermark is never ahead of the cache, nor of the document that is about to move it.
FrMarks ==
    /\ frFlight.pc = "decide" => frFlight.watermark = frMark
    /\ frFlight.pc = "save" => /\ frFlight.chosen.version >= frMark
                               /\ frCache = NoEntry \/ frCache.document = frFlight.chosen
    /\ frCache # NoEntry => frCache.document.version >= frMark

FrInv == FrTyped /\ FrMarks /\ InvalidationIsFinal

LEMMA FrVersionsAreNumbers ==
    /\ FrVersions \cup {0} \subseteq Nat
    /\ \A d \in FrDocument \cup {Nothing} : d.version \in FrVersions \cup {0} /\ d.version \in Nat
    /\ Nothing \notin FrDocument /\ Nothing.version = 0
<1>1. FrVersions \cup {0} \subseteq Nat /\ 0 \notin FrVersions
  BY FederatedAssumption
<1>2. Nothing.version = 0
  BY DEF Nothing
<1>3. \A d \in FrDocument : d.version \in FrVersions
  BY DEF FrDocument
<1>4. Nothing \notin FrDocument
  BY <1>1, <1>2, <1>3
<1> QED BY <1>1, <1>2, <1>3, <1>4

LEMMA FrSlides ==
    ASSUME NEW s \in Seq(BOOLEAN), Len(s) <= RateWindow, NEW b \in BOOLEAN
    PROVE  Slide(s, b) \in Seq(BOOLEAN) /\ Len(Slide(s, b)) <= RateWindow
<1>1. RateWindow \in Nat /\ RateWindow >= 1 /\ Len(s) \in Nat
  BY FederatedAssumption DEF ValidConfig
<1>2. CASE Len(s) < RateWindow
  BY <1>1, <1>2 DEF Slide
<1>3. CASE ~(Len(s) < RateWindow)
  <2>1. s # <<>> /\ Len(s) = RateWindow
    BY <1>1, <1>3
  <2>2. Tail(s) \in Seq(BOOLEAN) /\ Len(Tail(s)) = Len(s) - 1
    BY <2>1
  <2>3. Slide(s, b) = Append(Tail(s), b)
    BY <1>3 DEF Slide
  <2>4. Append(Tail(s), b) \in Seq(BOOLEAN) /\ Len(Append(Tail(s), b)) = Len(Tail(s)) + 1
    BY <2>2
  <2> QED BY <1>1, <2>1, <2>2, <2>3, <2>4
<1> QED BY <1>2, <1>3

LEMMA FrCaps ==
    ASSUME NEW m \in Nat, NEW k \in 0..m
    PROVE  Capped(k + 1, m) \in 0..m
BY DEF Capped

LEMMA FrBuilt ==
    ASSUME NEW a \in {"HEALTHY", "DEGRADED", "UNHEALTHY"}, NEW f \in 0..FailureThreshold,
           NEW k \in 0..RecoveryThreshold, NEW r \in Seq(BOOLEAN), Len(r) <= RateWindow
    PROVE  [health |-> a, failures |-> f, successes |-> k, recent |-> r] \in FrNodeState
BY DEF FrNodeState

LEMMA FrHealthTyped ==
    ASSUME NEW h \in FrNodeState, NEW b \in BOOLEAN
    PROVE  AfterSuccess(h) \in FrNodeState /\ AfterFailure(h, b) \in FrNodeState
           /\ DrivePassiveHealth(h, b) \in FrNodeState
<1>1. /\ h.health \in {"HEALTHY", "DEGRADED", "UNHEALTHY"} /\ h.failures \in 0..FailureThreshold
      /\ h.successes \in 0..RecoveryThreshold /\ h.recent \in Seq(BOOLEAN) /\ Len(h.recent) <= RateWindow
  BY DEF FrNodeState
<1>2. FailureThreshold \in Nat /\ RecoveryThreshold \in Nat
  BY FederatedAssumption DEF ValidConfig
<1>3. \A c \in BOOLEAN : Slide(h.recent, c) \in Seq(BOOLEAN) /\ Len(Slide(h.recent, c)) <= RateWindow
  BY <1>1, FrSlides
<1>4. Capped(h.successes + 1, RecoveryThreshold) \in 0..RecoveryThreshold /\ Capped(h.failures + 1, FailureThreshold) \in 0..FailureThreshold
  BY <1>1, <1>2, FrCaps
<1>5. 0 \in 0..FailureThreshold /\ 0 \in 0..RecoveryThreshold
  BY <1>2
<1>6. AfterSuccess(h) \in FrNodeState
  <2>1. AfterSuccess(h).health \in {"HEALTHY", "DEGRADED", "UNHEALTHY"}
    <3> DEFINE recent == Slide(h.recent, TRUE)
               successes == Capped(h.successes + 1, RecoveryThreshold)
               full == h.health = "DEGRADED" /\ Len(recent) >= RateWindow /\ 10 * FailuresIn(recent) < Len(recent)
    <3>1. AfterSuccess(h).health = CASE h.health = "UNHEALTHY" /\ successes >= RecoveryThreshold -> "HEALTHY"
                                     [] full -> "HEALTHY" [] OTHER -> h.health
      BY DEF AfterSuccess
    <3> HIDE DEF successes, full
    <3> QED BY <1>1, <3>1
  <2>2. AfterSuccess(h) = [health |-> AfterSuccess(h).health, failures |-> 0,
                           successes |-> Capped(h.successes + 1, RecoveryThreshold), recent |-> Slide(h.recent, TRUE)]
    BY DEF AfterSuccess
  <2> PICK a : a = AfterSuccess(h).health
    OBVIOUS
  <2> QED BY <1>3, <1>4, <1>5, <2>1, <2>2, FrBuilt
<1>7. \A c \in BOOLEAN : AfterFailure(h, c) \in FrNodeState
  <2> TAKE c \in BOOLEAN
  <2>1. AfterFailure(h, c).health \in {"HEALTHY", "DEGRADED", "UNHEALTHY"}
    <3> DEFINE recent == Slide(h.recent, FALSE)
               failures == Capped(h.failures + 1, FailureThreshold)
               some == failures < FailureThreshold /\ h.health = "HEALTHY"
                       /\ (c \/ Len(recent) < RateWindow \/ 5 * FailuresIn(recent) >= Len(recent))
    <3>1. AfterFailure(h, c).health = CASE failures >= FailureThreshold -> "UNHEALTHY"
                                        [] some -> "DEGRADED" [] OTHER -> h.health
      BY DEF AfterFailure
    <3> HIDE DEF failures, some
    <3> QED BY <1>1, <3>1
  <2>2. AfterFailure(h, c) = [health |-> AfterFailure(h, c).health, failures |-> Capped(h.failures + 1, FailureThreshold),
                              successes |-> 0, recent |-> Slide(h.recent, FALSE)]
    BY DEF AfterFailure
  <2> PICK a : a = AfterFailure(h, c).health
    OBVIOUS
  <2>3. FALSE \in BOOLEAN
    OBVIOUS
  <2>4. [health |-> a, failures |-> Capped(h.failures + 1, FailureThreshold), successes |-> 0,
         recent |-> Slide(h.recent, FALSE)] \in FrNodeState
    BY <1>3, <1>4, <1>5, <2>1, FrBuilt
  <2> QED BY <2>2, <2>4
<1> QED BY <1>6, <1>7 DEF DrivePassiveHealth

\* The quorum picks one of the documents that were served.
LEMMA FrAgrees ==
    ASSUME NEW candidates, \A n \in DOMAIN candidates : candidates[n] \in FrDocument, NEW v
    PROVE  Agreed(candidates, v) \in FrDocument \cup {Nothing}
<1> DEFINE documents == {candidates[n] : n \in Serving(candidates, v)}
<1>1. documents \subseteq FrDocument
  BY DEF Serving
<1>2. Cardinality(documents) = 1 => documents # {}
  BY FS_EmptySet
<1>3. Agreed(candidates, v) = IF Cardinality(documents) = 1 THEN CHOOSE d \in documents : TRUE ELSE Nothing
  BY DEF Agreed
<1> HIDE DEF documents
<1> QED BY <1>1, <1>2, <1>3

LEMMA FrSelects ==
    ASSUME NEW candidates, \A n \in DOMAIN candidates : candidates[n] \in FrDocument, NEW k
    PROVE  SelectByQuorum(candidates, k) \in FrDocument \cup {Nothing}
<1>1. \A v : Agreed(candidates, v) \in FrDocument \cup {Nothing}
  BY FrAgrees
<1> DEFINE threshold == ComputeQuorumThreshold(Cardinality(DOMAIN candidates))
           qualified == {v \in {candidates[n].version : n \in DOMAIN candidates} :
                            Cardinality(Serving(candidates, v)) >= threshold}
<1>2. SelectByQuorum(candidates, k) =
         CASE k < 3 -> Agreed(candidates, Highest({candidates[n].version : n \in DOMAIN candidates}))
           [] k >= 3 /\ qualified = {} -> Nothing
           [] OTHER -> Agreed(candidates, Highest(qualified))
  BY DEF SelectByQuorum, SelectHighestVersionFallback
<1> HIDE DEF qualified
<1> QED BY <1>1, <1>2, Zenon

LEMMA FrFlightFacts ==
    ASSUME FrTyped
    PROVE  /\ frFlight.startEpoch \in 0..MaxFrEvents /\ frFlight.chosen \in FrDocument \cup {Nothing}
           /\ frFlight.pc \in {"none", "fanOut", "select", "decide", "save"}
           /\ frFlight.cachedVersion \in FrVersions \cup {0} /\ frFlight.watermark \in FrVersions \cup {0}
           /\ frCache.document \in FrDocument \cup {Nothing} /\ frCache.epoch \in 0..MaxFrEvents
           /\ frReturned.document \in FrDocument \cup {Nothing} /\ frReturned.here \in BOOLEAN
<1>1. PICK A : frFlight \in FrFlightState(A)
  BY DEF FrTyped
<1>2. frCache \in [document : FrDocument \cup {Nothing}, epoch : 0..MaxFrEvents]
  BY DEF FrTyped
<1>3. frReturned \in [document : FrDocument \cup {Nothing}, here : BOOLEAN]
  BY DEF FrTyped
<1>4. frCache.document \in FrDocument \cup {Nothing} /\ frCache.epoch \in 0..MaxFrEvents
  BY <1>2
<1>5. frReturned.document \in FrDocument \cup {Nothing} /\ frReturned.here \in BOOLEAN
  BY <1>3
<1> QED BY <1>1, <1>4, <1>5 DEF FrFlightState

LEMMA FrNoFlight == NoFlight \in FrFlightState({<<>>}) /\ NoFlight.pc = "none"
BY FederatedAssumption DEF NoFlight, FrFlightState

LEMMA FrMoved ==
    ASSUME NEW A, NEW f \in FrFlightState(A), NEW p \in {"none", "fanOut", "select", "decide", "save"}
    PROVE  [f EXCEPT !.pc = p] \in FrFlightState(A)
BY DEF FrFlightState

LEMMA FrStarted ==
    ASSUME FrTyped, StartResolve
    PROVE  /\ \E A : frFlight' \in FrFlightState(A)
           /\ frFlight'.pc = "fanOut" /\ DOMAIN frFlight'.answers \subseteq FrNodes
           /\ frFlight'.answers \in [DOMAIN frFlight'.answers -> Answers]
<1> DEFINE asked == [n \in Targets |-> [kind |-> "pending", document |-> Nothing]]
<1>1. frFlight' = [NoFlight EXCEPT !.pc = "fanOut", !.startEpoch = frEpoch, !.answers = asked]
  BY DEF StartResolve
<1>2. asked \in [Targets -> Answers] /\ DOMAIN asked = Targets /\ Targets \subseteq FrNodes
  BY DEF Answers, Targets
<1>3. frEpoch \in 0..MaxFrEvents
  BY FederatedAssumption DEF FrTyped
<1> HIDE DEF asked
<1>4. frFlight' \in FrFlightState({asked}) /\ frFlight'.answers = asked /\ frFlight'.pc = "fanOut"
  BY <1>1, <1>3, FederatedAssumption DEF NoFlight, FrFlightState
<1> QED BY <1>2, <1>4

LEMMA FrAsked ==
    ASSUME FrTyped, NEW n \in FrNodes, NEW a \in Answers, QueryNode(n, a)
    PROVE  /\ \E A : frFlight' \in FrFlightState(A)
           /\ frFlight'.pc = "fanOut" /\ DOMAIN frFlight'.answers \subseteq FrNodes
           /\ frFlight'.answers \in [DOMAIN frFlight'.answers -> Answers]
           /\ frHealth' \in [FrNodes -> FrNodeState]
<1> DEFINE answers == [frFlight.answers EXCEPT ![n] = a]
<1>1. PICK A : frFlight \in FrFlightState(A)
  BY DEF FrTyped
<1>2. /\ frFlight.pc = "fanOut" /\ DOMAIN frFlight.answers \subseteq FrNodes
      /\ frFlight.answers \in [DOMAIN frFlight.answers -> Answers]
  BY DEF FrTyped, QueryNode
<1>3. answers \in [DOMAIN frFlight.answers -> Answers] /\ DOMAIN answers = DOMAIN frFlight.answers
  BY <1>2
<1>4. frFlight' = [frFlight EXCEPT !.answers = answers]
  BY <1>1 DEF QueryNode, FrFlightState
<1> HIDE DEF answers
<1>5. frFlight' \in FrFlightState({answers}) /\ frFlight'.answers = answers /\ frFlight'.pc = "fanOut"
  BY <1>1, <1>2, <1>4 DEF FrFlightState
<1>6. frHealth \in [FrNodes -> FrNodeState] /\ (a.kind # "error") \in BOOLEAN
  BY DEF FrTyped
<1>7. DrivePassiveHealth(frHealth[n], a.kind # "error") \in FrNodeState
  BY <1>6, FrHealthTyped
<1>8. frHealth' = [frHealth EXCEPT ![n] = DrivePassiveHealth(frHealth[n], a.kind # "error")]
  BY DEF QueryNode
<1>9. frHealth' \in [FrNodes -> FrNodeState]
  BY <1>6, <1>7, <1>8
<1> QED BY <1>2, <1>3, <1>5, <1>9

LEMMA FrSettled ==
    ASSUME FrTyped, NEW heard \in SUBSET FrNodes, EndFanOut(heard)
    PROVE  /\ \E A : frFlight' \in FrFlightState(A)
           /\ frFlight'.pc = "none" \/ (frFlight'.pc = "select" /\ frFlight'.chosen \in FrDocument)
           /\ frHealth' \in [FrNodes -> FrNodeState]
<1> DEFINE answers == frFlight.answers
           Kind(k) == {n \in heard : answers[n].kind = k}
           candidates == [n \in Kind("doc") |-> answers[n].document]
           pending == {n \in DOMAIN answers : answers[n].kind = "pending"}
           null == \/ Kind("doc") = {} /\ heard = Kind("not_found") /\ Cardinality(heard) >= MinResponses
                   \/ Cardinality(Kind("doc")) < MinResponses
           chosen == IF null THEN Nothing ELSE SelectByQuorum(candidates, Cardinality(DOMAIN answers))
<1>1. /\ frFlight.pc = "fanOut" /\ heard \subseteq DOMAIN answers
      /\ frHealth' = [n \in FrNodes |-> IF n \in pending THEN DrivePassiveHealth(frHealth[n], FALSE)
                                         ELSE frHealth[n]]
      /\ frFlight' = IF chosen = Nothing THEN NoFlight
                     ELSE [frFlight EXCEPT !.pc = "select", !.answers = <<>>, !.chosen = chosen,
                                           !.cachedVersion = frCache.document.version]
  BY DEF EndFanOut
<1>2. answers \in [DOMAIN answers -> Answers]
  BY <1>1 DEF FrTyped
<1>3. \A x \in Answers : x.kind = "doc" => x.document \in FrDocument
  BY DEF Answers, ResolutionCandidate
<1>4. \A n \in DOMAIN candidates : candidates[n] \in FrDocument
  BY <1>1, <1>2, <1>3
<1>5. SelectByQuorum(candidates, Cardinality(DOMAIN answers)) \in FrDocument \cup {Nothing}
  <2> HIDE DEF candidates
  <2> QED BY <1>4, FrSelects
<1>6. chosen \in FrDocument \cup {Nothing}
  <2> HIDE DEF null, candidates, answers
  <2> QED BY <1>5
<1>7. frHealth' \in [FrNodes -> FrNodeState]
  <2>1. frHealth \in [FrNodes -> FrNodeState]
    BY DEF FrTyped
  <2>2. \A n \in FrNodes : DrivePassiveHealth(frHealth[n], FALSE) \in FrNodeState
    BY <2>1, FrHealthTyped
  <2> HIDE DEF pending
  <2> QED BY <1>1, <2>1, <2>2
<1> HIDE DEF chosen
<1>8. CASE chosen = Nothing
  BY <1>1, <1>7, <1>8, FrNoFlight
<1>9. CASE chosen # Nothing
  <2>1. PICK A : frFlight \in FrFlightState(A)
    BY DEF FrTyped
  <2>2. frCache.document.version \in FrVersions \cup {0}
    BY FrFlightFacts, FrVersionsAreNumbers
  <2> PICK v : v = frCache.document.version
    OBVIOUS
  <2>3. frFlight' = [frFlight EXCEPT !.pc = "select", !.answers = <<>>, !.chosen = chosen, !.cachedVersion = v]
    BY <1>1, <1>9
  <2>4. frFlight' \in FrFlightState({<<>>}) /\ frFlight'.pc = "select" /\ frFlight'.chosen = chosen
    BY <2>1, <2>2, <2>3, <1>6 DEF FrFlightState
  <2> QED BY <1>6, <1>7, <1>9, <2>4
<1> QED BY <1>8, <1>9

\* Versions of what is cached, chosen, marked and handed out are numbers.
LEMMA FrNumbers ==
    ASSUME FrTyped
    PROVE  /\ frCache.document.version \in Nat /\ frFlight.chosen.version \in Nat /\ frMark \in Nat
           /\ frReturned.document.version \in Nat /\ frFlight.watermark \in Nat /\ frEpoch \in Nat
           /\ frEvents \in Nat /\ frEpoch <= frEvents /\ frEvents <= MaxFrEvents /\ MaxFrEvents \in Nat
<1>1. frMark \in FrVersions \cup {0} /\ frEvents \in 0..MaxFrEvents /\ frEpoch \in 0..frEvents
  BY DEF FrTyped
<1>2. MaxFrEvents \in Nat
  BY FederatedAssumption
<1> QED BY <1>1, <1>2, FrFlightFacts, FrVersionsAreNumbers

\* No step but these changes what the marks are about.
LEMMA FrOthers ==
    ASSUME FrInv, UNCHANGED <<frCache, frEpoch, frMark, frReturned>>,
           frFlight.pc # "save", frFlight'.pc \notin {"decide", "save"}
    PROVE  FrMarks' /\ InvalidationIsFinal'
BY DEF FrInv, FrMarks, InvalidationIsFinal

LEMMA FrTypedLookups ==
    ASSUME FrInv, NEW n \in FrNodes,
           StartResolve \/ \E a \in Answers : QueryNode(n, a)
    PROVE  FrInv'
<1>1. UNCHANGED <<frCache, frEpoch, frMark, frReturned, frEvents>> /\ frFlight.pc # "save"
  BY DEF StartResolve, QueryNode, NoFlight
<1>2. /\ \E A : frFlight' \in FrFlightState(A)
      /\ frFlight'.pc = "fanOut" /\ DOMAIN frFlight'.answers \subseteq FrNodes
      /\ frFlight'.answers \in [DOMAIN frFlight'.answers -> Answers]
  BY FrStarted, FrAsked DEF FrInv
<1>3. frHealth' \in [FrNodes -> FrNodeState]
  BY FrAsked DEF FrInv, FrTyped, StartResolve
<1>4. frFlights' \in 0..MaxFlights
  BY FederatedAssumption DEF FrInv, FrTyped, StartResolve, QueryNode
<1>5. FrTyped'
  BY <1>1, <1>2, <1>3, <1>4 DEF FrInv, FrTyped
<1> QED BY <1>1, <1>2, <1>5, FrOthers DEF FrInv

LEMMA FrTypedEnd ==
    ASSUME FrInv, NEW heard \in SUBSET FrNodes, EndFanOut(heard)
    PROVE  FrInv'
<1>1. UNCHANGED <<frCache, frEpoch, frMark, frReturned, frEvents, frFlights>> /\ frFlight.pc # "save"
  BY DEF EndFanOut
<1>2. /\ \E A : frFlight' \in FrFlightState(A)
      /\ frFlight'.pc = "none" \/ (frFlight'.pc = "select" /\ frFlight'.chosen \in FrDocument)
      /\ frHealth' \in [FrNodes -> FrNodeState]
  BY FrSettled DEF FrInv
<1>3. FrTyped'
  BY <1>1, <1>2 DEF FrInv, FrTyped
<1> QED BY <1>1, <1>2, <1>3, FrOthers DEF FrInv

LEMMA FrTypedMark ==
    ASSUME FrInv, GetWatermark
    PROVE  FrInv'
<1>1. PICK A : frFlight \in FrFlightState(A)
  BY DEF FrInv, FrTyped
<1>2. frMark \in FrVersions \cup {0} /\ frFlight.chosen \in FrDocument
  BY DEF FrInv, FrTyped, GetWatermark
<1>3. UNCHANGED <<frCache, frEpoch, frMark, frReturned, frEvents, frFlights, frHealth>> /\ frFlight.pc = "select"
  BY DEF GetWatermark
<1>4. CASE frFlight' = [frFlight EXCEPT !.pc = "decide", !.watermark = frMark]
  <2>1. /\ frFlight' \in FrFlightState(A) /\ frFlight'.pc = "decide" /\ frFlight'.watermark = frMark
        /\ frFlight'.chosen = frFlight.chosen
    BY <1>1, <1>2, <1>4 DEF FrFlightState
  <2>2. FrTyped'
    BY <1>2, <1>3, <2>1 DEF FrInv, FrTyped
  <2>3. FrMarks' /\ InvalidationIsFinal'
    BY <1>3, <2>1 DEF FrInv, FrMarks, InvalidationIsFinal
  <2> QED BY <2>2, <2>3 DEF FrInv
<1>5. CASE frFlight' = NoFlight
  <2>1. FrTyped'
    BY <1>3, <1>5, FrNoFlight DEF FrInv, FrTyped
  <2> QED BY <1>3, <1>5, <2>1, FrNoFlight, FrOthers DEF FrInv
<1> QED BY <1>4, <1>5 DEF GetWatermark

LEMMA FrTypedDecide ==
    ASSUME FrInv, Decide
    PROVE  FrInv'
<1>1. PICK A : frFlight \in FrFlightState(A)
  BY DEF FrInv, FrTyped
<1>2. frFlight.pc = "decide" /\ frFlight.chosen \in FrDocument /\ frFlight.watermark = frMark
  BY DEF FrInv, FrTyped, FrMarks, Decide
<1>3. UNCHANGED <<frEpoch, frMark, frReturned, frEvents, frFlights, frHealth>>
  BY DEF Decide
<1>4. CASE frFlight' = NoFlight /\ UNCHANGED frCache
  <2>1. FrTyped'
    BY <1>3, <1>4, FrNoFlight DEF FrInv, FrTyped
  <2> QED BY <1>2, <1>3, <1>4, <2>1, FrNoFlight, FrOthers DEF FrInv
<1>5. CASE /\ ~IsRollback(frFlight) /\ ~EpochMoved(frFlight)
           /\ frCache' = [document |-> frFlight.chosen, epoch |-> frFlight.startEpoch]
           /\ frFlight' = [frFlight EXCEPT !.pc = "save"]
  <2>1. frFlight' \in FrFlightState(A) /\ frFlight'.pc = "save" /\ frFlight'.chosen = frFlight.chosen
    BY <1>1, <1>5 DEF FrFlightState
  <2>2. frFlight.startEpoch \in 0..MaxFrEvents
    BY FrFlightFacts DEF FrInv
  <2>3. frCache' \in [document : FrDocument \cup {Nothing}, epoch : 0..MaxFrEvents]
    BY <1>2, <1>5, <2>2
  <2>4. FrTyped'
    BY <1>2, <1>3, <2>1, <2>3 DEF FrInv, FrTyped
  <2>5. frCache'.epoch = frEpoch' /\ frCache'.document = frFlight'.chosen
    BY <1>3, <1>5, <2>1 DEF EpochMoved
  <2>6. frMark <= frFlight.chosen.version
    BY <1>2, <1>5, FrNumbers DEF IsRollback, FrInv
  <2>7. frFlight'.chosen.version >= frMark'
    BY <1>3, <2>1, <2>6, FrNumbers DEF FrInv
  <2>8. FrMarks'
    BY <2>1, <2>5, <2>7 DEF FrMarks
  <2> QED BY <2>4, <2>5, <2>8 DEF FrInv, InvalidationIsFinal
<1> QED BY <1>4, <1>5 DEF Decide

LEMMA FrTypedSave ==
    ASSUME FrInv, SetWatermark
    PROVE  FrInv' /\ NeverBehindTheWatermark
<1>1. frFlight.pc = "save" /\ frFlight.chosen \in FrDocument /\ frFlight.chosen.version >= frMark
  BY DEF FrInv, FrTyped, FrMarks, SetWatermark
<1>2. frFlight.chosen.version \in FrVersions
  BY <1>1 DEF FrDocument
<1>3. UNCHANGED <<frCache, frEpoch, frHealth, frFlights, frEvents>> /\ frFlight' = NoFlight
  BY DEF SetWatermark
<1>4. frMark' \in {frMark, frFlight.chosen.version}
  BY DEF SetWatermark
<1>5. \/ frReturned' = frReturned
      \/ frReturned' = [document |-> frFlight.chosen, here |-> TRUE]
  BY DEF SetWatermark, Return
<1>6. FrTyped'
  <2>1. frMark' \in FrVersions \cup {0}
    BY <1>2, <1>4 DEF FrInv, FrTyped
  <2>2. frReturned' \in [document : FrDocument \cup {Nothing}, here : BOOLEAN]
    <3>1. frReturned \in [document : FrDocument \cup {Nothing}, here : BOOLEAN]
      BY DEF FrInv, FrTyped
    <3>2. [document |-> frFlight.chosen, here |-> TRUE] \in [document : FrDocument \cup {Nothing}, here : BOOLEAN]
      BY <1>1
    <3> QED BY <1>5, <3>1, <3>2
  <2> QED BY <1>3, <2>1, <2>2, FrNoFlight DEF FrInv, FrTyped
<1>7. frFlight.chosen.version >= frMark'
  BY <1>1, <1>4, FrNumbers DEF FrInv
<1>8. frCache = NoEntry \/ frCache.document = frFlight.chosen
  BY <1>1 DEF FrInv, FrMarks
<1>9. FrMarks'
  BY <1>3, <1>7, <1>8, FrNoFlight DEF FrMarks
<1>10. NeverBehindTheWatermark
  BY <1>5, <1>7 DEF NeverBehindTheWatermark
<1> QED BY <1>3, <1>6, <1>9, <1>10 DEF FrInv, InvalidationIsFinal

LEMMA FrTypedCached ==
    ASSUME FrInv, ResolveFromCache
    PROVE  FrInv' /\ NeverBehindTheWatermark
<1>1. frReturned' = [document |-> frCache.document, here |-> TRUE] /\ frCache # NoEntry
  BY DEF ResolveFromCache, Return
<1>2. UNCHANGED <<frCache, frEpoch, frFlight, frHealth, frMark, frFlights, frEvents>>
  BY DEF ResolveFromCache
<1>3. frCache.document \in FrDocument \cup {Nothing}
  BY FrFlightFacts DEF FrInv
<1>4. FrTyped'
  BY <1>1, <1>2, <1>3 DEF FrInv, FrTyped
<1>5. FrMarks'
  BY <1>2 DEF FrInv, FrMarks
<1>6. NeverBehindTheWatermark
  BY <1>1, <1>2 DEF FrInv, FrMarks, NeverBehindTheWatermark
<1> QED BY <1>2, <1>4, <1>5, <1>6 DEF FrInv, InvalidationIsFinal

LEMMA FrTypedProbe ==
    ASSUME FrInv, NEW n \in FrNodes, NEW ok \in BOOLEAN, ProbeNode(n, ok)
    PROVE  FrInv'
<1> DEFINE after == IF ok THEN AfterSuccess(frHealth[n]) ELSE AfterFailure(frHealth[n], TRUE)
<1>1. frHealth' = [frHealth EXCEPT ![n] = after]
  BY DEF ProbeNode
<1>2. frHealth \in [FrNodes -> FrNodeState]
  BY DEF FrInv, FrTyped
<1>3. after \in FrNodeState
  BY <1>2, FrHealthTyped
<1> HIDE DEF after
<1>4. frHealth' \in [FrNodes -> FrNodeState]
  BY <1>1, <1>2, <1>3
<1>5. UNCHANGED <<frCache, frEpoch, frFlight, frMark, frReturned, frFlights>>
  BY DEF ProbeNode
<1>6. frEvents' = frEvents + 1 /\ frEvents < MaxFrEvents
  BY DEF ProbeNode, FrEvent
<1>7. frEvents' \in 0..MaxFrEvents /\ frEpoch' \in 0..frEvents'
  BY <1>5, <1>6, FrNumbers DEF FrInv
<1>8. FrTyped'
  BY <1>4, <1>5, <1>7 DEF FrInv, FrTyped
<1>9. FrMarks' /\ InvalidationIsFinal'
  BY <1>5 DEF FrInv, FrMarks, InvalidationIsFinal
<1> QED BY <1>8, <1>9 DEF FrInv

LEMMA FrTypedDrop ==
    ASSUME FrInv, InvalidateCache \/ CacheExpires
    PROVE  FrInv'
<1>1. frCache' = NoEntry /\ UNCHANGED <<frFlight, frHealth, frMark, frReturned, frFlights>>
  BY DEF InvalidateCache, CacheExpires
<1>2. frEvents' = frEvents + 1 /\ frEvents < MaxFrEvents
  BY DEF InvalidateCache, CacheExpires, FrEvent
<1>3. frEpoch' = frEpoch \/ frEpoch' = frEpoch + 1
  BY DEF InvalidateCache, CacheExpires
<1>4. frEvents' \in 0..MaxFrEvents /\ frEpoch' \in 0..frEvents'
  BY <1>2, <1>3, FrNumbers DEF FrInv
<1>5. NoEntry \in [document : FrDocument \cup {Nothing}, epoch : 0..MaxFrEvents]
  BY FederatedAssumption DEF NoEntry
<1>6. FrTyped'
  BY <1>1, <1>4, <1>5 DEF FrInv, FrTyped
<1>7. FrMarks' /\ InvalidationIsFinal'
  BY <1>1 DEF FrInv, FrMarks, InvalidationIsFinal
<1> QED BY <1>6, <1>7 DEF FrInv

LEMMA FrNewNodes == [n \in FrNodes |-> NewNode] \in [FrNodes -> FrNodeState]
<1>1. 0 \in 0..FailureThreshold /\ 0 \in 0..RecoveryThreshold
  BY FederatedAssumption DEF ValidConfig
<1>2. <<>> \in Seq(BOOLEAN) /\ Len(<<>>) <= RateWindow
  BY FederatedAssumption DEF ValidConfig
<1>3. NewNode \in FrNodeState
  BY <1>1, <1>2, FrBuilt DEF NewNode
<1> QED BY <1>3

LEMMA FrTypedRestart ==
    ASSUME FrInv, RestartResolver
    PROVE  FrInv'
<1>1. /\ frCache' = NoEntry /\ frEpoch' = 0 /\ frFlight' = NoFlight
      /\ frHealth' = [n \in FrNodes |-> NewNode] /\ UNCHANGED <<frMark, frFlights>>
      /\ frReturned' = [frReturned EXCEPT !.here = FALSE]
  BY DEF RestartResolver
<1>2. frEvents' = frEvents + 1 /\ frEvents < MaxFrEvents
  BY DEF RestartResolver, FrEvent
<1>3. frEvents' \in 0..MaxFrEvents /\ frEpoch' \in 0..frEvents'
  BY <1>1, <1>2, FrNumbers DEF FrInv
<1>4. NoEntry \in [document : FrDocument \cup {Nothing}, epoch : 0..MaxFrEvents]
  BY FederatedAssumption DEF NoEntry
<1>5. frReturned' \in [document : FrDocument \cup {Nothing}, here : BOOLEAN] /\ frReturned'.here = FALSE
  BY <1>1 DEF FrInv, FrTyped
<1>6. FrTyped'
  BY <1>1, <1>3, <1>4, <1>5, FrNoFlight, FrNewNodes DEF FrInv, FrTyped
<1>7. FrMarks' /\ InvalidationIsFinal'
  BY <1>1, <1>5, FrNoFlight DEF FrMarks, InvalidationIsFinal
<1> QED BY <1>6, <1>7 DEF FrInv

LEMMA FrStep ==
    ASSUME FrInv, [FrNext]_frVars
    PROVE  FrInv'
<1>1. CASE UNCHANGED frVars
  BY <1>1 DEF frVars, FrInv, FrTyped, FrMarks, InvalidationIsFinal
<1>2. FrNodes # {}
  BY FederatedAssumption, FS_EmptySet DEF ValidConfig
<1>3. CASE StartResolve
  BY <1>2, <1>3, FrTypedLookups
<1>4. CASE \E n \in FrNodes : \E a \in Answers : QueryNode(n, a)
  BY <1>4, FrTypedLookups
<1>5. CASE \E n \in FrNodes : \E ok \in BOOLEAN : ProbeNode(n, ok)
  BY <1>5, FrTypedProbe
<1>6. CASE \E heard \in SUBSET FrNodes : EndFanOut(heard)
  BY <1>6, FrTypedEnd
<1>7. CASE ResolveFromCache \/ GetWatermark \/ Decide \/ SetWatermark
  BY <1>7, FrTypedCached, FrTypedMark, FrTypedDecide, FrTypedSave
<1>8. CASE InvalidateCache \/ CacheExpires \/ RestartResolver
  BY <1>8, FrTypedDrop, FrTypedRestart
<1> QED BY <1>1, <1>3, <1>4, <1>5, <1>6, <1>7, <1>8, Zenon DEF FrNext

LEMMA FrReturnsStep ==
    ASSUME FrInv, [FrNext]_frVars
    PROVE  NeverBehindTheWatermark
<1>1. ASSUME UNCHANGED frReturned PROVE NeverBehindTheWatermark
  BY <1>1 DEF NeverBehindTheWatermark
<1>2. CASE ResolveFromCache \/ SetWatermark
  BY <1>2, FrTypedCached, FrTypedSave
<1>3. CASE RestartResolver
  <2>1. frReturned'.here = FALSE
    BY <1>3 DEF RestartResolver, FrInv, FrTyped
  <2> QED BY <2>1 DEF NeverBehindTheWatermark
<1>4. CASE UNCHANGED frVars \/ StartResolve \/ GetWatermark \/ Decide \/ InvalidateCache \/ CacheExpires
  BY <1>1, <1>4 DEF frVars, StartResolve, GetWatermark, Decide, InvalidateCache, CacheExpires
<1>5. CASE \E n \in FrNodes : \E a \in Answers : QueryNode(n, a)
  BY <1>1, <1>5 DEF QueryNode
<1>6. CASE \E n \in FrNodes : \E ok \in BOOLEAN : ProbeNode(n, ok)
  BY <1>1, <1>6 DEF ProbeNode
<1>7. CASE \E heard \in SUBSET FrNodes : EndFanOut(heard)
  BY <1>1, <1>7 DEF EndFanOut
<1> QED BY <1>2, <1>3, <1>4, <1>5, <1>6, <1>7, Zenon DEF FrNext

LEMMA FrStart ==
    ASSUME FrInit
    PROVE  FrInv
<1>1. NoEntry \in [document : FrDocument \cup {Nothing}, epoch : 0..MaxFrEvents]
  BY FederatedAssumption DEF NoEntry
<1>2. [document |-> Nothing, here |-> FALSE] \in [document : FrDocument \cup {Nothing}, here : BOOLEAN]
  OBVIOUS
<1>3. 0 \in 0..MaxFrEvents /\ 0 \in 0..MaxFlights /\ 0 \in 0..0
  BY FederatedAssumption
<1>4. FrTyped
  BY <1>1, <1>2, <1>3, FrNoFlight, FrNewNodes DEF FrInit, FrTyped
<1>5. FrMarks /\ InvalidationIsFinal
  BY FrNoFlight DEF FrInit, FrMarks, InvalidationIsFinal
<1> QED BY <1>4, <1>5 DEF FrInv

LEMMA FrConcludes ==
    ASSUME FrInv
    PROVE  FrTypeOK /\ InvalidationIsFinal
<1>1. \A h \in FrNodeState :
         /\ h.health \in {"HEALTHY", "DEGRADED", "UNHEALTHY"} /\ h.failures \in 0..FailureThreshold
         /\ h.successes \in 0..RecoveryThreshold /\ Len(h.recent) <= RateWindow
  BY DEF FrNodeState
<1>2. \A n \in FrNodes : frHealth[n] \in FrNodeState
  BY DEF FrInv, FrTyped
<1>3. frEpoch \in 0..MaxFrEvents
  BY FrNumbers DEF FrInv
<1>4. FrTypeOK
  BY <1>1, <1>2, <1>3, FrFlightFacts DEF FrTypeOK, FrInv, FrTyped
<1> QED BY <1>4 DEF FrInv

-----------------------------------------------------------------------------
(* Revocation: how long a revoked token is reported valid.                 *)

\* Until a token is revoked a check may find it valid now; afterwards no later than the commit.
RevHorizon(t) == IF revokedAt[t] >= 0 THEN revokedAt[t] ELSE revNow

RevListed == {t \in RevTokens : revRows[t] # 0}

\* What a cache entry e may say of a token with horizon h and row `row'.
RevEntryOK(e, h, row, slack) == /\ ~e.revoked => e.expiresAt <= h + slack
                                /\ e.revoked => row # 0

RevCallOK(q, now, h, row, n) ==
    /\ q.pc # "idle" => q.at <= now /\ now <= q.at + Latency
    /\ q.pc = "read" /\ ~q.value => q.at <= h
    /\ q.pc = "answered" /\ ~q.value => q.at <= h + (Latency + ApiTtl)
    /\ q.pc \in {"read", "answered"} /\ q.value => row # 0
    /\ q.pc \in {"written", "duplicate"} => row # 0
    /\ q.pc \in {"dup", "insert", "commit"} => 1 <= q.version /\ q.version <= n + 1
    /\ q.pc = "commit" => q.version = n + 1 /\ row = 0

SdkSlack == ApiTtl + SdkTtl + 2 * Latency

RevTimes ==
    \A t \in RevTokens :
        /\ revokedAt[t] <= revNow
        /\ revRows[t] # 0 <=> revokedAt[t] >= 0
        /\ lastFalse[t] <= RevHorizon(t) + SdkSlack

RevEntries ==
    \A t \in RevTokens :
        /\ RevEntryOK(apiCache[t], RevHorizon(t), revRows[t], Latency + ApiTtl)
        /\ \A c \in RevClients : RevEntryOK(sdkCache[c][t], RevHorizon(t), revRows[t], SdkSlack)

RevCalls ==
    /\ \A c \in RevClients : RevCallOK(revCall[c], revNow, RevHorizon(revCall[c].token),
                                       revRows[revCall[c].token], Cardinality(RevListed))
    /\ \A c, d \in RevClients : revCall[c].pc = "commit" /\ revCall[d].pc = "commit" => c = d

RevList == {revRows[t] : t \in RevListed} = 1..Cardinality(RevListed)

RevInv == RevTypeOK /\ RevTimes /\ RevEntries /\ RevCalls /\ RevList

LEMMA RevNats ==
    /\ Latency \in Nat /\ ApiTtl \in Nat /\ SdkTtl \in Nat /\ MaxRevTime \in Nat /\ MaxRevCalls \in Nat
    /\ SdkSlack \in Nat /\ Latency + ApiTtl \in Nat
BY RevAssumption DEF SdkSlack

LEMMA RevFacts ==
    ASSUME RevInv
    PROVE  /\ revNow \in Nat /\ revNow <= MaxRevTime
           /\ \A t \in RevTokens :
                 /\ revokedAt[t] \in Int /\ revokedAt[t] <= revNow
                 /\ RevHorizon(t) \in Nat /\ RevHorizon(t) <= revNow
                 /\ revRows[t] = 0 => RevHorizon(t) = revNow
<1>1. revNow \in Nat /\ revNow <= MaxRevTime
  BY RevNats DEF RevInv, RevTypeOK, RevTime
<1>2. ASSUME NEW t \in RevTokens
      PROVE  /\ revokedAt[t] \in Int /\ revokedAt[t] <= revNow
             /\ RevHorizon(t) \in Nat /\ RevHorizon(t) <= revNow
             /\ revRows[t] = 0 => RevHorizon(t) = revNow
  <2>1. revokedAt[t] \in (0..MaxRevTime) \cup {-1}
    BY DEF RevInv, RevTypeOK, RevTime
  <2>2. revokedAt[t] \in Int
    BY <2>1, RevNats
  <2>3. revokedAt[t] <= revNow /\ (revRows[t] # 0 <=> revokedAt[t] >= 0)
    BY DEF RevInv, RevTimes
  <2> QED BY <1>1, <2>2, <2>3 DEF RevHorizon
<1> QED BY <1>1, <1>2

LEMMA RevCallFacts ==
    ASSUME RevInv, NEW c \in RevClients
    PROVE  /\ revCall[c] \in RevCallState /\ revCall[c].token \in RevTokens
           /\ revCall[c].at \in Nat /\ revCall[c].at <= MaxRevTime
           /\ revCall[c].value \in BOOLEAN /\ revCall[c].version \in Nat
<1>1. revCall[c] \in RevCallState
  BY DEF RevInv, RevTypeOK
<1>2. revCall[c].at \in 0..MaxRevTime
  BY <1>1 DEF RevCallState, RevTime
<1>3. revCall[c].at \in Nat /\ revCall[c].at <= MaxRevTime
  BY <1>2, RevNats
<1> QED BY <1>1, <1>3 DEF RevCallState

LEMMA RevEntryFacts ==
    ASSUME NEW e \in RevEntry
    PROVE  e.revoked \in BOOLEAN /\ e.expiresAt \in Int
<1>1. e.expiresAt \in (-1)..(MaxRevTime + ApiTtl + SdkTtl)
  BY DEF RevEntry
<1>2. e.expiresAt \in Int
  BY <1>1, RevNats
<1> QED BY <1>2 DEF RevEntry

LEMMA RevMissOK ==
    /\ RevMiss \in RevEntry
    /\ \A h \in Nat, slack \in Nat : \A row : RevEntryOK(RevMiss, h, row, slack)
<1>1. -1 \in (-1)..(MaxRevTime + ApiTtl + SdkTtl)
  BY RevNats
<1>2. \A h \in Nat, slack \in Nat : -1 <= h + slack
  OBVIOUS
<1>3. RevMiss \in RevEntry
  BY <1>1 DEF RevMiss, RevEntry
<1>4. \A h \in Nat, slack \in Nat : \A row : RevEntryOK(RevMiss, h, row, slack)
  BY <1>2 DEF RevMiss, RevEntryOK
<1> QED BY <1>3, <1>4

LEMMA RevEntryBuilt ==
    ASSUME RevInv, NEW b \in BOOLEAN
    PROVE  /\ [revoked |-> b, expiresAt |-> revNow + ApiTtl] \in RevEntry
           /\ [revoked |-> b, expiresAt |-> revNow + SdkTtl] \in RevEntry
<1>1. /\ revNow + ApiTtl \in (-1)..(MaxRevTime + ApiTtl + SdkTtl)
      /\ revNow + SdkTtl \in (-1)..(MaxRevTime + ApiTtl + SdkTtl)
  BY RevFacts, RevNats
<1> QED BY <1>1 DEF RevEntry

LEMMA RevDropped ==
    ASSUME NEW cache \in RevCache, NEW t \in RevTokens
    PROVE  /\ CacheDrop(cache, t) \in RevCache
           /\ \A u \in RevTokens : CacheDrop(cache, t)[u] = RevMiss \/ CacheDrop(cache, t)[u] = cache[u]
BY RevMissOK DEF CacheDrop, RevCache

\* A step that writes no row and takes no time keeps the invariant when what it puts into the
\* caches and the calls is in order.
LEMMA RevQuiet ==
    ASSUME RevInv, UNCHANGED <<revRows, revNow, revokedAt>>,
           revStarted' \in 0..MaxRevCalls,
           apiCache' \in RevCache, sdkCache' \in [RevClients -> RevCache],
           revCall' \in [RevClients -> RevCallState],
           lastFalse' \in [RevTokens -> RevTime \cup {-1}],
           \A t \in RevTokens : lastFalse'[t] <= RevHorizon(t) + SdkSlack,
           \A t \in RevTokens : RevEntryOK(apiCache'[t], RevHorizon(t), revRows[t], Latency + ApiTtl),
           \A t \in RevTokens, c \in RevClients : RevEntryOK(sdkCache'[c][t], RevHorizon(t), revRows[t], SdkSlack),
           \A c \in RevClients : RevCallOK(revCall'[c], revNow, RevHorizon(revCall'[c].token),
                                           revRows[revCall'[c].token], Cardinality(RevListed)),
           \A c, d \in RevClients : revCall'[c].pc = "commit" /\ revCall'[d].pc = "commit" => c = d
    PROVE  RevInv'
<1>1. \A t : RevHorizon(t)' = RevHorizon(t)
  BY DEF RevHorizon
<1>2. RevListed' = RevListed
  BY DEF RevListed
<1>3. RevTypeOK'
  BY DEF RevInv, RevTypeOK
<1>4. RevTimes'
  BY DEF RevInv, RevTimes, RevHorizon
<1>5. RevEntries'
  BY DEF RevEntries, RevHorizon
<1>6. RevCalls'
  BY <1>2 DEF RevCalls, RevHorizon
<1>7. RevList'
  BY <1>2 DEF RevInv, RevList
<1> QED BY <1>3, <1>4, <1>5, <1>6, <1>7 DEF RevInv

\* One call moves on to q.
LEMMA RevMoves ==
    ASSUME RevInv, NEW c \in RevClients, NEW q \in RevCallState,
           revCall' = [revCall EXCEPT ![c] = q],
           RevCallOK(q, revNow, RevHorizon(q.token), revRows[q.token], Cardinality(RevListed)),
           q.pc = "commit" => \A d \in RevClients \ {c} : revCall[d].pc # "commit"
    PROVE  /\ revCall' \in [RevClients -> RevCallState]
           /\ \A d \in RevClients : RevCallOK(revCall'[d], revNow, RevHorizon(revCall'[d].token),
                                              revRows[revCall'[d].token], Cardinality(RevListed))
           /\ \A d, e \in RevClients : revCall'[d].pc = "commit" /\ revCall'[e].pc = "commit" => d = e
<1>1. revCall \in [RevClients -> RevCallState]
  BY DEF RevInv, RevTypeOK
<1>2. \A d \in RevClients : revCall'[d] = IF d = c THEN q ELSE revCall[d]
  BY <1>1
<1>3. revCall' \in [RevClients -> RevCallState]
  BY <1>1
<1>4. \A d \in RevClients : RevCallOK(revCall[d], revNow, RevHorizon(revCall[d].token),
                                      revRows[revCall[d].token], Cardinality(RevListed))
  BY DEF RevInv, RevCalls
<1>5. \A d \in RevClients : RevCallOK(revCall'[d], revNow, RevHorizon(revCall'[d].token),
                                      revRows[revCall'[d].token], Cardinality(RevListed))
  <2> TAKE d \in RevClients
  <2>1. CASE d = c
    BY <1>2, <2>1
  <2>2. CASE d # c
    <3>1. revCall'[d] = revCall[d]
      BY <1>2, <2>2
    <3> QED BY <1>4, <3>1
  <2> QED BY <2>1, <2>2
<1>6. \A d, e \in RevClients : revCall[d].pc = "commit" /\ revCall[e].pc = "commit" => d = e
  BY DEF RevInv, RevCalls
<1>7. \A d, e \in RevClients : revCall'[d].pc = "commit" /\ revCall'[e].pc = "commit" => d = e
  BY <1>2, <1>6
<1> QED BY <1>3, <1>5, <1>7

LEMMA RevCachesKept ==
    ASSUME RevInv
    PROVE  /\ apiCache \in RevCache /\ sdkCache \in [RevClients -> RevCache]
           /\ \A t \in RevTokens : RevEntryOK(apiCache[t], RevHorizon(t), revRows[t], Latency + ApiTtl)
           /\ \A t \in RevTokens, c \in RevClients : RevEntryOK(sdkCache[c][t], RevHorizon(t), revRows[t], SdkSlack)
           /\ lastFalse \in [RevTokens -> RevTime \cup {-1}]
           /\ \A t \in RevTokens : lastFalse[t] <= RevHorizon(t) + SdkSlack
           /\ revStarted \in 0..MaxRevCalls
BY DEF RevInv, RevTypeOK, RevEntries, RevTimes

LEMMA RevCallsKept ==
    ASSUME RevInv, UNCHANGED revCall
    PROVE  /\ revCall' \in [RevClients -> RevCallState]
           /\ \A d \in RevClients : RevCallOK(revCall'[d], revNow, RevHorizon(revCall'[d].token),
                                              revRows[revCall'[d].token], Cardinality(RevListed))
           /\ \A d, e \in RevClients : revCall'[d].pc = "commit" /\ revCall'[e].pc = "commit" => d = e
BY DEF RevInv, RevTypeOK, RevCalls

\* Dropping entries from the API's cache, or from one client's, or setting one.
LEMMA RevApiAfter ==
    ASSUME RevInv, apiCache' \in RevCache,
           \A t \in RevTokens : \/ apiCache'[t] = RevMiss \/ apiCache'[t] = apiCache[t]
                                \/ RevEntryOK(apiCache'[t], RevHorizon(t), revRows[t], Latency + ApiTtl)
    PROVE  \A t \in RevTokens : RevEntryOK(apiCache'[t], RevHorizon(t), revRows[t], Latency + ApiTtl)
<1> TAKE t \in RevTokens
<1>1. RevHorizon(t) \in Nat /\ Latency + ApiTtl \in Nat
  BY RevFacts, RevNats
<1>2. RevEntryOK(RevMiss, RevHorizon(t), revRows[t], Latency + ApiTtl)
  BY <1>1, RevMissOK
<1>3. RevEntryOK(apiCache[t], RevHorizon(t), revRows[t], Latency + ApiTtl)
  BY RevCachesKept
<1> QED BY <1>2, <1>3

LEMMA RevSdkAfter ==
    ASSUME RevInv, NEW c \in RevClients, NEW e \in RevCache, sdkCache' = [sdkCache EXCEPT ![c] = e],
           \A t \in RevTokens : \/ e[t] = RevMiss \/ e[t] = sdkCache[c][t]
                                \/ RevEntryOK(e[t], RevHorizon(t), revRows[t], SdkSlack)
    PROVE  /\ sdkCache' \in [RevClients -> RevCache]
           /\ \A t \in RevTokens, d \in RevClients : RevEntryOK(sdkCache'[d][t], RevHorizon(t), revRows[t], SdkSlack)
<1>1. sdkCache \in [RevClients -> RevCache]
  BY RevCachesKept
<1>2. \A d \in RevClients : sdkCache'[d] = IF d = c THEN e ELSE sdkCache[d]
  BY <1>1
<1>3. sdkCache' \in [RevClients -> RevCache]
  BY <1>1
<1>4. ASSUME NEW t \in RevTokens, NEW d \in RevClients
      PROVE  RevEntryOK(sdkCache'[d][t], RevHorizon(t), revRows[t], SdkSlack)
  <2>1. RevHorizon(t) \in Nat /\ SdkSlack \in Nat
    BY RevFacts, RevNats
  <2>2. RevEntryOK(RevMiss, RevHorizon(t), revRows[t], SdkSlack)
    BY <2>1, RevMissOK
  <2>3. RevEntryOK(sdkCache[d][t], RevHorizon(t), revRows[t], SdkSlack)
    BY RevCachesKept
  <2>4. CASE d = c
    <3>1. sdkCache'[d] = e
      BY <1>2, <2>4
    <3> QED BY <2>2, <2>3, <2>4, <3>1
  <2>5. CASE d # c
    <3>1. sdkCache'[d] = sdkCache[d]
      BY <1>2, <2>5
    <3> QED BY <2>3, <3>1
  <2> QED BY <2>4, <2>5
<1> QED BY <1>3, <1>4

LEMMA RevAnswers ==
    ASSUME RevInv, NEW t \in RevTokens, NEW b \in BOOLEAN, Answer(t, b),
           ~b => revNow <= RevHorizon(t) + SdkSlack
    PROVE  /\ lastFalse' \in [RevTokens -> RevTime \cup {-1}]
           /\ \A u \in RevTokens : lastFalse'[u] <= RevHorizon(u) + SdkSlack
<1>1. lastFalse \in [RevTokens -> RevTime \cup {-1}] /\ \A u \in RevTokens : lastFalse[u] <= RevHorizon(u) + SdkSlack
  BY RevCachesKept
<1>2. revNow \in RevTime
  BY DEF RevInv, RevTypeOK
<1> DEFINE x == IF b THEN lastFalse[t] ELSE revNow
<1>3. lastFalse' = [lastFalse EXCEPT ![t] = x]
  BY DEF Answer
<1>4. x \in RevTime \cup {-1} /\ x <= RevHorizon(t) + SdkSlack
  BY <1>1, <1>2
<1> HIDE DEF x
<1> QED BY <1>1, <1>3, <1>4

LEMMA RevCheckHit ==
    ASSUME RevInv, NEW c \in RevClients, NEW t \in RevTokens, CheckHit(c, t)
    PROVE  RevInv'
<1>1. UNCHANGED <<revRows, apiCache, revCall, revNow, revStarted, revokedAt>> /\ Answer(t, sdkCache[c][t].revoked)
  BY DEF CheckHit
<1>2. sdkCache \in [RevClients -> RevCache] /\ sdkCache[c] \in RevCache /\ sdkCache[c][t] \in RevEntry
  BY RevCachesKept DEF RevCache
<1>3. [sdkCache[c] EXCEPT ![t] = sdkCache[c][t]] = sdkCache[c]
  BY <1>2 DEF RevCache
<1>4. sdkCache' = [sdkCache EXCEPT ![c] = sdkCache[c]]
  BY <1>3 DEF CheckHit, SdkGet
<1>5. /\ sdkCache' \in [RevClients -> RevCache]
      /\ \A u \in RevTokens, d \in RevClients : RevEntryOK(sdkCache'[d][u], RevHorizon(u), revRows[u], SdkSlack)
  BY <1>2, <1>4, RevSdkAfter
<1>6. ~sdkCache[c][t].revoked => revNow <= RevHorizon(t) + SdkSlack
  <2>1. revNow <= sdkCache[c][t].expiresAt
    BY <1>2, RevEntryFacts, RevFacts DEF CheckHit, CacheHit
  <2>2. RevEntryOK(sdkCache[c][t], RevHorizon(t), revRows[t], SdkSlack)
    BY RevCachesKept
  <2>3. ~sdkCache[c][t].revoked => sdkCache[c][t].expiresAt <= RevHorizon(t) + SdkSlack
    BY <2>2 DEF RevEntryOK
  <2> QED BY <1>2, <2>1, <2>3, RevEntryFacts, RevFacts, RevNats
<1>7. /\ lastFalse' \in [RevTokens -> RevTime \cup {-1}]
      /\ \A u \in RevTokens : lastFalse'[u] <= RevHorizon(u) + SdkSlack
  BY <1>1, <1>2, <1>6, RevAnswers, RevEntryFacts
<1>8. /\ apiCache' \in RevCache /\ revStarted' \in 0..MaxRevCalls
      /\ \A u \in RevTokens : RevEntryOK(apiCache'[u], RevHorizon(u), revRows[u], Latency + ApiTtl)
  BY <1>1, RevCachesKept
<1> QED BY <1>1, <1>5, <1>7, <1>8, RevCallsKept, RevQuiet

\* A call that begins now.
LEMMA RevBegins ==
    ASSUME RevInv, NEW c \in RevClients, NEW t \in RevTokens, NEW b \in BOOLEAN,
           NEW p \in {"answered", "reading", "version"}, RevBegin(c, t, p, b),
           p = "answered" => RevEntryOK([revoked |-> b, expiresAt |-> revNow], RevHorizon(t), revRows[t], Latency + ApiTtl)
    PROVE  /\ revCall' \in [RevClients -> RevCallState]
           /\ \A d \in RevClients : RevCallOK(revCall'[d], revNow, RevHorizon(revCall'[d].token),
                                              revRows[revCall'[d].token], Cardinality(RevListed))
           /\ \A d, e \in RevClients : revCall'[d].pc = "commit" /\ revCall'[e].pc = "commit" => d = e
<1> DEFINE q == [pc |-> p, token |-> t, at |-> revNow, value |-> b, version |-> 0]
<1>1. revNow \in RevTime
  BY DEF RevInv, RevTypeOK
<1>2. q \in RevCallState
  BY <1>1 DEF RevCallState
<1>3. revCall' = [revCall EXCEPT ![c] = q]
  BY DEF RevBegin
<1>4. q.pc = p /\ q.token = t /\ q.at = revNow /\ q.value = b
  OBVIOUS
<1> HIDE DEF q
<1>5. revNow <= revNow /\ revNow <= revNow + Latency
  BY RevFacts, RevNats
<1>6. p = "answered" => /\ ~b => revNow <= RevHorizon(t) + (Latency + ApiTtl)
                        /\ b => revRows[t] # 0
  BY DEF RevEntryOK
<1>7. RevCallOK(q, revNow, RevHorizon(q.token), revRows[q.token], Cardinality(RevListed))
  BY <1>4, <1>5, <1>6 DEF RevCallOK
<1> QED BY <1>2, <1>3, <1>4, <1>7, RevMoves

LEMMA RevCounted ==
    ASSUME RevInv, NEW c \in RevClients, StartRevCall(c)
    PROVE  revStarted' \in 0..MaxRevCalls
BY RevNats DEF RevInv, RevTypeOK, StartRevCall

LEMMA RevCheckMiss ==
    ASSUME RevInv, NEW c \in RevClients, NEW t \in RevTokens, CheckMiss(c, t)
    PROVE  RevInv'
<1>1. UNCHANGED <<revRows, revNow, revokedAt, lastFalse>> /\ revStarted' \in 0..MaxRevCalls
  BY RevCounted DEF CheckMiss
<1>2. sdkCache \in [RevClients -> RevCache] /\ sdkCache[c] \in RevCache /\ apiCache \in RevCache /\ apiCache[t] \in RevEntry
  BY RevCachesKept DEF RevCache
<1>3. sdkCache' = [sdkCache EXCEPT ![c] = CacheDrop(sdkCache[c], t)]
  BY DEF CheckMiss
<1>4. /\ sdkCache' \in [RevClients -> RevCache]
      /\ \A u \in RevTokens, d \in RevClients : RevEntryOK(sdkCache'[d][u], RevHorizon(u), revRows[u], SdkSlack)
  <2> PICK e : e = CacheDrop(sdkCache[c], t)
    OBVIOUS
  <2>1. e \in RevCache /\ \A u \in RevTokens : e[u] = RevMiss \/ e[u] = sdkCache[c][u]
    BY <1>2, RevDropped
  <2> QED BY <1>3, <2>1, RevSdkAfter
<1>5. lastFalse' \in [RevTokens -> RevTime \cup {-1}] /\ \A u \in RevTokens : lastFalse'[u] <= RevHorizon(u) + SdkSlack
  BY <1>1, RevCachesKept
<1>6. CASE CacheHit(apiCache, t)
  <2>1. RevBegin(c, t, "answered", apiCache[t].revoked) /\ UNCHANGED apiCache
    BY <1>6 DEF CheckMiss
  <2>2. apiCache[t].revoked \in BOOLEAN /\ apiCache[t].expiresAt \in Int
    BY <1>2, RevEntryFacts
  <2>3. revNow <= apiCache[t].expiresAt
    BY <1>6, <2>2, RevFacts DEF CacheHit
  <2>4. RevEntryOK(apiCache[t], RevHorizon(t), revRows[t], Latency + ApiTtl)
    BY RevCachesKept
  <2>5. ~apiCache[t].revoked => revNow <= RevHorizon(t) + (Latency + ApiTtl)
    <3>1. ~apiCache[t].revoked => apiCache[t].expiresAt <= RevHorizon(t) + (Latency + ApiTtl)
      BY <2>4 DEF RevEntryOK
    <3> QED BY <2>2, <2>3, <3>1, RevFacts, RevNats
  <2>6. RevEntryOK([revoked |-> apiCache[t].revoked, expiresAt |-> revNow], RevHorizon(t), revRows[t], Latency + ApiTtl)
    BY <2>4, <2>5 DEF RevEntryOK
  <2>7. /\ revCall' \in [RevClients -> RevCallState]
        /\ \A d \in RevClients : RevCallOK(revCall'[d], revNow, RevHorizon(revCall'[d].token),
                                           revRows[revCall'[d].token], Cardinality(RevListed))
        /\ \A d, e \in RevClients : revCall'[d].pc = "commit" /\ revCall'[e].pc = "commit" => d = e
    BY <2>1, <2>2, <2>6, RevBegins
  <2>8. apiCache' \in RevCache /\ \A u \in RevTokens : RevEntryOK(apiCache'[u], RevHorizon(u), revRows[u], Latency + ApiTtl)
    BY <2>1, RevCachesKept
  <2> QED BY <1>1, <1>4, <1>5, <2>7, <2>8, RevQuiet
<1>7. CASE ~CacheHit(apiCache, t)
  <2>1. RevBegin(c, t, "reading", FALSE) /\ apiCache' = CacheDrop(apiCache, t)
    BY <1>7 DEF CheckMiss
  <2>2. /\ revCall' \in [RevClients -> RevCallState]
        /\ \A d \in RevClients : RevCallOK(revCall'[d], revNow, RevHorizon(revCall'[d].token),
                                           revRows[revCall'[d].token], Cardinality(RevListed))
        /\ \A d, e \in RevClients : revCall'[d].pc = "commit" /\ revCall'[e].pc = "commit" => d = e
    BY <2>1, RevBegins
  <2>3. apiCache' \in RevCache /\ \A u \in RevTokens : RevEntryOK(apiCache'[u], RevHorizon(u), revRows[u], Latency + ApiTtl)
    BY <1>2, <2>1, RevDropped, RevApiAfter
  <2> QED BY <1>1, <1>4, <1>5, <2>2, <2>3, RevQuiet
<1> QED BY <1>6, <1>7

LEMMA RevRevokeStart ==
    ASSUME RevInv, NEW c \in RevClients, NEW t \in RevTokens, RevokeStart(c, t)
    PROVE  RevInv'
<1>1. UNCHANGED <<revRows, revNow, revokedAt, lastFalse>> /\ revStarted' \in 0..MaxRevCalls
  BY RevCounted DEF RevokeStart
<1>2. sdkCache \in [RevClients -> RevCache] /\ sdkCache[c] \in RevCache /\ apiCache \in RevCache
  BY RevCachesKept
<1>3. sdkCache' = [sdkCache EXCEPT ![c] = CacheDrop(sdkCache[c], t)] /\ apiCache' = CacheDrop(apiCache, t)
      /\ RevBegin(c, t, "version", FALSE)
  BY DEF RevokeStart
<1>4. /\ sdkCache' \in [RevClients -> RevCache]
      /\ \A u \in RevTokens, d \in RevClients : RevEntryOK(sdkCache'[d][u], RevHorizon(u), revRows[u], SdkSlack)
  <2> PICK e : e = CacheDrop(sdkCache[c], t)
    OBVIOUS
  <2>1. e \in RevCache /\ \A u \in RevTokens : e[u] = RevMiss \/ e[u] = sdkCache[c][u]
    BY <1>2, RevDropped
  <2> QED BY <1>3, <2>1, RevSdkAfter
<1>5. lastFalse' \in [RevTokens -> RevTime \cup {-1}] /\ \A u \in RevTokens : lastFalse'[u] <= RevHorizon(u) + SdkSlack
  BY <1>1, RevCachesKept
<1>6. /\ revCall' \in [RevClients -> RevCallState]
      /\ \A d \in RevClients : RevCallOK(revCall'[d], revNow, RevHorizon(revCall'[d].token),
                                         revRows[revCall'[d].token], Cardinality(RevListed))
      /\ \A d, e \in RevClients : revCall'[d].pc = "commit" /\ revCall'[e].pc = "commit" => d = e
  BY <1>3, RevBegins
<1>7. apiCache' \in RevCache /\ \A u \in RevTokens : RevEntryOK(apiCache'[u], RevHorizon(u), revRows[u], Latency + ApiTtl)
  BY <1>2, <1>3, RevDropped, RevApiAfter
<1> QED BY <1>1, <1>4, <1>5, <1>6, <1>7, RevQuiet

\* A call moves on and nothing else changes.
LEMMA RevOnlyCall ==
    ASSUME RevInv, UNCHANGED <<revRows, apiCache, sdkCache, revNow, revStarted, revokedAt, lastFalse>>,
           NEW c \in RevClients, NEW q \in RevCallState, revCall' = [revCall EXCEPT ![c] = q],
           RevCallOK(q, revNow, RevHorizon(q.token), revRows[q.token], Cardinality(RevListed)),
           q.pc = "commit" => \A d \in RevClients \ {c} : revCall[d].pc # "commit"
    PROVE  RevInv'
<1>1. /\ revCall' \in [RevClients -> RevCallState]
      /\ \A d \in RevClients : RevCallOK(revCall'[d], revNow, RevHorizon(revCall'[d].token),
                                         revRows[revCall'[d].token], Cardinality(RevListed))
      /\ \A d, e \in RevClients : revCall'[d].pc = "commit" /\ revCall'[e].pc = "commit" => d = e
  BY RevMoves
<1>2. /\ apiCache' \in RevCache /\ sdkCache' \in [RevClients -> RevCache]
      /\ \A t \in RevTokens : RevEntryOK(apiCache'[t], RevHorizon(t), revRows[t], Latency + ApiTtl)
      /\ \A t \in RevTokens, d \in RevClients : RevEntryOK(sdkCache'[d][t], RevHorizon(t), revRows[t], SdkSlack)
      /\ lastFalse' \in [RevTokens -> RevTime \cup {-1}]
      /\ \A t \in RevTokens : lastFalse'[t] <= RevHorizon(t) + SdkSlack
      /\ revStarted' \in 0..MaxRevCalls
  BY RevCachesKept
<1> QED BY <1>1, <1>2, RevQuiet

\* What RevGoto makes of a call.
LEMMA RevGoes ==
    ASSUME NEW q \in RevCallState,
           NEW p \in {"idle", "read", "answered", "dup", "insert", "commit", "written", "duplicate", "failed"}
    PROVE  /\ [q EXCEPT !.pc = p] \in RevCallState /\ [q EXCEPT !.pc = p].pc = p
           /\ [q EXCEPT !.pc = p].token = q.token /\ [q EXCEPT !.pc = p].at = q.at
           /\ [q EXCEPT !.pc = p].value = q.value /\ [q EXCEPT !.pc = p].version = q.version
BY DEF RevCallState

LEMMA RevCallKnown ==
    ASSUME RevInv, NEW c \in RevClients
    PROVE  RevCallOK(revCall[c], revNow, RevHorizon(revCall[c].token), revRows[revCall[c].token], Cardinality(RevListed))
BY DEF RevInv, RevCalls

LEMMA RevStoreRead ==
    ASSUME RevInv, NEW c \in RevClients, StoreIsRevoked(c)
    PROVE  RevInv'
<1>1. UNCHANGED <<revRows, apiCache, sdkCache, revNow, revStarted, revokedAt, lastFalse>> /\ revCall[c].pc = "reading"
  BY DEF StoreIsRevoked
<1> PICK f : f = revCall[c]
  OBVIOUS
<1> PICK b \in BOOLEAN : b = (revRows[f.token] # 0)
  OBVIOUS
<1> DEFINE q == [f EXCEPT !.pc = "read", !.value = b]
<1>2. f \in RevCallState /\ f.token \in RevTokens /\ f.at \in Nat
  BY RevCallFacts
<1>3. revCall' = [revCall EXCEPT ![c] = q]
  BY DEF StoreIsRevoked
<1>4. q \in RevCallState /\ q.pc = "read" /\ q.token = f.token /\ q.at = f.at /\ q.value = b
  BY <1>2 DEF RevCallState
<1> HIDE DEF q
<1>5. f.at <= revNow /\ revNow <= f.at + Latency
  BY <1>1, RevCallKnown DEF RevCallOK
<1>6. ~b => f.at <= RevHorizon(f.token)
  BY <1>2, <1>5, RevFacts
<1>7. RevCallOK(q, revNow, RevHorizon(q.token), revRows[q.token], Cardinality(RevListed))
  BY <1>4, <1>5, <1>6 DEF RevCallOK
<1> QED BY <1>1, <1>3, <1>4, <1>7, RevOnlyCall

LEMMA RevLeaves ==
    ASSUME RevInv, NEW c \in RevClients, CheckFails(c) \/ RevokeError(c)
    PROVE  RevInv'
<1>1. UNCHANGED <<revRows, apiCache, sdkCache, revNow, revStarted, revokedAt, lastFalse>> /\ revCall[c].pc # "idle"
  BY DEF CheckFails, RevokeError
<1> PICK f : f = revCall[c]
  OBVIOUS
<1>2. f \in RevCallState
  BY RevCallFacts
<1>3. PICK p \in {"idle", "failed"} : RevGoto(c, p)
  BY DEF CheckFails, RevokeError
<1> DEFINE q == [f EXCEPT !.pc = p]
<1>4. revCall' = [revCall EXCEPT ![c] = q]
  BY <1>3 DEF RevGoto
<1>5. q \in RevCallState /\ q.pc = p /\ q.token = f.token /\ q.at = f.at
  BY <1>2 DEF RevCallState
<1> HIDE DEF q
<1>6. f.at <= revNow /\ revNow <= f.at + Latency
  BY <1>1, RevCallKnown DEF RevCallOK
<1>7. RevCallOK(q, revNow, RevHorizon(q.token), revRows[q.token], Cardinality(RevListed))
  BY <1>5, <1>6 DEF RevCallOK
<1> QED BY <1>1, <1>4, <1>5, <1>7, RevOnlyCall

LEMMA RevBackfillApi ==
    ASSUME RevInv, NEW c \in RevClients, BackfillApi(c)
    PROVE  RevInv'
<1>1. UNCHANGED <<revRows, sdkCache, revNow, revStarted, revokedAt, lastFalse>> /\ revCall[c].pc = "read"
  BY DEF BackfillApi
<1> PICK f : f = revCall[c]
  OBVIOUS
<1>2. f \in RevCallState /\ f.token \in RevTokens /\ f.at \in Nat /\ f.value \in BOOLEAN
  BY RevCallFacts
<1> DEFINE q == [f EXCEPT !.pc = "answered"]
<1>3. revCall' = [revCall EXCEPT ![c] = q]
  BY DEF BackfillApi, RevGoto
<1>4. q \in RevCallState /\ q.pc = "answered" /\ q.token = f.token /\ q.at = f.at /\ q.value = f.value
  BY <1>2, RevGoes
<1> HIDE DEF q
<1>5. /\ f.at <= revNow /\ revNow <= f.at + Latency
      /\ ~f.value => f.at <= RevHorizon(f.token)
      /\ f.value => revRows[f.token] # 0
  BY <1>1, RevCallKnown DEF RevCallOK
<1>6. RevHorizon(f.token) \in Nat /\ revNow \in Nat /\ Latency \in Nat /\ ApiTtl \in Nat
  BY <1>2, RevFacts, RevNats
<1>7. ~f.value => f.at <= RevHorizon(f.token) + (Latency + ApiTtl)
  BY <1>2, <1>5, <1>6
<1>8. ~f.value => revNow + ApiTtl <= RevHorizon(f.token) + (Latency + ApiTtl)
  BY <1>2, <1>5, <1>6
<1>9. RevCallOK(q, revNow, RevHorizon(q.token), revRows[q.token], Cardinality(RevListed))
  BY <1>4, <1>5, <1>7 DEF RevCallOK
<1>10. apiCache \in RevCache /\ apiCache' \in CacheSet(apiCache, f.token, f.value, ApiTtl)
  BY RevCachesKept DEF BackfillApi
<1>11. /\ apiCache' \in RevCache /\ apiCache'[f.token] = [revoked |-> f.value, expiresAt |-> revNow + ApiTtl]
       /\ \A u \in RevTokens : u # f.token => apiCache'[u] = RevMiss \/ apiCache'[u] = apiCache[u]
  <2> PICK r : r = [revoked |-> f.value, expiresAt |-> revNow + ApiTtl]
    OBVIOUS
  <2>1. r \in RevEntry
    BY <1>2, <1>10, RevEntryBuilt
  <2>2. PICK v : apiCache' = [u \in RevTokens |-> IF u = f.token THEN r ELSE IF u = v THEN RevMiss ELSE apiCache[u]]
    BY <1>10 DEF CacheSet
  <2>3. \A u \in RevTokens : apiCache[u] \in RevEntry
    BY <1>2, <1>10 DEF RevCache
  <2> QED BY <1>2, <2>1, <2>2, <2>3, RevMissOK DEF RevCache
<1>12. RevEntryOK(apiCache'[f.token], RevHorizon(f.token), revRows[f.token], Latency + ApiTtl)
  BY <1>5, <1>8, <1>11 DEF RevEntryOK
<1>13. \A u \in RevTokens : RevEntryOK(apiCache'[u], RevHorizon(u), revRows[u], Latency + ApiTtl)
  BY <1>11, <1>12, RevApiAfter
<1>14. /\ revCall' \in [RevClients -> RevCallState]
       /\ \A d \in RevClients : RevCallOK(revCall'[d], revNow, RevHorizon(revCall'[d].token),
                                          revRows[revCall'[d].token], Cardinality(RevListed))
       /\ \A d, e \in RevClients : revCall'[d].pc = "commit" /\ revCall'[e].pc = "commit" => d = e
  BY <1>3, <1>4, <1>9, RevMoves
<1>15. /\ sdkCache' \in [RevClients -> RevCache]
       /\ \A t \in RevTokens, d \in RevClients : RevEntryOK(sdkCache'[d][t], RevHorizon(t), revRows[t], SdkSlack)
       /\ lastFalse' \in [RevTokens -> RevTime \cup {-1}]
       /\ \A t \in RevTokens : lastFalse'[t] <= RevHorizon(t) + SdkSlack
       /\ revStarted' \in 0..MaxRevCalls
  BY <1>1, RevCachesKept
<1> QED BY <1>1, <1>11, <1>13, <1>14, <1>15, RevQuiet

\* A call ends.
LEMMA RevEnds ==
    ASSUME RevInv, NEW c \in RevClients, RevGoto(c, "idle")
    PROVE  /\ revCall' \in [RevClients -> RevCallState]
           /\ \A d \in RevClients : RevCallOK(revCall'[d], revNow, RevHorizon(revCall'[d].token),
                                              revRows[revCall'[d].token], Cardinality(RevListed))
           /\ \A d, e \in RevClients : revCall'[d].pc = "commit" /\ revCall'[e].pc = "commit" => d = e
<1> PICK f : f = revCall[c]
  OBVIOUS
<1>1. f \in RevCallState
  BY RevCallFacts
<1> DEFINE q == [f EXCEPT !.pc = "idle"]
<1>2. revCall' = [revCall EXCEPT ![c] = q]
  BY DEF RevGoto
<1>3. q \in RevCallState /\ q.pc = "idle"
  BY <1>1, RevGoes
<1> HIDE DEF q
<1>4. RevCallOK(q, revNow, RevHorizon(q.token), revRows[q.token], Cardinality(RevListed))
  BY <1>3 DEF RevCallOK
<1> QED BY <1>2, <1>3, <1>4, RevMoves

LEMMA RevBackfillSdk ==
    ASSUME RevInv, NEW c \in RevClients, BackfillSdk(c)
    PROVE  RevInv'
<1>1. UNCHANGED <<revRows, apiCache, revNow, revStarted, revokedAt>> /\ revCall[c].pc = "answered" /\ RevGoto(c, "idle")
  BY DEF BackfillSdk
<1> PICK f : f = revCall[c]
  OBVIOUS
<1>2. f \in RevCallState /\ f.token \in RevTokens /\ f.at \in Nat /\ f.value \in BOOLEAN
  BY RevCallFacts
<1>3. /\ f.at <= revNow /\ revNow <= f.at + Latency
      /\ ~f.value => f.at <= RevHorizon(f.token) + (Latency + ApiTtl)
      /\ f.value => revRows[f.token] # 0
  BY <1>1, RevCallKnown DEF RevCallOK
<1>4. RevHorizon(f.token) \in Nat /\ revNow \in Nat /\ Latency \in Nat /\ ApiTtl \in Nat /\ SdkTtl \in Nat
  BY <1>2, RevFacts, RevNats
<1>5. ~f.value => revNow + SdkTtl <= RevHorizon(f.token) + SdkSlack
  BY <1>2, <1>3, <1>4 DEF SdkSlack
<1>6. ~f.value => revNow <= RevHorizon(f.token) + SdkSlack
  BY <1>2, <1>3, <1>4 DEF SdkSlack
<1>7. PICK e \in CacheSet(sdkCache[c], f.token, f.value, SdkTtl) : sdkCache' = [sdkCache EXCEPT ![c] = e]
  BY DEF BackfillSdk
<1>8. sdkCache[c] \in RevCache
  BY RevCachesKept
<1>9. /\ e \in RevCache /\ e[f.token] = [revoked |-> f.value, expiresAt |-> revNow + SdkTtl]
      /\ \A u \in RevTokens : u # f.token => e[u] = RevMiss \/ e[u] = sdkCache[c][u]
  <2> PICK r : r = [revoked |-> f.value, expiresAt |-> revNow + SdkTtl]
    OBVIOUS
  <2>1. r \in RevEntry
    BY <1>2, <1>8, RevEntryBuilt
  <2>2. PICK v : e = [u \in RevTokens |-> IF u = f.token THEN r ELSE IF u = v THEN RevMiss ELSE sdkCache[c][u]]
    BY <1>7 DEF CacheSet
  <2>3. \A u \in RevTokens : sdkCache[c][u] \in RevEntry
    BY <1>2, <1>8 DEF RevCache
  <2> QED BY <1>2, <2>1, <2>2, <2>3, RevMissOK DEF RevCache
<1>10. RevEntryOK(e[f.token], RevHorizon(f.token), revRows[f.token], SdkSlack)
  BY <1>3, <1>5, <1>9 DEF RevEntryOK
<1>11. /\ sdkCache' \in [RevClients -> RevCache]
       /\ \A t \in RevTokens, d \in RevClients : RevEntryOK(sdkCache'[d][t], RevHorizon(t), revRows[t], SdkSlack)
  BY <1>7, <1>9, <1>10, RevSdkAfter
<1>12. /\ lastFalse' \in [RevTokens -> RevTime \cup {-1}]
       /\ \A u \in RevTokens : lastFalse'[u] <= RevHorizon(u) + SdkSlack
  <2>1. Answer(f.token, f.value)
    BY DEF BackfillSdk
  <2> QED BY <1>2, <1>6, <2>1, RevAnswers
<1>13. /\ apiCache' \in RevCache /\ revStarted' \in 0..MaxRevCalls
       /\ \A u \in RevTokens : RevEntryOK(apiCache'[u], RevHorizon(u), revRows[u], Latency + ApiTtl)
  BY <1>1, RevCachesKept
<1>14. /\ revCall' \in [RevClients -> RevCallState]
       /\ \A d \in RevClients : RevCallOK(revCall'[d], revNow, RevHorizon(revCall'[d].token),
                                          revRows[revCall'[d].token], Cardinality(RevListed))
       /\ \A d, g \in RevClients : revCall'[d].pc = "commit" /\ revCall'[g].pc = "commit" => d = g
  BY <1>1, RevEnds
<1> QED BY <1>1, <1>11, <1>12, <1>13, <1>14, RevQuiet

LEMMA RevRevokeAnswered ==
    ASSUME RevInv, NEW c \in RevClients, RevokeAnswered(c)
    PROVE  RevInv'
<1>1. UNCHANGED <<revRows, revNow, revStarted, revokedAt, lastFalse>> /\ RevGoto(c, "idle")
      /\ revCall[c].pc \in {"written", "duplicate", "failed"}
  BY DEF RevokeAnswered
<1> PICK f : f = revCall[c]
  OBVIOUS
<1>2. f.token \in RevTokens
  BY RevCallFacts
<1>3. f.pc \in {"written", "duplicate"} => revRows[f.token] # 0
  BY RevCallKnown DEF RevCallOK
<1>4. apiCache \in RevCache /\ sdkCache[c] \in RevCache
  BY RevCachesKept
<1>5. apiCache' \in RevCache /\ \A u \in RevTokens : RevEntryOK(apiCache'[u], RevHorizon(u), revRows[u], Latency + ApiTtl)
  <2>1. CASE f.pc = "written"
    <3>1. apiCache' \in CacheSet(apiCache, f.token, TRUE, ApiTtl)
      BY <2>1 DEF RevokeAnswered, ApiAfterRevoke
    <3>2. /\ apiCache' \in RevCache /\ apiCache'[f.token] = [revoked |-> TRUE, expiresAt |-> revNow + ApiTtl]
          /\ \A u \in RevTokens : u # f.token => apiCache'[u] = RevMiss \/ apiCache'[u] = apiCache[u]
      <4> PICK r : r = [revoked |-> TRUE, expiresAt |-> revNow + ApiTtl]
        OBVIOUS
      <4>1. r \in RevEntry
        BY <1>2, <1>4, RevEntryBuilt
      <4>2. PICK v : apiCache' = [u \in RevTokens |-> IF u = f.token THEN r ELSE IF u = v THEN RevMiss ELSE apiCache[u]]
        BY <3>1 DEF CacheSet
      <4>3. \A u \in RevTokens : apiCache[u] \in RevEntry
        BY <1>2, <1>4 DEF RevCache
      <4> QED BY <1>2, <4>1, <4>2, <4>3, RevMissOK DEF RevCache
    <3>3. RevEntryOK(apiCache'[f.token], RevHorizon(f.token), revRows[f.token], Latency + ApiTtl)
      BY <1>3, <2>1, <3>2 DEF RevEntryOK
    <3> QED BY <3>2, <3>3, RevApiAfter
  <2>2. CASE f.pc # "written"
    <3>1. apiCache' = apiCache
      BY <2>2 DEF RevokeAnswered, ApiAfterRevoke
    <3> QED BY <3>1, RevCachesKept
  <2> QED BY <2>1, <2>2
<1>6. /\ sdkCache' \in [RevClients -> RevCache]
      /\ \A t \in RevTokens, d \in RevClients : RevEntryOK(sdkCache'[d][t], RevHorizon(t), revRows[t], SdkSlack)
  <2>1. CASE f.pc = "failed"
    <3>1. sdkCache' = [sdkCache EXCEPT ![c] = sdkCache[c]]
      BY <2>1 DEF RevokeAnswered
    <3> QED BY <1>4, <3>1, RevSdkAfter
  <2>2. CASE f.pc # "failed"
    <3>1. PICK e \in CacheSet(sdkCache[c], f.token, TRUE, SdkTtl) : sdkCache' = [sdkCache EXCEPT ![c] = e]
      BY <2>2 DEF RevokeAnswered
    <3>2. /\ e \in RevCache /\ e[f.token] = [revoked |-> TRUE, expiresAt |-> revNow + SdkTtl]
          /\ \A u \in RevTokens : u # f.token => e[u] = RevMiss \/ e[u] = sdkCache[c][u]
      <4> PICK r : r = [revoked |-> TRUE, expiresAt |-> revNow + SdkTtl]
        OBVIOUS
      <4>1. r \in RevEntry
        BY <1>2, <1>4, RevEntryBuilt
      <4>2. PICK v : e = [u \in RevTokens |-> IF u = f.token THEN r ELSE IF u = v THEN RevMiss ELSE sdkCache[c][u]]
        BY <3>1 DEF CacheSet
      <4>3. \A u \in RevTokens : sdkCache[c][u] \in RevEntry
        BY <1>2, <1>4 DEF RevCache
      <4> QED BY <1>2, <4>1, <4>2, <4>3, RevMissOK DEF RevCache
    <3>3. RevEntryOK(e[f.token], RevHorizon(f.token), revRows[f.token], SdkSlack)
      BY <1>1, <1>3, <2>2, <3>2 DEF RevEntryOK
    <3> QED BY <3>1, <3>2, <3>3, RevSdkAfter
  <2> QED BY <2>1, <2>2
<1>7. /\ lastFalse' \in [RevTokens -> RevTime \cup {-1}]
      /\ \A u \in RevTokens : lastFalse'[u] <= RevHorizon(u) + SdkSlack
      /\ revStarted' \in 0..MaxRevCalls
  BY <1>1, RevCachesKept
<1>8. /\ revCall' \in [RevClients -> RevCallState]
      /\ \A d \in RevClients : RevCallOK(revCall'[d], revNow, RevHorizon(revCall'[d].token),
                                         revRows[revCall'[d].token], Cardinality(RevListed))
      /\ \A d, e \in RevClients : revCall'[d].pc = "commit" /\ revCall'[e].pc = "commit" => d = e
  BY <1>1, RevEnds
<1> QED BY <1>1, <1>5, <1>6, <1>7, <1>8, RevQuiet

\* The rows are numbered from 1 to the number of them.
LEMMA RevCountFacts ==
    ASSUME RevInv
    PROVE  /\ Cardinality(RevListed) \in Nat /\ IsFiniteSet(RevListed)
           /\ Cardinality(RevListed) <= Cardinality(RevTokens) /\ Cardinality(RevTokens) \in Nat
           /\ \A t \in RevTokens : revRows[t] \in Nat /\ revRows[t] <= Cardinality(RevListed)
           /\ \A k \in Nat : k >= 1 /\ k <= Cardinality(RevListed) => \E t \in RevTokens : revRows[t] = k
<1>1. RevListed \subseteq RevTokens /\ IsFiniteSet(RevTokens)
  BY RevAssumption DEF RevListed
<1>2. IsFiniteSet(RevListed) /\ Cardinality(RevListed) <= Cardinality(RevTokens)
  BY <1>1, FS_Subset
<1>3. Cardinality(RevListed) \in Nat /\ Cardinality(RevTokens) \in Nat
  BY <1>1, <1>2, FS_CardinalityType
<1> PICK n \in Nat : n = Cardinality(RevListed)
  BY <1>3
<1>4. {revRows[t] : t \in RevListed} = 1..n
  BY DEF RevInv, RevList
<1>5. \A t \in RevTokens : revRows[t] = 0 \/ revRows[t] \in 1..n
  BY <1>4 DEF RevListed
<1>6. \A t \in RevTokens : revRows[t] \in Nat /\ revRows[t] <= n
  BY <1>5
<1>7. \A k \in Nat : k >= 1 /\ k <= n => \E t \in RevTokens : revRows[t] = k
  <2> TAKE k \in Nat
  <2> HAVE k >= 1 /\ k <= n
  <2>1. k \in 1..n
    OBVIOUS
  <2> QED BY <1>1, <1>4, <2>1
<1> QED BY <1>2, <1>3, <1>6, <1>7

LEMMA RevMaximum ==
    ASSUME RevInv
    PROVE  MaxVersion \in Nat /\ MaxVersion <= Cardinality(RevListed)
<1> PICK n : n = Cardinality(RevListed)
  OBVIOUS
<1> DEFINE P(m) == /\ \A t \in RevTokens : revRows[t] <= m
                   /\ m = 0 \/ \E t \in RevTokens : revRows[t] = m
<1>1. n \in Nat /\ n <= Cardinality(RevTokens) /\ Cardinality(RevTokens) \in Nat
  BY RevCountFacts
<1>2. n \in RevVersion
  BY <1>1 DEF RevVersion
<1>3. P(n)
  <2>1. \A t \in RevTokens : revRows[t] <= n
    BY RevCountFacts
  <2>2. n # 0 => \E t \in RevTokens : revRows[t] = n
    <3>1. n # 0 => n >= 1 /\ n <= n
      BY <1>1
    <3> QED BY <1>1, <3>1, RevCountFacts
  <2> QED BY <2>1, <2>2
<1>4. MaxVersion = CHOOSE m \in RevVersion : P(m)
  BY DEF MaxVersion
<1>5. MaxVersion \in RevVersion /\ P(MaxVersion)
  <2> HIDE DEF P
  <2> QED BY <1>2, <1>3, <1>4
<1>6. MaxVersion \in Nat
  BY <1>1, <1>5 DEF RevVersion
<1>7. MaxVersion <= n
  <2>1. CASE MaxVersion = 0
    BY <1>1, <2>1
  <2>2. CASE \E t \in RevTokens : revRows[t] = MaxVersion
    BY <2>2, RevCountFacts
  <2> QED BY <1>5, <2>1, <2>2
<1> QED BY <1>6, <1>7

LEMMA RevNextVersion ==
    ASSUME RevInv, NEW c \in RevClients, NextListVersion(c)
    PROVE  RevInv'
<1>1. UNCHANGED <<revRows, apiCache, sdkCache, revNow, revStarted, revokedAt, lastFalse>> /\ revCall[c].pc = "version"
  BY DEF NextListVersion
<1> PICK f : f = revCall[c]
  OBVIOUS
<1> PICK m : m = MaxVersion
  OBVIOUS
<1> PICK n : n = Cardinality(RevListed)
  OBVIOUS
<1>2. m \in Nat /\ m <= n /\ n \in Nat
  BY RevMaximum, RevCountFacts
<1> PICK v : v = m + 1
  OBVIOUS
<1>3. v \in Nat /\ 1 <= v /\ v <= n + 1
  BY <1>2
<1> DEFINE q == [f EXCEPT !.pc = "dup", !.version = v]
<1>4. f \in RevCallState
  BY RevCallFacts
<1>5. revCall' = [revCall EXCEPT ![c] = q]
  BY DEF NextListVersion
<1>6. q \in RevCallState /\ q.pc = "dup" /\ q.token = f.token /\ q.at = f.at /\ q.version = v
  BY <1>3, <1>4 DEF RevCallState
<1> HIDE DEF q
<1>7. f.at <= revNow /\ revNow <= f.at + Latency
  BY <1>1, RevCallKnown DEF RevCallOK
<1>8. RevCallOK(q, revNow, RevHorizon(q.token), revRows[q.token], Cardinality(RevListed))
  BY <1>3, <1>6, <1>7 DEF RevCallOK
<1> QED BY <1>1, <1>5, <1>6, <1>8, RevOnlyCall

LEMMA RevDuplicate ==
    ASSUME RevInv, NEW c \in RevClients, DuplicateSelect(c)
    PROVE  RevInv'
<1>1. UNCHANGED <<revRows, apiCache, sdkCache, revNow, revStarted, revokedAt, lastFalse>> /\ revCall[c].pc = "dup"
  BY DEF DuplicateSelect
<1> PICK f : f = revCall[c]
  OBVIOUS
<1> PICK p \in {"duplicate", "insert"} : p = IF revRows[f.token] # 0 THEN "duplicate" ELSE "insert"
  OBVIOUS
<1> DEFINE q == [f EXCEPT !.pc = p]
<1>2. f \in RevCallState
  BY RevCallFacts
<1>3. revCall' = [revCall EXCEPT ![c] = q]
  BY DEF DuplicateSelect, RevGoto
<1>4. q \in RevCallState /\ q.pc = p /\ q.token = f.token /\ q.at = f.at /\ q.version = f.version
  BY <1>2 DEF RevCallState
<1> HIDE DEF q
<1>5. /\ f.at <= revNow /\ revNow <= f.at + Latency
      /\ 1 <= f.version /\ f.version <= Cardinality(RevListed) + 1
  BY <1>1, RevCallKnown DEF RevCallOK
<1>6. p = "duplicate" => revRows[f.token] # 0
  OBVIOUS
<1>7. RevCallOK(q, revNow, RevHorizon(q.token), revRows[q.token], Cardinality(RevListed))
  BY <1>4, <1>5, <1>6 DEF RevCallOK
<1> QED BY <1>1, <1>3, <1>4, <1>7, RevOnlyCall

LEMMA RevInsert ==
    ASSUME RevInv, NEW c \in RevClients, RevokeInsert(c)
    PROVE  RevInv'
<1>1. UNCHANGED <<revRows, apiCache, sdkCache, revNow, revStarted, revokedAt, lastFalse>> /\ revCall[c].pc = "insert"
  BY DEF RevokeInsert
<1> PICK f : f = revCall[c]
  OBVIOUS
<1> PICK n : n = Cardinality(RevListed)
  OBVIOUS
<1> PICK p \in {"commit", "failed"} : p = IF IndexesFree(c) THEN "commit" ELSE "failed"
  OBVIOUS
<1> DEFINE q == [f EXCEPT !.pc = p]
<1>2. f \in RevCallState /\ f.version \in Nat /\ n \in Nat
  BY RevCallFacts, RevCountFacts
<1>3. revCall' = [revCall EXCEPT ![c] = q]
  BY DEF RevokeInsert, RevGoto
<1>4. q \in RevCallState /\ q.pc = p /\ q.token = f.token /\ q.at = f.at /\ q.version = f.version
  BY <1>2 DEF RevCallState
<1> HIDE DEF q
<1>5. f.at <= revNow /\ revNow <= f.at + Latency /\ 1 <= f.version /\ f.version <= n + 1
  BY <1>1, RevCallKnown DEF RevCallOK
<1>6. p = "commit" => revRows[f.token] = 0 /\ \A t \in RevTokens : revRows[t] # f.version
  BY DEF IndexesFree
<1>7. p = "commit" => f.version = n + 1
  <2> SUFFICES ASSUME p = "commit", f.version # n + 1 PROVE FALSE
    OBVIOUS
  <2>1. f.version >= 1 /\ f.version <= n
    BY <1>2, <1>5
  <2>2. \E t \in RevTokens : revRows[t] = f.version
    BY <1>2, <2>1, RevCountFacts
  <2> QED BY <1>6, <2>2
<1>8. RevCallOK(q, revNow, RevHorizon(q.token), revRows[q.token], Cardinality(RevListed))
  BY <1>4, <1>5, <1>6, <1>7 DEF RevCallOK
<1>9. q.pc = "commit" => \A d \in RevClients \ {c} : revCall[d].pc # "commit"
  <2> SUFFICES ASSUME p = "commit", NEW d \in RevClients \ {c}, revCall[d].pc = "commit" PROVE FALSE
    BY <1>4
  <2>1. revCall[d].version = n + 1
    BY RevCallKnown DEF RevCallOK
  <2>2. d \in Uncommitted(c)
    BY <1>7, <2>1 DEF Uncommitted
  <2> QED BY <2>2 DEF RevokeInsert
<1> QED BY <1>1, <1>3, <1>4, <1>8, <1>9, RevOnlyCall

LEMMA RevInvalidate ==
    ASSUME RevInv, NEW ts \in SUBSET RevTokens,
           InvalidateApi(ts) \/ \E c \in RevClients : InvalidateSdk(c, ts)
    PROVE  RevInv'
<1>1. UNCHANGED <<revRows, revCall, revNow, revokedAt, lastFalse>> /\ revStarted' \in 0..MaxRevCalls
  BY RevNats DEF InvalidateApi, InvalidateSdk, RevInv, RevTypeOK
<1>2. lastFalse' \in [RevTokens -> RevTime \cup {-1}] /\ \A u \in RevTokens : lastFalse'[u] <= RevHorizon(u) + SdkSlack
  BY <1>1, RevCachesKept
<1>3. apiCache \in RevCache /\ sdkCache \in [RevClients -> RevCache]
  BY RevCachesKept
<1>4. CASE InvalidateApi(ts)
  <2>1. UNCHANGED sdkCache /\ apiCache' = [t \in RevTokens |-> IF t \in ts THEN RevMiss ELSE apiCache[t]]
    BY <1>4 DEF InvalidateApi
  <2>2. apiCache' \in RevCache /\ \A t \in RevTokens : apiCache'[t] = RevMiss \/ apiCache'[t] = apiCache[t]
    BY <1>3, <2>1, RevMissOK DEF RevCache
  <2>3. \A t \in RevTokens : RevEntryOK(apiCache'[t], RevHorizon(t), revRows[t], Latency + ApiTtl)
    BY <2>2, RevApiAfter
  <2>4. sdkCache' \in [RevClients -> RevCache]
        /\ \A t \in RevTokens, c \in RevClients : RevEntryOK(sdkCache'[c][t], RevHorizon(t), revRows[t], SdkSlack)
    BY <2>1, RevCachesKept
  <2> QED BY <1>1, <1>2, <2>2, <2>3, <2>4, RevCallsKept, RevQuiet
<1>5. ASSUME NEW c \in RevClients, InvalidateSdk(c, ts) PROVE RevInv'
  <2>1. PICK e : e = [t \in RevTokens |-> IF t \in ts THEN RevMiss ELSE sdkCache[c][t]]
    OBVIOUS
  <2>2. UNCHANGED apiCache /\ sdkCache' = [sdkCache EXCEPT ![c] = e]
    BY <1>5, <2>1 DEF InvalidateSdk
  <2>3. sdkCache[c] \in RevCache
    BY <1>3
  <2>4. e \in RevCache /\ \A t \in RevTokens : e[t] = RevMiss \/ e[t] = sdkCache[c][t]
    BY <2>1, <2>3, RevMissOK DEF RevCache
  <2>5. sdkCache' \in [RevClients -> RevCache]
        /\ \A t \in RevTokens, d \in RevClients : RevEntryOK(sdkCache'[d][t], RevHorizon(t), revRows[t], SdkSlack)
    BY <2>2, <2>4, RevSdkAfter
  <2>6. apiCache' \in RevCache /\ \A u \in RevTokens : RevEntryOK(apiCache'[u], RevHorizon(u), revRows[u], Latency + ApiTtl)
    BY <2>2, RevCachesKept
  <2> QED BY <1>1, <1>2, <2>5, <2>6, RevCallsKept, RevQuiet
<1> QED BY <1>4, <1>5

LEMMA RevCallGrows ==
    ASSUME NEW q \in RevCallState, NEW now, NEW h, NEW row, NEW other, NEW n \in Nat,
           RevCallOK(q, now, h, row, n), q.pc # "commit", row # 0 => other # 0
    PROVE  RevCallOK(q, now, h, other, n + 1)
<1>1. q.version \in Nat
  BY DEF RevCallState
<1>2. q.version <= n + 1 => q.version <= (n + 1) + 1
  BY <1>1
<1> QED BY <1>2 DEF RevCallOK

LEMMA RevCommitted ==
    ASSUME RevInv, NEW c \in RevClients, RevokeCommit(c)
    PROVE  RevInv'
<1>1. UNCHANGED <<apiCache, sdkCache, revNow, revStarted, lastFalse>> /\ revCall[c].pc = "commit"
  BY DEF RevokeCommit
<1> PICK f : f = revCall[c]
  OBVIOUS
<1> PICK t : t = f.token
  OBVIOUS
<1> PICK n : n = Cardinality(RevListed)
  OBVIOUS
<1>2. f \in RevCallState /\ t \in RevTokens /\ n \in Nat /\ IsFiniteSet(RevListed)
  BY RevCallFacts, RevCountFacts
<1>3. f.version = n + 1 /\ revRows[t] = 0 /\ f.at <= revNow /\ revNow <= f.at + Latency
  BY <1>1, RevCallKnown DEF RevCallOK
<1>4. revRows' = [revRows EXCEPT ![t] = n + 1] /\ revokedAt' = [revokedAt EXCEPT ![t] = revNow]
  BY <1>3 DEF RevokeCommit
<1>5. revRows \in [RevTokens -> RevVersion] /\ revokedAt \in [RevTokens -> RevTime \cup {-1}] /\ revNow \in RevTime
  BY DEF RevInv, RevTypeOK
<1>6. \A u \in RevTokens : /\ revRows'[u] = IF u = t THEN n + 1 ELSE revRows[u]
                           /\ revokedAt'[u] = IF u = t THEN revNow ELSE revokedAt[u]
  BY <1>4, <1>5
<1>7. RevListed' = RevListed \cup {t} /\ t \notin RevListed
  BY <1>2, <1>3, <1>6 DEF RevListed
<1>8. Cardinality(RevListed') = n + 1 /\ IsFiniteSet(RevListed')
  BY <1>2, <1>7, FS_AddElement
<1>9. n + 1 <= Cardinality(RevTokens) /\ Cardinality(RevTokens) \in Nat
  <2>1. RevListed' \subseteq RevTokens /\ IsFiniteSet(RevTokens)
    BY <1>2, <1>7, RevAssumption DEF RevListed
  <2> QED BY <1>8, <2>1, FS_Subset, FS_CardinalityType
<1>10. n + 1 \in RevVersion
  BY <1>2, <1>9 DEF RevVersion
<1>11. \A u \in RevTokens : RevHorizon(u)' = RevHorizon(u)
  <2> TAKE u \in RevTokens
  <2>1. CASE u = t
    <3>1. RevHorizon(t) = revNow /\ revNow \in Nat
      BY <1>2, <1>3, RevFacts
    <3>2. RevHorizon(t)' = revNow
      BY <1>1, <1>2, <1>6, <3>1 DEF RevHorizon
    <3> QED BY <2>1, <3>1, <3>2
  <2>2. CASE u # t
    BY <1>1, <1>6, <2>2 DEF RevHorizon
  <2> QED BY <2>1, <2>2
<1>12. \A u \in RevTokens : revRows[u] # 0 => revRows'[u] # 0
  BY <1>2, <1>6
<1>a. PICK pc \in {"written", "failed"} : RevGoto(c, pc)
  BY DEF RevokeCommit
<1> DEFINE q == [f EXCEPT !.pc = pc]
<1>13. q \in RevCallState /\ q.pc \in {"written", "failed"} /\ q.token = t /\ q.at = f.at
  BY <1>2 DEF RevCallState
<1>14. revCall' = [revCall EXCEPT ![c] = q]
  BY <1>a DEF RevGoto
<1> HIDE DEF q
<1>15. revCall \in [RevClients -> RevCallState]
  BY DEF RevInv, RevTypeOK
<1>16. revCall' \in [RevClients -> RevCallState] /\ \A d \in RevClients : revCall'[d] = IF d = c THEN q ELSE revCall[d]
  BY <1>13, <1>14, <1>15
<1>17. RevTypeOK'
  <2>1. revRows' \in [RevTokens -> RevVersion] /\ revokedAt' \in [RevTokens -> RevTime \cup {-1}]
    BY <1>4, <1>5, <1>10
  <2> QED BY <1>1, <1>16, <2>1 DEF RevInv, RevTypeOK
<1>18. RevTimes'
  <2> SUFFICES ASSUME NEW u \in RevTokens
               PROVE  /\ revokedAt'[u] <= revNow' /\ (revRows'[u] # 0 <=> revokedAt'[u] >= 0)
                      /\ lastFalse'[u] <= RevHorizon(u)' + SdkSlack
    BY DEF RevTimes
  <2>1. lastFalse'[u] <= RevHorizon(u)' + SdkSlack
    BY <1>1, <1>11, RevCachesKept
  <2>2. revokedAt[u] <= revNow /\ (revRows[u] # 0 <=> revokedAt[u] >= 0) /\ revNow \in Nat
    BY RevFacts DEF RevInv, RevTimes
  <2>3. CASE u = t
    BY <1>1, <1>2, <1>6, <2>1, <2>2, <2>3
  <2>4. CASE u # t
    BY <1>1, <1>6, <2>1, <2>2, <2>4
  <2> QED BY <2>3, <2>4
<1>19. RevEntries'
  <2>1. \A u \in RevTokens : RevEntryOK(apiCache'[u], RevHorizon(u)', revRows'[u], Latency + ApiTtl)
    BY <1>1, <1>11, <1>12, RevCachesKept DEF RevEntryOK
  <2>2. \A u \in RevTokens, d \in RevClients : RevEntryOK(sdkCache'[d][u], RevHorizon(u)', revRows'[u], SdkSlack)
    BY <1>1, <1>11, <1>12, RevCachesKept DEF RevEntryOK
  <2> QED BY <2>1, <2>2 DEF RevEntries
<1>20. RevCalls'
  <2>1. \A d \in RevClients : d # c => revCall[d].pc # "commit"
    BY <1>1 DEF RevInv, RevCalls
  <2>2. ASSUME NEW d \in RevClients
        PROVE  RevCallOK(revCall[d], revNow, RevHorizon(revCall[d].token), revRows[revCall[d].token], Cardinality(RevListed))'
    <3>1. CASE d = c
      <4>1. revRows'[t] # 0 /\ revCall'[d] = q
        BY <1>2, <1>6, <1>16, <3>1
      <4> QED BY <1>1, <1>3, <1>8, <1>13, <4>1 DEF RevCallOK
    <3>2. CASE d # c
      <4> PICK g : g = revCall[d]
        OBVIOUS
      <4>1. revCall'[d] = g /\ g \in RevCallState /\ g.token \in RevTokens /\ g.pc # "commit"
        BY <1>16, <2>1, <3>2, RevCallFacts
      <4>2. RevCallOK(g, revNow, RevHorizon(g.token), revRows[g.token], n)
        BY RevCallKnown
      <4>3. RevCallOK(g, revNow, RevHorizon(g.token), revRows'[g.token], n + 1)
        BY <1>2, <1>12, <4>1, <4>2, RevCallGrows
      <4>4. RevHorizon(g.token)' = RevHorizon(g.token)
        BY <1>11, <4>1
      <4>5. RevHorizon(revCall[d].token)' = RevHorizon(g.token)'
        BY <4>1 DEF RevHorizon
      <4> QED BY <1>1, <1>8, <4>1, <4>3, <4>4, <4>5
    <3> QED BY <3>1, <3>2
  <2>3. \A d, e \in RevClients : revCall'[d].pc = "commit" /\ revCall'[e].pc = "commit" => d = e
    BY <1>13, <1>16, <2>1
  <2> QED BY <2>2, <2>3 DEF RevCalls
<1>21. RevList'
  <2>1. {revRows[u] : u \in RevListed} = 1..n
    BY DEF RevInv, RevList
  <2>2. {revRows'[u] : u \in RevListed'} = {revRows[u] : u \in RevListed} \cup {n + 1}
    BY <1>2, <1>6, <1>7 DEF RevListed
  <2>3. (1..n) \cup {n + 1} = 1..(n + 1)
    BY <1>2
  <2> QED BY <1>8, <2>1, <2>2, <2>3 DEF RevList
<1> QED BY <1>17, <1>18, <1>19, <1>20, <1>21 DEF RevInv

LEMMA RevCallTicks ==
    ASSUME NEW q \in RevCallState, NEW now \in Nat, NEW h \in Nat, NEW later \in Nat, NEW row, NEW n,
           RevCallOK(q, now, h, row, n), q.pc = "idle" \/ now < q.at + Latency, h <= later
    PROVE  RevCallOK(q, now + 1, later, row, n)
<1>1. q.at \in 0..MaxRevTime
  BY DEF RevCallState, RevTime
<1>2. q.at \in Nat /\ Latency \in Nat /\ ApiTtl \in Nat
  BY <1>1, RevNats
<1>3. q.at <= now => q.at <= now + 1
  BY <1>2
<1>4. now < q.at + Latency => now + 1 <= q.at + Latency
  BY <1>2
<1>5. q.at <= h => q.at <= later
  BY <1>2
<1>6. q.at <= h + (Latency + ApiTtl) => q.at <= later + (Latency + ApiTtl)
  BY <1>2
<1> QED BY <1>3, <1>4, <1>5, <1>6 DEF RevCallOK

LEMMA RevEntryTicks ==
    ASSUME NEW e \in RevEntry, NEW h \in Nat, NEW later \in Nat, NEW row, NEW slack \in Nat,
           RevEntryOK(e, h, row, slack), h <= later
    PROVE  RevEntryOK(e, later, row, slack)
<1>1. e.expiresAt \in Int
  BY RevEntryFacts
<1>2. e.expiresAt <= h + slack => e.expiresAt <= later + slack
  BY <1>1
<1> QED BY <1>2 DEF RevEntryOK

LEMMA RevTicked ==
    ASSUME RevInv, RevTick
    PROVE  RevInv'
<1>1. /\ UNCHANGED <<revRows, apiCache, sdkCache, revCall, revStarted, revokedAt, lastFalse>>
      /\ revNow' = revNow + 1 /\ revNow < MaxRevTime
      /\ \A c \in RevClients : revCall[c].pc = "idle" \/ revNow < revCall[c].at + Latency
  BY DEF RevTick
<1>2. revNow \in Nat /\ revNow' \in Nat
  BY <1>1, RevFacts
<1>3. \A t \in RevTokens : RevHorizon(t) \in Nat /\ RevHorizon(t)' \in Nat /\ RevHorizon(t) <= RevHorizon(t)'
  <2> TAKE t \in RevTokens
  <2>1. RevHorizon(t) \in Nat /\ revokedAt[t] \in Int
    BY RevFacts
  <2> QED BY <1>1, <1>2, <2>1 DEF RevHorizon
<1>4. RevListed' = RevListed
  BY <1>1 DEF RevListed
<1>5. RevTypeOK'
  <2>1. revNow' \in RevTime
    BY <1>1, <1>2, RevNats DEF RevTime
  <2> QED BY <1>1, <2>1 DEF RevInv, RevTypeOK
<1>6. RevTimes'
  <2> SUFFICES ASSUME NEW u \in RevTokens
               PROVE  /\ revokedAt'[u] <= revNow' /\ (revRows'[u] # 0 <=> revokedAt'[u] >= 0)
                      /\ lastFalse'[u] <= RevHorizon(u)' + SdkSlack
    BY DEF RevTimes
  <2>1. lastFalse[u] \in Int /\ lastFalse[u] <= RevHorizon(u) + SdkSlack
    <3>1. lastFalse[u] \in (0..MaxRevTime) \cup {-1}
      BY RevCachesKept DEF RevTime
    <3>2. lastFalse[u] \in Int
      BY <3>1, RevNats
    <3> QED BY <3>2, RevCachesKept
  <2>2. revokedAt[u] \in Int /\ revokedAt[u] <= revNow
    BY RevFacts
  <2>3. revRows[u] # 0 <=> revokedAt[u] >= 0
    BY DEF RevInv, RevTimes
  <2>4. lastFalse[u] <= RevHorizon(u)' + SdkSlack
    BY <1>3, <2>1, RevNats
  <2>5. revokedAt[u] <= revNow'
    BY <1>1, <1>2, <2>2
  <2> QED BY <1>1, <2>3, <2>4, <2>5
<1>7. RevEntries'
  <2>1. \A u \in RevTokens : RevEntryOK(apiCache'[u], RevHorizon(u)', revRows'[u], Latency + ApiTtl)
    <3> TAKE u \in RevTokens
    <3>1. apiCache[u] \in RevEntry /\ RevEntryOK(apiCache[u], RevHorizon(u), revRows[u], Latency + ApiTtl)
      BY RevCachesKept DEF RevCache
    <3>2. RevEntryOK(apiCache[u], RevHorizon(u)', revRows[u], Latency + ApiTtl)
      BY <1>3, <3>1, RevEntryTicks, RevNats
    <3> QED BY <1>1, <3>2
  <2>2. \A u \in RevTokens, d \in RevClients : RevEntryOK(sdkCache'[d][u], RevHorizon(u)', revRows'[u], SdkSlack)
    <3> TAKE u \in RevTokens, d \in RevClients
    <3>1. sdkCache[d][u] \in RevEntry /\ RevEntryOK(sdkCache[d][u], RevHorizon(u), revRows[u], SdkSlack)
      BY RevCachesKept DEF RevCache
    <3>2. RevEntryOK(sdkCache[d][u], RevHorizon(u)', revRows[u], SdkSlack)
      BY <1>3, <3>1, RevEntryTicks, RevNats
    <3> QED BY <1>1, <3>2
  <2> QED BY <2>1, <2>2 DEF RevEntries
<1>8. RevCalls'
  <2>1. ASSUME NEW d \in RevClients
        PROVE  RevCallOK(revCall[d], revNow, RevHorizon(revCall[d].token), revRows[revCall[d].token], Cardinality(RevListed))'
    <3> PICK g : g = revCall[d]
      OBVIOUS
    <3>1. g \in RevCallState /\ g.token \in RevTokens
      BY RevCallFacts
    <3>2. RevCallOK(g, revNow, RevHorizon(g.token), revRows[g.token], Cardinality(RevListed))
      BY RevCallKnown
    <3>3. g.pc = "idle" \/ revNow < g.at + Latency
      BY <1>1
    <3>4. RevCallOK(g, revNow + 1, RevHorizon(g.token)', revRows[g.token], Cardinality(RevListed))
      BY <1>2, <1>3, <3>1, <3>2, <3>3, RevCallTicks
    <3>5. RevHorizon(revCall[d].token)' = RevHorizon(g.token)'
      BY <1>1 DEF RevHorizon
    <3> QED BY <1>1, <1>4, <3>4, <3>5
  <2>2. \A d, e \in RevClients : revCall'[d].pc = "commit" /\ revCall'[e].pc = "commit" => d = e
    BY <1>1 DEF RevInv, RevCalls
  <2> QED BY <2>1, <2>2 DEF RevCalls
<1>9. RevList'
  BY <1>1, <1>4 DEF RevInv, RevList
<1> QED BY <1>5, <1>6, <1>7, <1>8, <1>9 DEF RevInv

LEMMA RevStep ==
    ASSUME RevInv, [RevNext]_revVars
    PROVE  RevInv'
<1>1. CASE UNCHANGED revVars
  <2>1. RevListed' = RevListed
    BY <1>1 DEF revVars, RevListed
  <2>2. RevTypeOK' /\ RevList'
    BY <1>1, <2>1 DEF revVars, RevInv, RevTypeOK, RevList
  <2>3. RevTimes' /\ RevEntries'
    BY <1>1 DEF revVars, RevInv, RevTimes, RevEntries, RevHorizon
  <2>4. RevCalls'
    BY <1>1, <2>1 DEF revVars, RevInv, RevCalls, RevHorizon
  <2> QED BY <2>2, <2>3, <2>4 DEF RevInv
<1>2. CASE \E c \in RevClients, t \in RevTokens : CheckHit(c, t) \/ CheckMiss(c, t) \/ RevokeStart(c, t)
  BY <1>2, RevCheckHit, RevCheckMiss, RevRevokeStart
<1>3. CASE \E c \in RevClients :
              StoreIsRevoked(c) \/ CheckFails(c) \/ BackfillApi(c) \/ BackfillSdk(c)
  BY <1>3, RevStoreRead, RevLeaves, RevBackfillApi, RevBackfillSdk
<1>4. CASE \E c \in RevClients :
              \/ NextListVersion(c) \/ DuplicateSelect(c) \/ RevokeInsert(c) \/ RevokeCommit(c)
              \/ RevokeError(c) \/ RevokeAnswered(c)
  BY <1>4, RevNextVersion, RevDuplicate, RevInsert, RevCommitted, RevLeaves, RevRevokeAnswered
<1>5. CASE \E ts \in {RevTokens} \cup {{t} : t \in RevTokens} :
              InvalidateApi(ts) \/ \E c \in RevClients : InvalidateSdk(c, ts)
  <2>1. \A ts \in {RevTokens} \cup {{t} : t \in RevTokens} : ts \in SUBSET RevTokens
    OBVIOUS
  <2> QED BY <1>5, <2>1, RevInvalidate
<1>6. CASE RevTick
  BY <1>6, RevTicked
<1> QED BY <1>1, <1>2, <1>3, <1>4, <1>5, <1>6, Zenon DEF RevNext

LEMMA RevStart ==
    ASSUME RevInit
    PROVE  RevInv
<1>1. IdleRevCall \in RevCallState /\ IdleRevCall.pc = "idle"
  <2>1. (CHOOSE t \in RevTokens : TRUE) \in RevTokens
    BY RevAssumption
  <2>2. 0 \in RevTime
    BY RevNats DEF RevTime
  <2> QED BY <2>1, <2>2 DEF IdleRevCall, RevCallState
<1>2. /\ revRows = [t \in RevTokens |-> 0] /\ apiCache = [t \in RevTokens |-> RevMiss]
      /\ sdkCache = [c \in RevClients |-> [t \in RevTokens |-> RevMiss]]
      /\ revCall = [c \in RevClients |-> IdleRevCall] /\ revNow = 0 /\ revStarted = 0
      /\ revokedAt = [t \in RevTokens |-> -1] /\ lastFalse = [t \in RevTokens |-> -1]
  BY DEF RevInit
<1>3. 0 \in RevTime /\ 0 \in 0..MaxRevCalls
  BY RevNats DEF RevTime
<1>4. 0 \in RevVersion
  BY RevAssumption, FS_CardinalityType DEF RevVersion
<1>5. RevTypeOK
  BY <1>1, <1>2, <1>3, <1>4, RevMissOK DEF RevTypeOK, RevCache
<1>6. \A t \in RevTokens : RevHorizon(t) = 0
  BY <1>2 DEF RevHorizon
<1>7. RevTimes
  <2>1. -1 <= 0 + SdkSlack /\ -1 <= 0 /\ ~(-1 >= 0)
    BY RevNats
  <2> QED BY <1>2, <1>6, <2>1 DEF RevTimes
<1>8. RevEntries
  <2>1. RevEntryOK(RevMiss, 0, 0, Latency + ApiTtl) /\ RevEntryOK(RevMiss, 0, 0, SdkSlack)
    BY RevMissOK, RevNats
  <2> QED BY <1>2, <1>6, <2>1 DEF RevEntries
<1>9. RevCalls
  BY <1>1, <1>2 DEF RevCalls, RevCallOK
<1>10. RevListed = {}
  BY <1>2 DEF RevListed
<1>11. RevList
  <2>1. Cardinality(RevListed) = 0
    BY <1>10, FS_EmptySet
  <2>2. {revRows[t] : t \in RevListed} = {} /\ 1..0 = {}
    BY <1>10
  <2> QED BY <2>1, <2>2 DEF RevList
<1> QED BY <1>5, <1>7, <1>8, <1>9, <1>11 DEF RevInv

LEMMA RevConcludes ==
    ASSUME RevInv
    PROVE  RevTypeOK /\ StaleForAtMostTheTtls /\ RevocationsAreReal
<1>1. StaleForAtMostTheTtls
  <2> SUFFICES ASSUME NEW t \in RevTokens, revokedAt[t] >= 0
               PROVE  lastFalse[t] <= revokedAt[t] + ApiTtl + SdkTtl + 2 * Latency
    BY DEF StaleForAtMostTheTtls
  <2>1. RevHorizon(t) = revokedAt[t]
    BY DEF RevHorizon
  <2>2. lastFalse[t] <= revokedAt[t] + SdkSlack
    BY <2>1, RevCachesKept
  <2>3. revokedAt[t] + SdkSlack = revokedAt[t] + ApiTtl + SdkTtl + 2 * Latency
    BY RevFacts, RevNats DEF SdkSlack
  <2> QED BY <2>2, <2>3
<1>2. \A t \in RevTokens : /\ apiCache[t].revoked => revRows[t] # 0
                           /\ \A c \in RevClients : sdkCache[c][t].revoked => revRows[t] # 0
  BY RevCachesKept DEF RevEntryOK
<1>3. LET listed == {t \in RevTokens : revRows[t] # 0}
      IN  {revRows[t] : t \in listed} = 1..Cardinality(listed)
  BY DEF RevInv, RevList, RevListed
<1>4. RevocationsAreReal
  BY <1>2, <1>3, Zenon DEF RevocationsAreReal
<1> QED BY <1>1, <1>4 DEF RevInv

-----------------------------------------------------------------------------
(* ControllerChain: a resolution knows at each await what it has checked.  *)

\* The controllers loaded so far start at the root, each is named by the one before, none twice.
ChainLinks(chain, root, next) ==
    /\ Len(chain) = 0 => next = root
    /\ Len(chain) > 0 => chain[1].did = root /\ chain[Len(chain)].doc.controller = next
    /\ \A i, j \in 1..Len(chain) : j = i + 1 => chain[i].doc.controller = chain[j].did
    /\ \A i, j \in 1..Len(chain) : i # j => chain[i].did # chain[j].did

WalkStages == {"load", "fresh", "signature", "revocation", "sign"}
WholeStages == {"fresh", "signature", "revocation", "sign"}
FreshStages == {"signature", "revocation", "sign"}

CallWalks(c) ==
    /\ c.pc \in WalkStages => c.root # NoDid /\ ChainLinks(c.chain, c.root, c.next)
    /\ c.pc \notin WalkStages => c.chain = <<>>
    /\ c.pc \in WholeStages => Len(c.chain) \in 1..MaxChainDepth /\ c.next = NoDid
    /\ Len(c.chain) <= MaxChainDepth + 1

WasFresh(fresh) ==
    \A f \in fresh : f.at <= f.rfp.asOf + f.rfp.window /\ f.rfp.window <= CcWindowAsked

CallFresh(c) == WasFresh(c.fresh) /\ (c.pc \in FreshStages => c.fresh # {})

CallSigned(c) ==
    /\ c.pc \notin FreshStages => c.k = 1
    /\ c.pc = "signature" => c.k <= Len(c.chain)
    /\ c.pc = "signature" => \A i \in 1..Len(c.chain) : i < c.k => c.chain[i].doc.signed
    /\ c.pc \in {"revocation", "sign"} => \A i \in 1..Len(c.chain) : c.chain[i].doc.signed

\* A controller that was found good was not revoked when the resolution started.
CallCurrent(c) ==
    /\ c.started <= ccNow
    /\ c.pc = "revocation" => c.k <= Len(c.chain)
    /\ c.pc = "revocation" =>
          \A i \in 1..Len(c.chain) : i < c.k => ccRevoked[c.chain[i].did] >= c.started
    /\ c.pc = "sign" => \A i \in 1..Len(c.chain) : ccRevoked[c.chain[i].did] >= c.started

CallBuilt(c) ==
    c.pc = "sign" => /\ \A i \in 1..Len(c.chain) : c.chain[i].doc.method = c.chain[i].did
                     /\ \A f \in c.fresh : c.notAfter <= c.built + f.rfp.window

CallFits(c) == CallWalks(c) /\ CallFresh(c) /\ CallSigned(c) /\ CallCurrent(c) /\ CallBuilt(c)

IntegrityProof ==
    [audience : CcVerifiers \cup {NoDid}, challenge : CcChallenges \cup {NoDid}, notAfter : Nat, signed : BOOLEAN,
     chain : Seq(ChainNode), fresh : SUBSET FreshNode, root : CcControllers \cup {NoDid},
     started : 0..MaxCcTime, built : 0..MaxCcTime]

\* What a proof speaks of was checked as the resolution that built it says.
ProofFits(p) ==
    /\ p \in IntegrityProof
    /\ Len(p.chain) \in 1..MaxChainDepth /\ ChainLinks(p.chain, p.root, NoDid)
    /\ \A i \in 1..Len(p.chain) : p.chain[i].doc.signed /\ p.chain[i].doc.method = p.chain[i].did
    /\ WasFresh(p.fresh)
    /\ \A f \in p.fresh : p.notAfter <= p.built + f.rfp.window
    /\ p.started <= ccNow
    /\ \A i \in 1..Len(p.chain) : ccRevoked[p.chain[i].did] >= p.started

AcceptFits(a) ==
    /\ a.proof \in ccProofs /\ a.at \in 0..MaxCcTime /\ a.at <= a.proof.notAfter
    /\ a.proof.audience = a.verifier /\ a.proof.challenge = a.challenge

CcInv ==
    /\ CcTypeOK
    /\ CallFits(ccCall)
    /\ \A p \in ccProofs : ProofFits(p)
    /\ \A a \in ccAccepted : AcceptFits(a)

LEMMA CcBounds == MaxCcTime \in Nat /\ Never \in Nat /\ MaxChainDepth \in Nat /\ MaxChainDepth >= 1
                  /\ MaxFreshness \in Nat /\ 0 \in 0..MaxCcTime
  BY ControllerChainAssumption DEF Never

LEMMA ChainFields ==
    ASSUME NEW chain \in Seq(ChainNode), NEW i \in 1..Len(chain)
    PROVE  /\ chain[i] \in ChainNode /\ chain[i].did \in CcControllers /\ chain[i].did # NoDid
           /\ chain[i].doc \in Document /\ chain[i].doc.controller \in CcControllers \cup {NoDid}
<1>1. chain[i] \in ChainNode
  OBVIOUS
<1> QED BY <1>1, PortsAssumption DEF ChainNode, Document, CcDids

LEMMA LenIs == \A chain \in Seq(ChainNode) : Len(chain) \in Nat /\ DOMAIN chain = 1..Len(chain)
  OBVIOUS

LEMMA IdleCallFits == IdleCcCall \in Resolution /\ (CcTypeOK => CallFits(IdleCcCall))
<1>1. IdleCcCall \in Resolution
  BY CcBounds DEF IdleCcCall, Resolution, CcStages, SignerOptions
<1>2. /\ IdleCcCall.pc = "idle" /\ IdleCcCall.chain = <<>> /\ IdleCcCall.fresh = {} /\ IdleCcCall.k = 1
      /\ IdleCcCall.started = 0 /\ Len(<<>>) = 0
  BY DEF IdleCcCall
<1>3. ASSUME CcTypeOK PROVE CallFits(IdleCcCall)
  <2>1. CallWalks(IdleCcCall)
    BY <1>2, CcBounds DEF CallWalks, WalkStages, WholeStages
  <2>2. CallFresh(IdleCcCall) /\ CallSigned(IdleCcCall) /\ CallBuilt(IdleCcCall)
    BY <1>2 DEF CallFresh, WasFresh, FreshStages, CallSigned, CallBuilt
  <2>3. CallCurrent(IdleCcCall)
    BY <1>2, <1>3, CcBounds DEF CallCurrent, CcTypeOK
  <2> QED BY <2>1, <2>2, <2>3 DEF CallFits
<1> QED BY <1>1, <1>3

\* Time goes on, and a revocation is later than what was begun before it.
CcGoesOn ==
    /\ ccNow' \in 0..MaxCcTime /\ ccNow <= ccNow'
    /\ ccRevoked' \in [CcControllers -> 0..Never]
    /\ \A d \in CcControllers, t \in 0..MaxCcTime : t <= ccNow /\ ccRevoked[d] >= t => ccRevoked'[d] >= t

LEMMA CcStays == CcTypeOK /\ UNCHANGED <<ccNow, ccRevoked>> => CcGoesOn
  BY CcBounds DEF CcTypeOK, CcGoesOn

LEMMA CallGoesOn ==
    ASSUME CcTypeOK, CcGoesOn, NEW c \in Resolution, CallFits(c)
    PROVE  CallFits(c)'
<1>1. ccNow \in Nat /\ ccNow' \in Nat /\ c.started \in 0..MaxCcTime /\ c.started \in Nat /\ c.chain \in Seq(ChainNode)
  BY CcBounds DEF CcTypeOK, CcGoesOn, Resolution
<1>2. c.started <= ccNow'
  BY <1>1 DEF CallFits, CallCurrent, CcGoesOn
<1>3. \A i \in 1..Len(c.chain) : ccRevoked[c.chain[i].did] >= c.started => ccRevoked'[c.chain[i].did] >= c.started
  BY <1>1, ChainFields DEF CallFits, CallCurrent, CcGoesOn
<1>4. CallCurrent(c)'
  BY <1>2, <1>3 DEF CallFits, CallCurrent
<1>5. (CallWalks(c) /\ CallFresh(c) /\ CallSigned(c) /\ CallBuilt(c))'
  BY DEF CallFits, CallWalks, CallFresh, CallSigned, CallBuilt
<1> QED BY <1>4, <1>5 DEF CallFits

LEMMA ProofGoesOn ==
    ASSUME CcTypeOK, CcGoesOn, NEW p, ProofFits(p)
    PROVE  ProofFits(p)'
<1>1. ccNow \in Nat /\ ccNow' \in Nat /\ p.started \in 0..MaxCcTime /\ p.started \in Nat /\ p.chain \in Seq(ChainNode)
  BY CcBounds DEF CcTypeOK, CcGoesOn, ProofFits, IntegrityProof
<1>2. p.started <= ccNow'
  BY <1>1 DEF ProofFits, CcGoesOn
<1>3. \A i \in 1..Len(p.chain) : ccRevoked[p.chain[i].did] >= p.started => ccRevoked'[p.chain[i].did] >= p.started
  BY <1>1, ChainFields DEF ProofFits, CcGoesOn
<1> QED BY <1>2, <1>3 DEF ProofFits

LEMMA CcWorld ==
    ASSUME CcInv, CcGoesOn, ccDocs' \in [CcDids -> Document], ccRfps' \in [CcControllers -> FreshnessProof],
           UNCHANGED <<ccCall, ccProofs, ccAccepted>>
    PROVE  CcInv'
<1>1. CcTypeOK'
  BY DEF CcInv, CcTypeOK, CcGoesOn
<1>2. CallFits(ccCall)'
  <2>1. PICK c : c = ccCall
    OBVIOUS
  <2>2. CallFits(c)'
    BY <2>1, CallGoesOn DEF CcInv, CcTypeOK
  <2> QED BY <2>1, <2>2
<1>3. \A p \in ccProofs : ProofFits(p)'
  BY ProofGoesOn DEF CcInv
<1>4. \A a \in ccAccepted : AcceptFits(a)'
  BY DEF CcInv, AcceptFits
<1> QED BY <1>1, <1>2, <1>3, <1>4 DEF CcInv

\* A step of the resolution alone.
LEMMA CcCallMoves ==
    ASSUME CcInv, WorldUnchanged, UNCHANGED <<ccProofs, ccAsked>>,
           NEW c \in Resolution, ccCall' = c, CallFits(c)
    PROVE  CcInv'
<1>1. Len(c.chain) <= MaxChainDepth + 1
  BY DEF CallFits, CallWalks
<1>2. CcTypeOK'
  BY <1>1 DEF CcInv, CcTypeOK, WorldUnchanged
<1>3. CallFits(c)'
  BY CallGoesOn, CcStays DEF CcInv, WorldUnchanged
<1>4. \A p \in ccProofs : ProofFits(p)'
  BY ProofGoesOn, CcStays DEF CcInv, WorldUnchanged
<1>5. \A a \in ccAccepted : AcceptFits(a)'
  BY DEF CcInv, AcceptFits, WorldUnchanged
<1> QED BY <1>2, <1>3, <1>4, <1>5 DEF CcInv, WorldUnchanged

LEMMA ThrowStep == CcInv /\ CcThrow /\ WorldUnchanged => CcInv'
<1> SUFFICES ASSUME CcInv, CcThrow, WorldUnchanged PROVE CcInv'
  OBVIOUS
<1>1. IdleCcCall \in Resolution /\ CallFits(IdleCcCall)
  BY IdleCallFits DEF CcInv
<1>2. PICK c : c = IdleCcCall
  OBVIOUS
<1> QED BY <1>1, <1>2, CcCallMoves DEF CcThrow

LEMMA CcStart == CcInit => CcInv
<1> SUFFICES ASSUME CcInit PROVE CcInv
  OBVIOUS
<1>1. IdleCcCall \in Resolution /\ IdleCcCall.chain = <<>> /\ Len(<<>>) = 0
  BY IdleCallFits DEF IdleCcCall
<1>2. ccRfps \in [CcControllers -> FreshnessProof]
  BY CcBounds DEF CcInit, FreshnessProof
<1>3. ccRevoked \in [CcControllers -> 0..Never] /\ ccNow \in 0..MaxCcTime
  BY CcBounds DEF CcInit
<1>4. CcTypeOK
  <2>1. ccDocs \in [CcDids -> Document] /\ ccCall = IdleCcCall /\ ccAccepted = {}
    BY PortsAssumption DEF CcInit
  <2>2. Len(ccCall.chain) <= MaxChainDepth + 1
    BY <2>1, <1>1, CcBounds
  <2> QED BY <2>1, <2>2, <1>1, <1>2, <1>3 DEF CcTypeOK
<1>5. CallFits(ccCall)
  BY <1>4, IdleCallFits DEF CcInit
<1> QED BY <1>4, <1>5 DEF CcInit, CcInv

LEMMA WorldSteps ==
    ASSUME CcInv, NEW d \in CcControllers,
           \/ RevokeController(d)
           \/ \E w \in 0..MaxFreshness : CreateResolverFreshnessProof(d, w)
           \/ \E p \in CcOffers : OfferRfp(d, p)
    PROVE  CcInv'
<1>0. CcTypeOK /\ ccNow \in Nat /\ ccNow \in 0..MaxCcTime
  BY CcBounds DEF CcInv, CcTypeOK
<1>1. CASE RevokeController(d)
  <2>1. /\ ccRevoked' = [ccRevoked EXCEPT ![d] = ccNow] /\ ccNow' = ccNow
        /\ UNCHANGED <<ccDocs, ccRfps, ccCall, ccProofs, ccAccepted>>
    BY <1>1 DEF RevokeController, CallUnchanged
  <2>2. ccRevoked' \in [CcControllers -> 0..Never]
    BY <2>1, <1>0, CcBounds DEF CcTypeOK, Never
  <2>3. \A e \in CcControllers, t \in 0..MaxCcTime : t <= ccNow /\ ccRevoked[e] >= t => ccRevoked'[e] >= t
    BY <2>1, <1>0 DEF CcTypeOK
  <2>4. CcGoesOn
    BY <1>0, <2>1, <2>2, <2>3 DEF CcGoesOn
  <2> QED BY <1>0, <2>1, <2>4, CcWorld DEF CcTypeOK
<1>2. ASSUME NEW p \in FreshnessProof, ccRfps' = [ccRfps EXCEPT ![d] = p], UNCHANGED <<ccDocs, ccRevoked>>, CallUnchanged
      PROVE  CcInv'
  <2>1. ccRfps' \in [CcControllers -> FreshnessProof]
    BY <1>0, <1>2 DEF CcTypeOK
  <2> QED BY <1>0, <1>2, <2>1, CcWorld, CcStays DEF CcTypeOK, CallUnchanged
<1>3. ASSUME NEW w \in 0..MaxFreshness, CreateResolverFreshnessProof(d, w) PROVE CcInv'
  <2>1. [asOf |-> ccNow, window |-> w] \in FreshnessProof
    BY <1>0, CcBounds DEF FreshnessProof
  <2> QED BY <1>2, <1>3, <2>1 DEF CreateResolverFreshnessProof
<1>4. ASSUME NEW p \in CcOffers, OfferRfp(d, p) PROVE CcInv'
  BY <1>2, <1>4, PortsAssumption DEF OfferRfp
<1> QED BY <1>1, <1>3, <1>4

LEMMA ReplaceDocumentStep == ASSUME CcInv, NEW d \in CcDids, NEW doc \in CcDocuments, ReplaceDocument(d, doc) PROVE CcInv'
<1>1. ccDocs' \in [CcDids -> Document]
  BY PortsAssumption DEF ReplaceDocument, CcInv, CcTypeOK
<1> QED BY <1>1, CcWorld, CcStays DEF ReplaceDocument, CallUnchanged, CcInv, CcTypeOK

LEMMA CcTickStep == CcInv /\ CcTick => CcInv'
<1> SUFFICES ASSUME CcInv, CcTick PROVE CcInv'
  OBVIOUS
<1>1. CcGoesOn
  BY CcBounds DEF CcTick, CcGoesOn, CcInv, CcTypeOK
<1> QED BY <1>1, CcWorld DEF CcTick, CcInv, CcTypeOK

LEMMA ResolveStep ==
    ASSUME CcInv, NEW v \in CcVerifiers, NEW x \in CcChallenges, NEW o \in SignerOptions, ResolveControllerChain(v, x, o)
    PROVE  CcInv'
<1>0. PICK b : b = IdleCcCall
  OBVIOUS
<1>1. PICK c : c = [b EXCEPT !.pc = "root", !.verifier = v, !.challenge = x, !.options = o, !.started = ccNow]
  OBVIOUS
<1>2. ccNow \in 0..MaxCcTime /\ ccNow \in Nat /\ CcTypeOK
  BY CcBounds DEF CcInv, CcTypeOK
<1>3. /\ c \in Resolution /\ c.pc = "root" /\ c.chain = <<>> /\ c.fresh = {} /\ c.k = 1
      /\ c.started = ccNow /\ Len(<<>>) = 0
  <2>1. b \in Resolution
    BY <1>0, IdleCallFits
  <2>2. b.chain = <<>> /\ b.fresh = {} /\ b.k = 1
    BY <1>0 DEF IdleCcCall
  <2> QED BY <1>1, <1>2, <2>1, <2>2 DEF Resolution, CcStages
<1>4. CallWalks(c)
  BY <1>3, CcBounds DEF CallWalks, WalkStages, WholeStages
<1>5. CallFresh(c) /\ CallSigned(c) /\ CallBuilt(c) /\ CallCurrent(c)
  BY <1>2, <1>3 DEF CallFresh, WasFresh, FreshStages, CallSigned, CallBuilt, CallCurrent
<1>6. CallFits(c)
  BY <1>4, <1>5 DEF CallFits
<1>7. CcTypeOK'
  BY <1>0, <1>1, <1>2, <1>3, CcBounds DEF ResolveControllerChain, WorldUnchanged, CcTypeOK
<1>8. CallFits(c)' /\ \A p \in ccProofs : ProofFits(p)'
  BY <1>2, <1>3, <1>6, CallGoesOn, ProofGoesOn, CcStays DEF CcInv, ResolveControllerChain, WorldUnchanged
<1>9. \A a \in ccAccepted : AcceptFits(a)'
  BY DEF CcInv, AcceptFits, ResolveControllerChain
<1> QED BY <1>0, <1>1, <1>7, <1>8, <1>9 DEF CcInv, ResolveControllerChain, WorldUnchanged

LEMMA LoadRootStep == CcInv /\ LoadRoot => CcInv'
<1> SUFFICES ASSUME CcInv, LoadRoot PROVE CcInv'
  OBVIOUS
<1>1. PICK b, root : b = ccCall /\ root = ccDocs[CcTarget].controller
  OBVIOUS
<1>2. b \in Resolution /\ CallFits(b) /\ root \in CcControllers \cup {NoDid} /\ b.pc = "root" /\ WorldUnchanged
  <2>1. ccDocs[CcTarget] \in Document
    BY DEF CcInv, CcTypeOK, CcDids
  <2> QED BY <1>1, <2>1 DEF CcInv, CcTypeOK, LoadRoot, Document
<1>3. CASE root = NoDid
  BY <1>1, <1>2, <1>3, ThrowStep DEF LoadRoot
<1>4. CASE root # NoDid
  <2>1. PICK c : c = [b EXCEPT !.pc = "load", !.root = root, !.next = root]
    OBVIOUS
  <2>2. /\ c \in Resolution /\ c.pc = "load" /\ c.root = root /\ c.next = root /\ c.chain = b.chain /\ c.fresh = b.fresh
        /\ c.k = b.k /\ c.started = b.started
    BY <1>2, <2>1 DEF Resolution, CcStages
  <2>3. b.chain = <<>> /\ Len(<<>>) = 0 /\ b.k = 1
    BY <1>2 DEF CallFits, CallWalks, CallSigned, WalkStages, FreshStages
  <2>4. CallWalks(c)
    BY <1>4, <2>2, <2>3, CcBounds DEF CallWalks, ChainLinks, WalkStages, WholeStages
  <2>5. CallFresh(c) /\ CallSigned(c) /\ CallBuilt(c) /\ CallCurrent(c)
    BY <1>2, <2>2, <2>3 DEF CallFits, CallFresh, FreshStages, CallSigned, CallBuilt, CallCurrent
  <2>6. ccCall' = c /\ UNCHANGED <<ccProofs, ccAsked>>
    BY <1>1, <1>4, <2>1 DEF LoadRoot, CcSet
  <2> QED BY <1>2, <2>2, <2>4, <2>5, <2>6, CcCallMoves DEF CallFits
<1> QED BY <1>3, <1>4

LEMMA LoadControllerStep == CcInv /\ LoadController => CcInv'
<1> SUFFICES ASSUME CcInv, LoadController PROVE CcInv'
  OBVIOUS
<1>1. PICK b : b = ccCall
  OBVIOUS
<1>2. b \in Resolution /\ CallFits(b) /\ b.pc = "load" /\ WorldUnchanged /\ b.chain \in Seq(ChainNode) /\ Len(b.chain) \in Nat
  BY <1>1 DEF CcInv, CcTypeOK, LoadController, Resolution
<1>3. b.root # NoDid /\ ChainLinks(b.chain, b.root, b.next) /\ b.k = 1 /\ b.next \in CcControllers \cup {NoDid}
  BY <1>2 DEF CallFits, CallWalks, CallSigned, WalkStages, FreshStages, Resolution
<1>4. CASE CcThrow
  BY <1>2, <1>4, ThrowStep
<1>5. ASSUME b.next # NoDid, Len(b.chain) <= MaxChainDepth, b.next \notin SeenDids,
             CcSet([ccCall EXCEPT !.chain = Append(@, [did |-> b.next, doc |-> ccDocs[b.next]]),
                                  !.next = ccDocs[b.next].controller])
      PROVE  CcInv'
  <2>1. PICK node, chain, next : /\ node = [did |-> b.next, doc |-> ccDocs[b.next]]
                                 /\ chain = Append(b.chain, node) /\ next = ccDocs[b.next].controller
    OBVIOUS
  <2>2. /\ node \in ChainNode /\ node.did = b.next /\ node.doc.controller = next
        /\ next \in CcControllers \cup {NoDid}
    <3>1. b.next \in CcControllers /\ ccDocs[b.next] \in Document
      BY <1>3, <1>5 DEF CcInv, CcTypeOK, CcDids
    <3> QED BY <2>1, <3>1 DEF ChainNode, Document
  <2>3. /\ chain \in Seq(ChainNode) /\ Len(chain) = Len(b.chain) + 1 /\ chain[Len(chain)] = node
        /\ \A i \in 1..Len(b.chain) : chain[i] = b.chain[i]
    BY <1>2, <2>1, <2>2
  <2>4. PICK c : c = [b EXCEPT !.chain = chain, !.next = next]
    OBVIOUS
  <2>5. /\ c \in Resolution /\ c.pc = "load" /\ c.root = b.root /\ c.next = next /\ c.chain = chain /\ c.fresh = b.fresh
        /\ c.k = b.k /\ c.started = b.started
    BY <1>2, <2>2, <2>3, <2>4 DEF Resolution
  <2>6. \A i \in 1..Len(b.chain) : b.chain[i].did # b.next
    BY <1>1, <1>2, <1>5 DEF SeenDids
  <2>7. ChainLinks(chain, b.root, next)
    <3>1. Len(chain) > 0 /\ chain[Len(chain)].doc.controller = next
      BY <1>2, <2>2, <2>3
    <3>2. chain[1].did = b.root
      <4>1. CASE Len(b.chain) = 0
        BY <4>1, <1>3, <2>2, <2>3 DEF ChainLinks
      <4>2. CASE Len(b.chain) > 0
        <5>1. chain[1] = b.chain[1]
          BY <4>2, <1>2, <2>3
        <5> QED BY <4>2, <5>1, <1>3 DEF ChainLinks
      <4> QED BY <4>1, <4>2, <1>2
    <3>3. ASSUME NEW i \in 1..Len(chain), NEW j \in 1..Len(chain), j = i + 1
          PROVE  chain[i].doc.controller = chain[j].did
      <4>1. i \in 1..Len(b.chain)
        BY <3>3, <1>2, <2>3
      <4>2. CASE j \in 1..Len(b.chain)
        BY <3>3, <4>1, <4>2, <1>3, <2>3 DEF ChainLinks
      <4>3. CASE j \notin 1..Len(b.chain)
        <5>1. i = Len(b.chain) /\ j = Len(chain) /\ Len(b.chain) > 0
          BY <3>3, <4>1, <4>3, <1>2, <2>3
        <5>2. b.chain[i].doc.controller = b.next
          BY <5>1, <1>3 DEF ChainLinks
        <5> QED BY <4>1, <5>1, <5>2, <2>2, <2>3
      <4> QED BY <4>2, <4>3
    <3>4. ASSUME NEW i \in 1..Len(chain), NEW j \in 1..Len(chain), i # j
          PROVE  chain[i].did # chain[j].did
      <4>1. (i \in 1..Len(b.chain) \/ i = Len(chain)) /\ (j \in 1..Len(b.chain) \/ j = Len(chain))
        BY <1>2, <2>3
      <4>2. CASE i \in 1..Len(b.chain) /\ j \in 1..Len(b.chain)
        BY <3>4, <4>2, <1>3, <2>3 DEF ChainLinks
      <4>3. CASE i \in 1..Len(b.chain) /\ j = Len(chain)
        BY <4>3, <2>2, <2>3, <2>6
      <4>4. CASE j \in 1..Len(b.chain) /\ i = Len(chain)
        BY <4>4, <2>2, <2>3, <2>6
      <4> QED BY <3>4, <4>1, <4>2, <4>3, <4>4
    <3>5. Len(chain) # 0
      BY <1>2, <2>3
    <3> QED BY <3>1, <3>2, <3>3, <3>4, <3>5 DEF ChainLinks
  <2>8. CallWalks(c)
    BY <1>2, <1>3, <1>5, <2>3, <2>5, <2>7, CcBounds DEF CallWalks, WalkStages, WholeStages
  <2>9. CallFresh(c) /\ CallSigned(c) /\ CallBuilt(c) /\ CallCurrent(c)
    BY <1>2, <1>3, <2>5 DEF CallFits, CallFresh, FreshStages, CallSigned, CallBuilt, CallCurrent
  <2>10. ccCall' = c /\ UNCHANGED <<ccProofs, ccAsked>>
    BY <1>1, <1>5, <2>1, <2>4 DEF CcSet
  <2> QED BY <1>2, <2>5, <2>8, <2>9, <2>10, CcCallMoves DEF CallFits
<1>6. ASSUME ~(b.next # NoDid /\ Len(b.chain) <= MaxChainDepth), Len(b.chain) <= MaxChainDepth,
             CcSet([ccCall EXCEPT !.pc = "fresh"])
      PROVE  CcInv'
  <2>1. b.next = NoDid /\ Len(b.chain) \in 1..MaxChainDepth
    <3>1. b.next = NoDid
      BY <1>6
    <3>2. Len(b.chain) # 0
      BY <1>3, <3>1 DEF ChainLinks
    <3> QED BY <1>2, <1>6, <3>1, <3>2, CcBounds
  <2>2. PICK c : c = [b EXCEPT !.pc = "fresh"]
    OBVIOUS
  <2>3. /\ c \in Resolution /\ c.pc = "fresh" /\ c.root = b.root /\ c.next = b.next /\ c.chain = b.chain /\ c.fresh = b.fresh
        /\ c.k = b.k /\ c.started = b.started
    BY <1>2, <2>2 DEF Resolution, CcStages
  <2>4. CallWalks(c)
    BY <1>2, <1>3, <2>1, <2>3 DEF CallFits, CallWalks, WalkStages, WholeStages
  <2>5. CallFresh(c) /\ CallSigned(c) /\ CallBuilt(c) /\ CallCurrent(c)
    BY <1>2, <1>3, <2>3 DEF CallFits, CallFresh, FreshStages, CallSigned, CallBuilt, CallCurrent
  <2>6. ccCall' = c /\ UNCHANGED <<ccProofs, ccAsked>>
    BY <1>1, <1>6, <2>2 DEF CcSet
  <2> QED BY <1>2, <2>3, <2>4, <2>5, <2>6, CcCallMoves DEF CallFits
<1> QED BY <1>1, <1>4, <1>5, <1>6 DEF LoadController

LEMMA GetFreshnessStep == ASSUME CcInv, NEW i \in 1..MaxChainDepth, GetFreshness(i) PROVE CcInv'
<1>1. PICK b, p : b = ccCall /\ p = ccRfps[ccCall.chain[i].did]
  OBVIOUS
<1>2. /\ b \in Resolution /\ CallFits(b) /\ b.pc = "fresh" /\ WorldUnchanged /\ b.chain \in Seq(ChainNode)
      /\ i \in 1..Len(b.chain) /\ ccNow \in 0..MaxCcTime /\ Len(b.chain) \in Nat
  BY <1>1 DEF CcInv, CcTypeOK, GetFreshness, Resolution
<1>3. p \in FreshnessProof
  <2>1. b.chain[i].did \in CcControllers
    BY <1>2, ChainFields
  <2> QED BY <1>1, <2>1 DEF CcInv, CcTypeOK
<1>4. CASE ~FreshEnough(p)
  BY <1>1, <1>2, <1>4, ThrowStep DEF GetFreshness
<1>5. CASE FreshEnough(p)
  <2>1. PICK f, stage : /\ f = [node |-> i, rfp |-> p, at |-> ccNow]
                        /\ stage = IF DOMAIN ccCall.chain \ NodesFresh = {i} THEN "signature" ELSE "fresh"
    OBVIOUS
  <2>2. f \in FreshNode /\ f.at = ccNow /\ f.rfp = p /\ stage \in {"signature", "fresh"}
    BY <1>2, <1>3, <2>1, CcBounds DEF FreshNode
  <2>3. f.at <= f.rfp.asOf + f.rfp.window /\ f.rfp.window <= CcWindowAsked
    <3>1. p.asOf \in Nat /\ p.window \in Nat /\ ccNow \in Nat
      BY <1>2, <1>3, CcBounds DEF FreshnessProof
    <3> QED BY <1>5, <2>2, <3>1 DEF FreshEnough
  <2>4. PICK c : c = [b EXCEPT !.fresh = b.fresh \cup {f}, !.pc = stage]
    OBVIOUS
  <2>5. /\ c \in Resolution /\ c.pc = stage /\ c.root = b.root /\ c.next = b.next /\ c.chain = b.chain
        /\ c.fresh = b.fresh \cup {f} /\ c.k = b.k /\ c.started = b.started
    BY <1>2, <2>2, <2>4 DEF Resolution, CcStages
  <2>6. CallWalks(c)
    BY <1>2, <2>2, <2>5 DEF CallFits, CallWalks, WalkStages, WholeStages
  <2>7. CallFresh(c)
    BY <1>2, <2>3, <2>5 DEF CallFits, CallFresh, WasFresh
  <2>8. b.k = 1 /\ Len(b.chain) >= 1
    BY <1>2 DEF CallFits, CallSigned, FreshStages
  <2>9. CallSigned(c)
    BY <2>2, <2>5, <2>8 DEF CallSigned, FreshStages
  <2>10. CallCurrent(c) /\ CallBuilt(c)
    BY <1>2, <2>2, <2>5 DEF CallFits, CallCurrent, CallBuilt
  <2>11. ccCall' = c /\ UNCHANGED <<ccProofs, ccAsked>>
    BY <1>1, <1>5, <2>1, <2>4 DEF GetFreshness, CcSet
  <2> QED BY <1>2, <2>5, <2>6, <2>7, <2>9, <2>10, <2>11, CcCallMoves DEF CallFits
<1> QED BY <1>4, <1>5

LEMMA VerifyDocumentSignatureStep == CcInv /\ VerifyDocumentSignature => CcInv'
<1> SUFFICES ASSUME CcInv, VerifyDocumentSignature PROVE CcInv'
  OBVIOUS
<1>1. PICK b : b = ccCall
  OBVIOUS
<1>2. /\ b \in Resolution /\ CallFits(b) /\ b.pc = "signature" /\ WorldUnchanged /\ b.chain \in Seq(ChainNode)
      /\ Len(b.chain) \in Nat /\ b.k \in Nat /\ b.k >= 1
  BY <1>1, CcBounds DEF CcInv, CcTypeOK, VerifyDocumentSignature, Resolution
<1>3. /\ b.k <= Len(b.chain) /\ Len(b.chain) <= MaxChainDepth /\ (\A i \in 1..Len(b.chain) : i < b.k => b.chain[i].doc.signed)
      /\ b.fresh # {}
  BY <1>2 DEF CallFits, CallSigned, CallWalks, CallFresh, WholeStages, FreshStages
<1>4. CASE ~b.chain[b.k].doc.signed
  BY <1>1, <1>2, <1>4, ThrowStep DEF VerifyDocumentSignature
<1>5. CASE b.chain[b.k].doc.signed /\ b.k = Len(b.chain)
  <2>1. PICK c : c = [b EXCEPT !.pc = "revocation", !.k = 1]
    OBVIOUS
  <2>2. /\ c \in Resolution /\ c.pc = "revocation" /\ c.root = b.root /\ c.next = b.next /\ c.chain = b.chain
        /\ c.fresh = b.fresh /\ c.k = 1 /\ c.started = b.started
    <3>1. 1 \in 1..(MaxChainDepth + 1)
      BY CcBounds
    <3> QED BY <1>2, <2>1, <3>1 DEF Resolution, CcStages
  <2>3. CallWalks(c)
    BY <1>2, <2>2 DEF CallFits, CallWalks, WalkStages, WholeStages
  <2>4. CallFresh(c) /\ CallBuilt(c)
    BY <1>2, <1>3, <2>2 DEF CallFits, CallFresh, CallBuilt
  <2>5. CallSigned(c)
    <3>1. \A i \in 1..Len(b.chain) : b.chain[i].doc.signed
      BY <1>2, <1>3, <1>5
    <3> QED BY <2>2, <3>1 DEF CallSigned, FreshStages
  <2>6. CallCurrent(c)
    BY <1>2, <1>3, <2>2 DEF CallFits, CallCurrent
  <2>7. ccCall' = c /\ UNCHANGED <<ccProofs, ccAsked>>
    BY <1>1, <1>5, <2>1 DEF VerifyDocumentSignature, CcSet
  <2> QED BY <1>2, <2>2, <2>3, <2>4, <2>5, <2>6, <2>7, CcCallMoves DEF CallFits
<1>6. CASE b.chain[b.k].doc.signed /\ b.k # Len(b.chain)
  <2>1. PICK c : c = [b EXCEPT !.k = b.k + 1]
    OBVIOUS
  <2>2. b.k + 1 \in 1..(MaxChainDepth + 1) /\ b.k + 1 <= Len(b.chain)
    <3>1. b.k \in Nat /\ Len(b.chain) \in Nat /\ b.k < Len(b.chain) /\ Len(b.chain) <= MaxChainDepth
      BY <1>2, <1>3, <1>6
    <3> QED BY <3>1, CcBounds
  <2>3. /\ c \in Resolution /\ c.pc = b.pc /\ c.root = b.root /\ c.next = b.next /\ c.chain = b.chain
        /\ c.fresh = b.fresh /\ c.k = b.k + 1 /\ c.started = b.started
    BY <1>2, <2>1, <2>2 DEF Resolution
  <2>4. CallWalks(c)
    BY <1>2, <2>3 DEF CallFits, CallWalks
  <2>5. CallFresh(c) /\ CallBuilt(c) /\ CallCurrent(c)
    BY <1>2, <1>3, <2>3 DEF CallFits, CallFresh, CallBuilt, CallCurrent
  <2>6. CallSigned(c)
    <3>1. \A i \in 1..Len(b.chain) : i < b.k + 1 => b.chain[i].doc.signed
      BY <1>2, <1>3, <1>6
    <3> QED BY <1>2, <2>2, <2>3, <3>1 DEF CallSigned, FreshStages
  <2>7. ccCall' = c /\ UNCHANGED <<ccProofs, ccAsked>>
    BY <1>1, <1>6, <2>1 DEF VerifyDocumentSignature, CcSet
  <2> QED BY <1>2, <2>3, <2>4, <2>5, <2>6, <2>7, CcCallMoves DEF CallFits
<1> QED BY <1>4, <1>5, <1>6

\* A set of windows has a shortest one.
LEMMA ShortestWindow ==
    ASSUME NEW T \in SUBSET Nat, T # {}
    PROVE  \E n \in T : \A m \in T : n <= m
<1> DEFINE R == {p \in Nat \X Nat : p[1] < p[2]}
<1>1. R = OpToRel(<, Nat)
  BY Zenon DEF OpToRel
<1>2. IsWellFoundedOn(R, Nat)
  BY <1>1, NatLessThanWellFounded, Zenon
<1> HIDE DEF R
<1>3. PICK x \in T : \A y \in T : ~(<<y, x>> \in R)
  BY <1>2, WFMin, Zenon
<1>4. \A x1, y \in Nat : y < x1 => <<y, x1>> \in R
  BY DEF R
<1>5. ASSUME NEW y \in T PROVE x <= y
  <2>1. x \in Nat /\ y \in Nat /\ ~(y < x)
    BY <1>3, <1>4
  <2> QED BY <2>1
<1> QED BY <1>5

LEMMA CheckControllerRevokedStep == CcInv /\ CheckControllerRevoked => CcInv'
<1> SUFFICES ASSUME CcInv, CheckControllerRevoked PROVE CcInv'
  OBVIOUS
<1>1. PICK b : b = ccCall
  OBVIOUS
<1>2. /\ b \in Resolution /\ CallFits(b) /\ b.pc = "revocation" /\ WorldUnchanged /\ b.chain \in Seq(ChainNode)
      /\ Len(b.chain) \in Nat /\ b.k \in Nat /\ b.k >= 1 /\ ccNow \in 0..MaxCcTime
  BY <1>1, CcBounds DEF CcInv, CcTypeOK, CheckControllerRevoked, Resolution
<1>3. /\ b.k <= Len(b.chain) /\ Len(b.chain) <= MaxChainDepth /\ (\A i \in 1..Len(b.chain) : b.chain[i].doc.signed)
      /\ b.fresh # {} /\ b.fresh \subseteq FreshNode
      /\ \A i \in 1..Len(b.chain) : i < b.k => ccRevoked[b.chain[i].did] >= b.started
  BY <1>2 DEF CallFits, CallSigned, CallWalks, CallFresh, CallCurrent, WholeStages, FreshStages, Resolution
<1>4. ASSUME ~IsControllerRevoked PROVE \A i \in 1..Len(b.chain) : i < b.k + 1 => ccRevoked[b.chain[i].did] >= b.started
  <2>1. ccRevoked[b.chain[b.k].did] = Never
    BY <1>1, <1>4 DEF IsControllerRevoked
  <2>2. Never >= b.started
    BY <1>2, CcBounds DEF Never, Resolution
  <2>3. \A i \in 1..Len(b.chain) : i < b.k + 1 => i = b.k \/ i < b.k
    BY <1>2
  <2> QED BY <1>3, <2>1, <2>2, <2>3
<1>5. CASE CcThrow
  BY <1>2, <1>5, ThrowStep
<1>6. ASSUME ~IsControllerRevoked, b.k < Len(b.chain), CcSet([ccCall EXCEPT !.k = @ + 1]) PROVE CcInv'
  <2>1. PICK c : c = [b EXCEPT !.k = b.k + 1]
    OBVIOUS
  <2>2. b.k + 1 \in 1..(MaxChainDepth + 1) /\ b.k + 1 <= Len(b.chain)
    <3>1. b.k \in Nat /\ Len(b.chain) \in Nat /\ b.k < Len(b.chain) /\ Len(b.chain) <= MaxChainDepth
      BY <1>2, <1>3, <1>6
    <3> QED BY <3>1, CcBounds
  <2>3. /\ c \in Resolution /\ c.pc = b.pc /\ c.root = b.root /\ c.next = b.next /\ c.chain = b.chain
        /\ c.fresh = b.fresh /\ c.k = b.k + 1 /\ c.started = b.started
    BY <1>2, <2>1, <2>2 DEF Resolution
  <2>4. CallWalks(c)
    BY <1>2, <2>3 DEF CallFits, CallWalks
  <2>5. CallFresh(c) /\ CallBuilt(c) /\ CallSigned(c)
    <3>1. CallFresh(c)
      BY <1>2, <2>3 DEF CallFits, CallFresh
    <3>2. CallBuilt(c)
      BY <1>2, <2>3 DEF CallFits, CallBuilt
    <3>3. CallSigned(c)
      BY <1>2, <1>3, <2>3 DEF CallSigned, FreshStages
    <3> QED BY <3>1, <3>2, <3>3
  <2>6. CallCurrent(c)
    BY <1>2, <1>4, <1>6, <2>2, <2>3 DEF CallFits, CallCurrent
  <2>7. ccCall' = c /\ UNCHANGED <<ccProofs, ccAsked>>
    BY <1>1, <1>6, <2>1 DEF CcSet
  <2> QED BY <1>2, <2>3, <2>4, <2>5, <2>6, <2>7, CcCallMoves DEF CallFits
<1>7. ASSUME ~IsControllerRevoked, b.k = Len(b.chain), BindingValid(ccCall.chain, ccCall.root),
             CcSet([ccCall EXCEPT !.pc = "sign", !.notAfter = ProofNotAfter, !.built = ccNow])
      PROVE  CcInv'
  <2>1. PICK w : w = (CHOOSE v \in {f.rfp.window : f \in b.fresh} : \A f \in b.fresh : v <= f.rfp.window)
    OBVIOUS
  <2>2. w \in Nat /\ \A f \in b.fresh : w <= f.rfp.window
    <3> DEFINE W == {f.rfp.window : f \in b.fresh}
    <3>1. \A f \in b.fresh : f.rfp.window \in Nat
      BY <1>3, CcBounds DEF FreshNode, FreshnessProof
    <3>2. W \in SUBSET Nat /\ W # {}
      BY <1>3, <3>1
    <3>3. \E v \in W : \A u \in W : v <= u
      <4> HIDE DEF W
      <4> QED BY <3>2, ShortestWindow
    <3>4. \E v \in W : \A f \in b.fresh : v <= f.rfp.window
      BY <3>3
    <3>5. w \in W /\ \A f \in b.fresh : w <= f.rfp.window
      BY <2>1, <3>4
    <3> QED BY <3>2, <3>5
  <2>3. ccNow \in Nat /\ ccNow + w \in Nat /\ ProofNotAfter = ccNow + w
    BY <1>1, <1>2, <2>1, <2>2, CcBounds DEF ProofNotAfter
  <2>4. PICK c : c = [b EXCEPT !.pc = "sign", !.notAfter = ccNow + w, !.built = ccNow]
    OBVIOUS
  <2>5. /\ c \in Resolution /\ c.pc = "sign" /\ c.root = b.root /\ c.next = b.next /\ c.chain = b.chain
        /\ c.fresh = b.fresh /\ c.k = b.k /\ c.started = b.started /\ c.notAfter = ccNow + w /\ c.built = ccNow
    BY <1>2, <2>3, <2>4 DEF Resolution, CcStages
  <2>6. CallWalks(c)
    BY <1>2, <2>5 DEF CallFits, CallWalks, WalkStages, WholeStages
  <2>7. CallFresh(c) /\ CallSigned(c)
    BY <1>2, <1>3, <2>5 DEF CallFits, CallFresh, CallSigned, FreshStages
  <2>8. CallCurrent(c)
    <3>1. \A i \in 1..Len(b.chain) : i < b.k + 1
      BY <1>2, <1>7
    <3> QED BY <1>2, <1>4, <1>7, <2>5, <3>1 DEF CallFits, CallCurrent
  <2>9. CallBuilt(c)
    <3>1. \A i \in 1..Len(b.chain) : b.chain[i].doc.method = b.chain[i].did
      BY <1>1, <1>2, <1>7 DEF BindingValid
    <3>2. \A f \in b.fresh : ccNow + w <= ccNow + f.rfp.window
      <4>1. \A f \in b.fresh : f.rfp.window \in Nat
        BY <1>3, CcBounds DEF FreshNode, FreshnessProof
      <4> QED BY <4>1, <2>2, <2>3
    <3> QED BY <2>5, <3>1, <3>2 DEF CallBuilt
  <2>10. ccCall' = c /\ UNCHANGED <<ccProofs, ccAsked>>
    BY <1>1, <1>7, <2>3, <2>4 DEF CcSet
  <2> QED BY <1>2, <2>5, <2>6, <2>7, <2>8, <2>9, <2>10, CcCallMoves DEF CallFits
<1> QED BY <1>1, <1>5, <1>6, <1>7 DEF CheckControllerRevoked

LEMMA BuildChainIntegrityProofStep == CcInv /\ BuildChainIntegrityProof => CcInv'
<1> SUFFICES ASSUME CcInv, BuildChainIntegrityProof PROVE CcInv'
  OBVIOUS
<1>1. PICK b, p : b = ccCall /\ p = ChainIntegrityProof
  OBVIOUS
<1>2. b \in Resolution /\ CallFits(b) /\ b.pc = "sign" /\ WorldUnchanged /\ CcTypeOK
  BY <1>1 DEF CcInv, CcTypeOK, BuildChainIntegrityProof
<1>3. /\ p \in IntegrityProof /\ p.chain = b.chain /\ p.root = b.root /\ p.fresh = b.fresh /\ p.notAfter = b.notAfter
      /\ p.built = b.built /\ p.started = b.started
  BY <1>1, <1>2 DEF ChainIntegrityProof, IntegrityProof, Resolution
<1>4. /\ Len(b.chain) \in 1..MaxChainDepth /\ ChainLinks(b.chain, b.root, NoDid)
      /\ \A i \in 1..Len(b.chain) : b.chain[i].doc.signed
  BY <1>2 DEF CallFits, CallWalks, CallSigned, WalkStages, WholeStages
<1>5. /\ WasFresh(b.fresh) /\ b.started <= ccNow
      /\ \A i \in 1..Len(b.chain) : b.chain[i].doc.method = b.chain[i].did
      /\ \A f \in b.fresh : b.notAfter <= b.built + f.rfp.window
      /\ \A i \in 1..Len(b.chain) : ccRevoked[b.chain[i].did] >= b.started
  BY <1>2 DEF CallFits, CallFresh, CallCurrent, CallBuilt
<1>6. ProofFits(p)
  BY <1>3, <1>4, <1>5 DEF ProofFits
<1>7. CcGoesOn
  BY <1>2, CcStays DEF WorldUnchanged
<1>8. ccProofs' = ccProofs \cup {p} /\ ccCall' = IdleCcCall
  BY <1>1 DEF BuildChainIntegrityProof
<1>9. \A q \in ccProofs' : ProofFits(q)'
  BY <1>2, <1>6, <1>7, <1>8, ProofGoesOn DEF CcInv
<1>10. \A a \in ccAccepted' : AcceptFits(a)'
  BY <1>2, <1>8 DEF CcInv, AcceptFits, WorldUnchanged
<1>11. CcTypeOK'
  <2>1. Len(IdleCcCall.chain) <= MaxChainDepth + 1
    BY <1>2, IdleCallFits DEF CallFits, CallWalks
  <2> QED BY <1>2, <1>8, <2>1, IdleCallFits DEF CcTypeOK, WorldUnchanged
<1>12. CallFits(ccCall)'
  <2>1. PICK c : c = IdleCcCall
    OBVIOUS
  <2>2. CallFits(c)'
    BY <1>2, <1>7, <2>1, IdleCallFits, CallGoesOn
  <2> QED BY <1>8, <2>1, <2>2
<1> QED BY <1>9, <1>10, <1>11, <1>12 DEF CcInv

LEMMA VerifyProofStep ==
    ASSUME CcInv, NEW v, NEW x, NEW p \in ccProofs, VerifyChainIntegrityProof(p, v, x)
    PROVE  CcInv'
<1>1. PICK n : n = [proof |-> p, verifier |-> v, challenge |-> x, at |-> ccNow]
  OBVIOUS
<1>2. /\ ccAccepted' = ccAccepted \cup {n} /\ UNCHANGED <<ccNow, ccDocs, ccRevoked, ccRfps, ccCall, ccProofs>>
      /\ ccNow <= p.notAfter /\ p.challenge = x /\ p.audience = v
  BY <1>1 DEF VerifyChainIntegrityProof
<1>3. n.proof = p /\ n.verifier = v /\ n.challenge = x /\ n.at = ccNow /\ ccNow \in 0..MaxCcTime
  BY <1>1 DEF CcInv, CcTypeOK
<1>4. AcceptFits(n)
  BY <1>2, <1>3 DEF AcceptFits
<1>5. \A a \in ccAccepted' : AcceptFits(a)'
  BY <1>2, <1>4 DEF CcInv, AcceptFits
<1>6. CcTypeOK'
  BY <1>2, <1>3 DEF CcInv, CcTypeOK
<1>7. CcGoesOn
  BY <1>2, CcStays DEF CcInv
<1>8. \A q \in ccProofs' : ProofFits(q)'
  BY <1>2, <1>7, ProofGoesOn DEF CcInv
<1>9. CallFits(ccCall)'
  <2>1. PICK c : c = ccCall
    OBVIOUS
  <2>2. CallFits(c)'
    BY <1>7, <2>1, CallGoesOn DEF CcInv, CcTypeOK
  <2> QED BY <1>2, <2>1, <2>2
<1> QED BY <1>5, <1>6, <1>8, <1>9 DEF CcInv

\* The invariant is inductive.
LEMMA CcStep == CcInv /\ [CcNext]_ccVars => CcInv'
<1> SUFFICES ASSUME CcInv, [CcNext]_ccVars PROVE CcInv'
  OBVIOUS
<1>1. CASE UNCHANGED ccVars
  BY <1>1, CcWorld, CcStays DEF ccVars, CcInv, CcTypeOK
<1>2. CASE PortFails
  BY <1>2, ThrowStep DEF PortFails
<1>3. ASSUME NEW v \in CcVerifiers, NEW x \in CcChallenges,
             \/ \E o \in SignerOptions : ResolveControllerChain(v, x, o)
             \/ \E p \in ccProofs : VerifyChainIntegrityProof(p, v, x)
      PROVE  CcInv'
  BY <1>3, ResolveStep, VerifyProofStep
<1> QED BY <1>1, <1>2, <1>3, WorldSteps, ReplaceDocumentStep, CcTickStep, LoadRootStep, LoadControllerStep,
           GetFreshnessStep, VerifyDocumentSignatureStep, CheckControllerRevokedStep, BuildChainIntegrityProofStep
        DEF CcNext

\* A sequence without repetitions has as many elements as places.
LEMMA DistinctCount ==
    ASSUME NEW n \in Nat, NEW T, NEW f \in [1..n -> T], \A t \in T : \E i \in 1..n : f[i] = t,
           \A i, j \in 1..n : i # j => f[i] # f[j]
    PROVE  Cardinality(T) = n
<1>1. f \in Injection(1..n, T) /\ f \in Surjection(1..n, T)
  BY DEF Injection, IsInjective, Surjection
<1>2. ExistsBijection(1..n, T)
  BY <1>1 DEF Bijection, ExistsBijection
<1> QED BY <1>2, FS_CountingElements

LEMMA CcConcludes == CcInv => CcTypeOK /\ AcceptedChainsHold
<1> SUFFICES ASSUME CcInv, NEW a \in ccAccepted
             PROVE  LET p == a.proof
                    IN  /\ ChainIsWhole(p)
                        /\ p.audience = a.verifier /\ p.challenge = a.challenge
                        /\ \A f \in p.fresh : /\ a.at <= p.built + f.rfp.window
                                             /\ f.at <= f.rfp.asOf + f.rfp.window /\ f.rfp.window <= CcWindowAsked
                        /\ \A i \in DOMAIN p.chain : ccRevoked[p.chain[i].did] >= p.started
  BY DEF CcInv, AcceptedChainsHold
<1>1. PICK p : p = a.proof
  OBVIOUS
<1>2. ProofFits(p) /\ AcceptFits(a)
  BY <1>1 DEF CcInv, AcceptFits
<1>3. /\ p \in IntegrityProof /\ p.chain \in Seq(ChainNode) /\ Len(p.chain) \in Nat /\ DOMAIN p.chain = 1..Len(p.chain)
      /\ p.notAfter \in Nat /\ p.built \in Nat /\ p.fresh \subseteq FreshNode
  BY <1>2, CcBounds DEF ProofFits, IntegrityProof
<1>4. ChainIsWhole(p)
  <2>1. PICK n : n = Len(p.chain)
    OBVIOUS
  <2>2. n \in 1..MaxChainDepth /\ n \in Nat /\ ChainLinks(p.chain, p.root, NoDid)
    BY <1>2, <1>3, <2>1 DEF ProofFits
  <2>3. p.chain[1].did = p.root /\ p.chain[n].doc.controller = NoDid
    BY <2>1, <2>2 DEF ChainLinks
  <2>4. \A i \in 1..(n - 1) : p.chain[i].doc.controller = p.chain[i + 1].did
    <3> TAKE i \in 1..(n - 1)
    <3>1. i \in 1..n /\ i + 1 \in 1..n
      BY <2>2
    <3> QED BY <2>1, <2>2, <3>1 DEF ChainLinks
  <2>5. Cardinality({p.chain[i].did : i \in 1..n}) = n
    <3>1. PICK T, f : T = {p.chain[i].did : i \in 1..n} /\ f = [i \in 1..n |-> p.chain[i].did]
      OBVIOUS
    <3>2. f \in [1..n -> T] /\ \A t \in T : \E i \in 1..n : f[i] = t
      BY <3>1
    <3>3. \A i, j \in 1..n : i # j => f[i] # f[j]
      BY <2>1, <2>2, <3>1 DEF ChainLinks
    <3> QED BY <2>2, <3>1, <3>2, <3>3, DistinctCount
  <2>6. \A i \in 1..n : p.chain[i].doc.signed /\ p.chain[i].doc.method = p.chain[i].did
    BY <1>2, <2>1 DEF ProofFits
  <2> QED BY <2>1, <2>2, <2>3, <2>4, <2>5, <2>6 DEF ChainIsWhole
<1>5. \A f \in p.fresh : a.at <= p.built + f.rfp.window
  <2> TAKE f \in p.fresh
  <2>1. f.rfp.window \in Nat
    BY <1>3, CcBounds DEF FreshNode, FreshnessProof
  <2>2. a.at \in Nat /\ a.at <= p.notAfter /\ p.notAfter <= p.built + f.rfp.window
    BY <1>1, <1>2, CcBounds DEF AcceptFits, ProofFits
  <2> QED BY <1>3, <2>1, <2>2
<1>6. \A f \in p.fresh : f.at <= f.rfp.asOf + f.rfp.window /\ f.rfp.window <= CcWindowAsked
  BY <1>2 DEF ProofFits, WasFresh
<1>7. \A i \in DOMAIN p.chain : ccRevoked[p.chain[i].did] >= p.started
  BY <1>2, <1>3 DEF ProofFits
<1> QED BY <1>1, <1>2, <1>4, <1>5, <1>6, <1>7 DEF AcceptFits

\* A resolution has checked what the stage it is at says, and an accepted proof all of it, for
\* every set of controllers and verifiers, every depth and window (resolveControllerChain).
THEOREM ControllerChainsKeepTrack == CcSpec => []CcInv
BY CcStart, CcStep, PTL DEF CcSpec

-----------------------------------------------------------------------------
(* Tokens: what a check has established at each await.                     *)

OwnKeys(did, resolved) ==
    /\ resolved.current[1] = did
    /\ \A p \in resolved.previous : p.key[1] = did

\* What has been compared of the k-th link when its parent is kept.
LinkFits(token, parents, k) ==
    LET proof == token.chain[k]
        parent == parents[k]
    IN  /\ proof.delegator = parent.issuedTo
        /\ parent.issuer = token.issuer /\ parent.principal = token.principal
        /\ proof.parentCapabilities = parent.capabilities
        /\ proof.parentExpiresAt = parent.expiresAt
        /\ k = 1 => parent.chain = <<>> /\ parent.key = <<parent.issuer, 0>>
        /\ k > 1 => parent.key[1] = token.chain[k - 1].delegator
        /\ ValidateAttenuation(proof.parentCapabilities, proof.attenuated)
        /\ k < Len(token.chain) => proof.attenuated = token.chain[k + 1].parentCapabilities

\* And when the parent was asked for on the revocation list.
LinkStands(c, k) ==
    LET proof == c.token.chain[k]
    IN  /\ proof.parentTokenId \notin c.seen
        /\ c.token.expiresAt <= proof.parentExpiresAt
        /\ c.now < proof.parentExpiresAt

Going(c) == c.pc \notin {"idle", "done"} \/ c.result = "allowed"
ChainStages == {"keys", "link", "parentRevoked"}
LinkStages == {"link", "parentRevoked"}

CheckBegun(c) ==
    /\ c.pc = "idle" => c = NoCheck
    /\ c.pc # "done" => c.result = "none"
    /\ Going(c) => c.token \in DgToken /\ c.flow \in {"orchestrator", "guard"}
    /\ Going(c) /\ c.pc # "sender" => c.now < c.token.expiresAt
    /\ c.pc \in {"sender", "leafRevoked", "leafKeys"} => c.flow = "orchestrator"
    /\ c.pc \in {"sender", "leafRevoked", "leafKeys", "keys"} => c.i = 1 /\ c.parents = <<>>

CheckRevocations(c) ==
    /\ c.seen \subseteq dgRevoked
    /\ Going(c) /\ c.flow = "orchestrator" /\ c.pc \notin {"sender", "leafRevoked"} => c.token.id \notin c.seen
    /\ c.result = "allowed" => c.token.id \notin c.seen

CheckKeys(c) ==
    /\ \A d \in DgAgents : c.keys[d] # NotResolved => OwnKeys(d, c.keys[d])
    /\ c.pc \in LinkStages => \A k \in 1..Len(c.token.chain) : c.keys[c.token.chain[k].delegator] # NotResolved

CheckLinks(c) ==
    /\ c.pc \in ChainStages => c.i \in 1..Len(c.token.chain) /\ Len(c.token.chain) <= MaxDelegationDepth
    /\ c.pc = "link" => Len(c.parents) = c.i - 1
    /\ c.pc = "parentRevoked" => Len(c.parents) = c.i
    /\ c.pc \in LinkStages =>
          /\ \A k \in 1..Len(c.parents) : LinkFits(c.token, c.parents, k)
          /\ \A k \in 1..Len(c.token.chain) : k < c.i => LinkStands(c, k)

\* The token hangs together from its root to itself.
HangsTogether(c) ==
    /\ Len(c.parents) = Len(c.token.chain)
    /\ \A k \in 1..Len(c.parents) : LinkFits(c.token, c.parents, k) /\ LinkStands(c, k)
    /\ Len(c.token.chain) = 0 => c.token.chain = <<>> /\ c.token.key = <<c.token.issuer, 0>>
    /\ Len(c.token.chain) > 0 =>
          LET last == c.token.chain[Len(c.token.chain)]
          IN  /\ c.token.issuer = c.token.principal
              /\ c.token.capabilities = last.attenuated /\ c.token.key[1] = last.delegator

CheckWhole(c) == c.pc = "guardRevoked" \/ c.result = "allowed" => HangsTogether(c)

CheckFits(c) ==
    /\ c \in DgCheckState /\ Len(c.parents) <= MaxDelegationDepth + 1
    /\ CheckBegun(c) /\ CheckRevocations(c) /\ CheckKeys(c) /\ CheckLinks(c) /\ CheckWhole(c)

DgInv == DgTypeOK /\ CheckFits(dgCheck)

LEMMA DgBounds ==
    /\ MaxDgTokens \in Nat /\ MaxDgTime \in Nat /\ MaxDgEvents \in Nat /\ MaxKey \in Nat /\ MaxKey >= 1
    /\ MaxDgTime >= 1
    /\ MaxDelegationDepth \in Nat /\ DgHolders \subseteq DgAgents /\ DgIssuers \subseteq DgPrincipals
  BY DgAssumption, ScopesAssumption

LEMMA TokenFields ==
    ASSUME NEW t \in DgToken
    PROVE  /\ t.id \in DgIds /\ t.issuer \in DgPrincipals /\ t.issuedTo \in DgAgents /\ t.expiresAt \in Nat
           /\ t.issuedAt \in Nat /\ t.capabilities \in DgGrants /\ t.chain \in Seq(DgProof)
           /\ Len(t.chain) \in Nat /\ DOMAIN t.chain = 1..Len(t.chain)
           /\ \A k \in 1..Len(t.chain) : t.chain[k] \in DgProof
  BY DgBounds DEF DgToken

LEMMA ProofFields ==
    ASSUME NEW p \in DgProof
    PROVE  /\ p.parentTokenId \in DgIds /\ p.delegator \in DgAgents /\ p.parentCapabilities \in DgGrants
           /\ p.attenuated \in DgGrants /\ p.parentExpiresAt \in Nat
  BY DgBounds DEF DgProof

LEMMA CheckFields ==
    ASSUME NEW c \in DgCheckState
    PROVE  /\ c.now \in Nat /\ c.seen \subseteq DgIds /\ c.i \in Nat /\ c.i <= MaxDelegationDepth + 1
           /\ c.keys \in [DgAgents -> ResolvedKeys \cup {NotResolved}]
           /\ c.parents \in Seq(DgToken) /\ Len(c.parents) \in Nat
           /\ \A k \in 1..Len(c.parents) : c.parents[k] \in DgToken
  BY DgBounds DEF DgCheckState

LEMMA NoCheckFits ==
    /\ NoCheck \in DgCheckState /\ NoCheck.parents = <<>> /\ NoCheck.pc = "idle" /\ NoCheck.result = "none"
    /\ NoCheck.keys = [d \in DgAgents |-> NotResolved] /\ NoCheck.seen = {}
    /\ CheckFits(NoCheck)
<1>1. /\ NoCheck.parents = <<>> /\ NoCheck.pc = "idle" /\ NoCheck.result = "none" /\ NoCheck.seen = {}
      /\ NoCheck.keys = [d \in DgAgents |-> NotResolved]
  BY DEF NoCheck
<1>2. NoCheck \in DgCheckState
  <2>1. [d \in DgAgents |-> NotResolved] \in [DgAgents -> ResolvedKeys \cup {NotResolved}]
    OBVIOUS
  <2>2. 0 \in 0..MaxDgTime /\ 0 \in 0..(MaxDelegationDepth + 1)
    BY DgBounds
  <2> QED BY <2>1, <2>2 DEF NoCheck, DgCheckState, DgStages
<1>3. Len(NoCheck.parents) <= MaxDelegationDepth + 1
  BY <1>1, DgBounds
<1>4. CheckBegun(NoCheck) /\ CheckRevocations(NoCheck) /\ CheckKeys(NoCheck) /\ CheckLinks(NoCheck) /\ CheckWhole(NoCheck)
  BY <1>1 DEF CheckBegun, CheckRevocations, CheckKeys, CheckLinks, CheckWhole, Going, ChainStages, LinkStages
<1> QED BY <1>1, <1>2, <1>3, <1>4 DEF CheckFits

LEMMA DgStart == DgInit => DgInv
<1> SUFFICES ASSUME DgInit PROVE DgInv
  OBVIOUS
<1>1. dgKeys \in [DgAgents -> [version : 1..MaxKey, startedAt : 0..MaxDgTime]]
  BY DgBounds DEF DgInit
<1>2. dgStore \in [DgIds -> DgToken \cup {NoToken}] /\ \A id \in DgIds : dgStore[id] = NoToken
  BY DEF DgInit
<1>3. dgCheck = NoCheck /\ dgCheck \in DgCheckState /\ CheckFits(dgCheck)
  BY NoCheckFits DEF DgInit
<1>4. Len(dgCheck.parents) <= MaxDelegationDepth + 1
  BY <1>3 DEF CheckFits
<1> QED BY <1>1, <1>2, <1>3, <1>4, DgBounds DEF DgInit, DgInv, DgTypeOK

\* A check under way does not notice what else happens, revocations apart.
LEMMA CheckGoesOn ==
    ASSUME NEW c, CheckFits(c), dgRevoked \subseteq dgRevoked'
    PROVE  CheckFits(c)'
<1>1. CheckRevocations(c)'
  BY DEF CheckFits, CheckRevocations
<1>2. (CheckBegun(c) /\ CheckKeys(c) /\ CheckLinks(c) /\ CheckWhole(c))'
  BY DEF CheckFits, CheckBegun, CheckKeys, CheckLinks, CheckWhole
<1> QED BY <1>1, <1>2 DEF CheckFits

LEMMA OthersMove ==
    ASSUME DgInv, dgCheck' = dgCheck, dgRevoked \subseteq dgRevoked', dgRevoked' \subseteq DgIds,
           dgStore' \in [DgIds -> DgToken \cup {NoToken}],
           \A id \in DgIds : dgStore'[id] # NoToken => dgStore'[id].id = id,
           dgKeys' \in [DgAgents -> [version : 1..MaxKey, startedAt : 0..MaxDgTime]],
           dgClock' \in 0..MaxDgTime, dgIssued' \in 0..MaxDgTokens, dgEvents' \in 0..MaxDgEvents
    PROVE  DgInv'
<1>1. PICK c : c = dgCheck
  OBVIOUS
<1>2. CheckFits(c)'
  BY <1>1, CheckGoesOn DEF DgInv
<1>3. DgTypeOK'
  BY DEF DgInv, DgTypeOK
<1> QED BY <1>1, <1>2, <1>3 DEF DgInv

LEMMA StoreStep == ASSUME DgInv, NEW token \in DgToken, token.id = dgIssued + 1, Store(token) PROVE DgInv'
<1>1. /\ dgStore' = [dgStore EXCEPT ![token.id] = token] /\ dgIssued' = dgIssued + 1 /\ dgIssued < MaxDgTokens
      /\ UNCHANGED <<dgRevoked, dgKeys, dgClock, dgEvents, dgCheck>>
  BY DEF Store
<1>2. dgIssued' \in 0..MaxDgTokens
  BY <1>1, DgBounds DEF DgInv, DgTypeOK
<1>3. /\ dgStore' \in [DgIds -> DgToken \cup {NoToken}]
      /\ \A id \in DgIds : dgStore'[id] # NoToken => dgStore'[id].id = id
  BY <1>1, TokenFields DEF DgInv, DgTypeOK
<1> QED BY <1>1, <1>2, <1>3, OthersMove DEF DgInv, DgTypeOK

LEMMA NewIsNext == ASSUME DgInv, dgIssued < MaxDgTokens PROVE dgIssued + 1 \in DgIds
  BY DgBounds DEF DgInv, DgTypeOK, DgIds

LEMMA RootIsToken ==
    ASSUME DgInv, dgIssued < MaxDgTokens, NEW p \in DgPrincipals, NEW to \in DgAgents, NEW g \in DgGrants, NEW e \in 1..MaxDgTime
    PROVE  NewRoot(p, to, g, e) \in DgToken /\ NewRoot(p, to, g, e).id = dgIssued + 1
<1>1. dgIssued + 1 \in DgIds /\ dgClock \in 0..MaxDgTime /\ <<>> \in Seq(DgProof)
  BY NewIsNext DEF DgInv, DgTypeOK
<1>2. <<p, 0>> \in (DgAgents \X (1..MaxKey)) \cup (DgPrincipals \X {0})
  OBVIOUS
<1> QED BY <1>1, <1>2 DEF NewRoot, DgToken

LEMMA ProofIsOne ==
    ASSUME DgInv, NEW parent \in DgToken, NEW delegator \in DgAgents, NEW to \in DgAgents, NEW snapshot \in DgGrants,
           NEW end \in 1..MaxDgTime, NEW attenuated \in DgGrants
    PROVE  LET p == Proof(parent, delegator, to, snapshot, end, attenuated)
           IN  /\ p \in DgProof /\ p.delegatee \in DgAgents /\ p.signer \in DgAgents
               /\ p.key \in DgAgents \X (1..MaxKey)
<1>1. <<delegator, dgKeys[delegator].version>> \in DgAgents \X (1..MaxKey) /\ dgClock \in 0..MaxDgTime
  BY DEF DgInv, DgTypeOK
<1>2. parent.id \in DgIds
  BY TokenFields
<1> QED BY <1>1, <1>2 DEF Proof, CurrentKey, DgProof

LEMMA ChildIsToken ==
    ASSUME DgInv, dgIssued < MaxDgTokens, NEW parent \in DgToken, NEW proof \in DgProof, NEW prefix \in Seq(DgProof),
           NEW g \in DgGrants, NEW e \in 1..MaxDgTime
    PROVE  NewChild(parent, proof, prefix, g, e) \in DgToken /\ NewChild(parent, proof, prefix, g, e).id = dgIssued + 1
<1>1. dgIssued + 1 \in DgIds /\ dgClock \in 0..MaxDgTime /\ Append(prefix, proof) \in Seq(DgProof)
  BY NewIsNext DEF DgInv, DgTypeOK
<1>2. proof.key \in DgAgents \X (1..MaxKey) /\ proof.signer \in DgAgents /\ proof.delegatee \in DgAgents
  BY DEF DgProof
<1>3. parent.issuer \in DgPrincipals /\ parent.principal \in DgPrincipals
  BY DEF DgToken
<1> QED BY <1>1, <1>2, <1>3 DEF NewChild, DgToken

LEMMA IssueRootStep ==
    ASSUME DgInv, NEW p \in DgIssuers, NEW to \in DgHolders, NEW g \in DgGrants, NEW e \in 1..MaxDgTime,
           IssueRoot(p, to, g, e)
    PROVE  DgInv'
<1>1. PICK t : t = NewRoot(p, to, g, e)
  OBVIOUS
<1>2. Store(t) /\ dgIssued < MaxDgTokens
  BY <1>1 DEF IssueRoot, Store
<1>3. t \in DgToken /\ t.id = dgIssued + 1
  BY <1>1, <1>2, RootIsToken, DgBounds
<1> QED BY <1>2, <1>3, StoreStep

LEMMA IssueElsewhereStep ==
    ASSUME DgInv, NEW p \in DgIssuers, NEW q \in DgPrincipals, NEW to \in DgHolders, NEW g \in DgGrants,
           IssueElsewhere(p, q, to, g)
    PROVE  DgInv'
<1>1. PICK t : t = NewRoot(p, to, g, MaxDgTime)
  OBVIOUS
<1>2. Store([t EXCEPT !.principal = q]) /\ dgIssued < MaxDgTokens
  BY <1>1 DEF IssueElsewhere, Store
<1>3. t \in DgToken /\ t.id = dgIssued + 1
  BY <1>1, <1>2, RootIsToken, DgBounds
<1>4. [t EXCEPT !.principal = q] \in DgToken /\ [t EXCEPT !.principal = q].id = dgIssued + 1
  BY <1>3 DEF DgToken
<1> QED BY <1>2, <1>4, StoreStep

LEMMA DelegateStep ==
    ASSUME DgInv, NEW parent \in DgToken, NEW to \in DgAgents, NEW g \in DgGrants, NEW e \in 1..MaxDgTime,
           Delegate(parent, to, g, e)
    PROVE  DgInv'
<1>1. parent.issuedTo \in DgAgents /\ parent.capabilities \in DgGrants /\ parent.expiresAt \in 1..MaxDgTime /\ parent.chain \in Seq(DgProof)
  BY DEF DgToken
<1>2. PICK p : p = Proof(parent, parent.issuedTo, to, parent.capabilities, parent.expiresAt, g)
  OBVIOUS
<1>3. PICK t : t = NewChild(parent, p, parent.chain, g, e)
  OBVIOUS
<1>4. Store(t) /\ dgIssued < MaxDgTokens
  BY <1>2, <1>3 DEF Delegate, Store
<1>5. p \in DgProof
  BY <1>1, <1>2, ProofIsOne
<1>6. t \in DgToken /\ t.id = dgIssued + 1
  BY <1>1, <1>3, <1>4, <1>5, ChildIsToken
<1> QED BY <1>4, <1>6, StoreStep

LEMMA DelegateElsewhereStep ==
    ASSUME DgInv, NEW parent \in DgToken, NEW to \in DgAgents, NEW g \in DgGrants, NEW e \in 1..MaxDgTime,
           NEW wrong \in {"attenuation", "snapshot", "leaf", "expiry", "snapshotExpiry", "holder", "prefix"},
           DelegateElsewhere(parent, to, g, e, wrong)
    PROVE  DgInv'
<1>1. parent.issuedTo \in DgAgents /\ parent.capabilities \in DgGrants /\ parent.expiresAt \in 1..MaxDgTime /\ parent.chain \in Seq(DgProof)
  BY DEF DgToken
<1>2. PICK t : t = ForeignToken(parent, to, g, e, wrong)
  OBVIOUS
<1>3. Store(t) /\ dgIssued < MaxDgTokens
  BY <1>2 DEF DelegateElsewhere, Store
<1>4. \E p \in DgProof, prefix \in Seq(DgProof), h \in DgGrants, f \in 1..MaxDgTime : t = NewChild(parent, p, prefix, h, f)
  <2> DEFINE holder == parent.issuedTo
             own == parent.capabilities
             end == parent.expiresAt
  <2>1. CASE wrong = "attenuation"
    <3>1. Proof(parent, holder, to, own, end, g) \in DgProof
      BY <1>1, ProofIsOne
    <3>2. t = NewChild(parent, Proof(parent, holder, to, own, end, g), parent.chain, g, end)
      BY <1>2, <2>1 DEF ForeignToken
    <3> QED BY <1>1, <3>1, <3>2
  <2>2. CASE wrong = "snapshot"
    <3>1. Proof(parent, holder, to, g, end, g) \in DgProof
      BY <1>1, ProofIsOne
    <3>2. t = NewChild(parent, Proof(parent, holder, to, g, end, g), parent.chain, g, end)
      BY <1>2, <2>2 DEF ForeignToken
    <3> QED BY <1>1, <3>1, <3>2
  <2>3. CASE wrong \in {"leaf", "expiry", "prefix"}
    <3>1. Proof(parent, holder, to, own, end, own) \in DgProof /\ <<>> \in Seq(DgProof)
      BY <1>1, ProofIsOne
    <3>2. \/ t = NewChild(parent, Proof(parent, holder, to, own, end, own), parent.chain, g, end)
          \/ t = NewChild(parent, Proof(parent, holder, to, own, end, own), parent.chain, own, e)
          \/ t = NewChild(parent, Proof(parent, holder, to, own, end, own), <<>>, own, end)
      BY <1>2, <2>3 DEF ForeignToken
    <3> QED BY <1>1, <3>1, <3>2
  <2>4. CASE wrong = "snapshotExpiry"
    <3>1. Proof(parent, holder, to, own, e, own) \in DgProof
      BY <1>1, ProofIsOne
    <3>2. t = NewChild(parent, Proof(parent, holder, to, own, e, own), parent.chain, own, e)
      BY <1>2, <2>4 DEF ForeignToken
    <3> QED BY <1>1, <3>1, <3>2
  <2>5. CASE wrong = "holder"
    <3>1. Proof(parent, to, holder, own, end, own) \in DgProof
      BY <1>1, ProofIsOne
    <3>2. t = NewChild(parent, Proof(parent, to, holder, own, end, own), parent.chain, own, end)
      BY <1>2, <2>5 DEF ForeignToken
    <3> QED BY <1>1, <3>1, <3>2
  <2> QED BY <2>1, <2>2, <2>3, <2>4, <2>5
<1>5. t \in DgToken /\ t.id = dgIssued + 1
  BY <1>3, <1>4, ChildIsToken
<1> QED BY <1>3, <1>5, StoreStep

LEMMA EventSteps ==
    ASSUME DgInv, (\E id \in DgIds : Remove(id) \/ RevokeToken(id)) \/ (\E a \in DgAgents : RotateAgentKey(a)) \/ DgTick
    PROVE  DgInv'
<1>0. DgTypeOK /\ (Event => dgEvents' \in 0..MaxDgEvents)
  BY DgBounds DEF DgInv, DgTypeOK, Event
<1>1. ASSUME NEW id \in DgIds, Remove(id) PROVE DgInv'
  <2>1. /\ dgStore' \in [DgIds -> DgToken \cup {NoToken}]
        /\ \A i \in DgIds : dgStore'[i] # NoToken => dgStore'[i].id = i
    BY <1>0, <1>1 DEF DgTypeOK, Remove
  <2> QED BY <1>0, <1>1, <2>1, OthersMove DEF DgTypeOK, Remove
<1>2. ASSUME NEW id \in DgIds, RevokeToken(id) PROVE DgInv'
  BY <1>0, <1>2, OthersMove DEF DgTypeOK, RevokeToken
<1>3. ASSUME NEW a \in DgAgents, RotateAgentKey(a) PROVE DgInv'
  <2>1. PICK v : v = [version |-> dgKeys[a].version + 1, startedAt |-> dgClock]
    OBVIOUS
  <2>2. v \in [version : 1..MaxKey, startedAt : 0..MaxDgTime]
    BY <1>0, <1>3, <2>1, DgBounds DEF DgTypeOK, RotateAgentKey
  <2>3. dgKeys' = [dgKeys EXCEPT ![a] = v]
    BY <1>3, <2>1 DEF RotateAgentKey
  <2>4. dgKeys' \in [DgAgents -> [version : 1..MaxKey, startedAt : 0..MaxDgTime]]
    BY <1>0, <2>2, <2>3 DEF DgTypeOK
  <2> QED BY <1>0, <1>3, <2>4, OthersMove DEF DgTypeOK, RotateAgentKey
<1>4. CASE DgTick
  <2>1. dgClock' \in 0..MaxDgTime
    BY <1>0, <1>4, DgBounds DEF DgTypeOK, DgTick
  <2> QED BY <1>0, <1>4, <2>1, OthersMove DEF DgTypeOK, DgTick
<1> QED BY <1>1, <1>2, <1>3, <1>4

\* What a step of the check leaves behind.
LEMMA CheckMoves ==
    ASSUME DgInv, NEW c, CheckFits(c), dgCheck' = c, CheckOnly
    PROVE  DgInv'
<1>1. CheckFits(c)'
  BY CheckGoesOn DEF CheckOnly
<1>2. DgTypeOK'
  BY DEF DgInv, DgTypeOK, CheckFits, CheckOnly
<1> QED BY <1>1, <1>2 DEF DgInv

\* The fields of a check whose stage and answer change.
Turned(c, s, r) == [c EXCEPT !.pc = s, !.result = r]
DgResults == {"none", "allowed", "denied"}
SameButFor(d, c, s, r) ==
    /\ d.pc = s /\ d.result = r /\ d.flow = c.flow /\ d.token = c.token
    /\ d.now = c.now /\ d.seen = c.seen /\ d.keys = c.keys /\ d.i = c.i /\ d.parents = c.parents

LEMMA StageFields ==
    ASSUME NEW c \in DgCheckState, NEW s \in DgStages, NEW r \in DgResults
    PROVE  Turned(c, s, r) \in DgCheckState /\ SameButFor(Turned(c, s, r), c, s, r)
  BY DEF DgCheckState, Turned, SameButFor, DgResults

LEMMA Stages == "done" \in DgStages /\ "leafRevoked" \in DgStages /\ "leafKeys" \in DgStages /\ "keys" \in DgStages /\ "guardRevoked" \in DgStages
                /\ "none" \in DgResults /\ "allowed" \in DgResults /\ "denied" \in DgResults
  BY DEF DgStages, DgResults

LEMMA OnlyStage ==
    ASSUME NEW c \in DgCheckState, NEW s
    PROVE  [c EXCEPT !.pc = s] = Turned(c, s, c.result)
  BY DEF DgCheckState, Turned

\* A refused check promises nothing.
LEMMA RefusedFits ==
    ASSUME NEW c, CheckFits(c), NEW d, d = Turned(c, "done", "denied")
    PROVE  CheckFits(d)
<1>1. /\ d \in DgCheckState /\ d.pc = "done" /\ d.result = "denied" /\ d.flow = c.flow /\ d.token = c.token
      /\ d.now = c.now /\ d.seen = c.seen /\ d.keys = c.keys /\ d.i = c.i /\ d.parents = c.parents
  <2>1. c \in DgCheckState
    BY DEF CheckFits
  <2>2. d \in DgCheckState /\ SameButFor(d, c, "done", "denied")
    BY <2>1, Stages, StageFields
  <2> QED BY <2>2 DEF SameButFor
<1>2. Len(d.parents) <= MaxDelegationDepth + 1
  BY <1>1 DEF CheckFits
<1>3. CheckBegun(d) /\ CheckLinks(d) /\ CheckWhole(d)
  BY <1>1 DEF CheckBegun, CheckLinks, CheckWhole, Going, ChainStages, LinkStages
<1>4. CheckRevocations(d) /\ CheckKeys(d)
  BY <1>1 DEF CheckFits, CheckRevocations, CheckKeys, Going, LinkStages
<1> QED BY <1>1, <1>2, <1>3, <1>4 DEF CheckFits

LEMMA RefusalStep == ASSUME DgInv, Answered("denied"), CheckOnly PROVE DgInv'
<1>1. PICK c : c = dgCheck
  OBVIOUS
<1>2. PICK d : d = Turned(c, "done", "denied")
  OBVIOUS
<1>3. CheckFits(d)
  BY <1>1, <1>2, RefusedFits DEF DgInv
<1>4. dgCheck' = d
  BY <1>1, <1>2 DEF Answered, Turned
<1> QED BY <1>3, <1>4, CheckMoves

\* Signatures are made with the keys of the one they are resolved for.
LEMMA SignerIsOwner ==
    ASSUME NEW did, NEW resolved, OwnKeys(did, resolved), NEW key, NEW at, SignedBy(key, resolved, at)
    PROVE  key[1] = did
  BY DEF OwnKeys, SignedBy

LEMMA ResolvedFits ==
    ASSUME DgInv, NEW a \in DgAgents
    PROVE  ResolveKeys(a) \in ResolvedKeys /\ OwnKeys(a, ResolveKeys(a))
<1>1. PICK k : k = dgKeys[a]
  OBVIOUS
<1>2. k.version \in 1..MaxKey /\ k.startedAt \in 0..MaxDgTime
  BY <1>1 DEF DgInv, DgTypeOK
<1>3. PICK older : older = ResolveKeys(a).previous
  OBVIOUS
<1>4. older \subseteq {[key |-> <<a, k.version - 1>>, validBefore |-> k.startedAt]} /\ (k.version > 1 \/ older = {})
  BY <1>1, <1>3 DEF ResolveKeys
<1>5. ResolveKeys(a) = [current |-> <<a, k.version>>, previous |-> older]
  BY <1>1, <1>3 DEF ResolveKeys
<1>6. older \subseteq [key : DgAgents \X (1..MaxKey), validBefore : 0..MaxDgTime] /\ \A p \in older : p.key[1] = a
  <2>1. CASE older = {}
    BY <2>1
  <2>2. CASE k.version > 1
    <3>1. k.version - 1 \in 1..MaxKey
      BY <1>2, <2>2, DgBounds
    <3>2. <<a, k.version - 1>> \in DgAgents \X (1..MaxKey) /\ <<a, k.version - 1>>[1] = a
      BY <3>1
    <3> QED BY <1>2, <1>4, <3>2
  <2> QED BY <1>4, <2>1, <2>2
<1>7. <<a, k.version>> \in DgAgents \X (1..MaxKey) /\ <<a, k.version>>[1] = a
  BY <1>2
<1> QED BY <1>5, <1>6, <1>7 DEF ResolvedKeys, OwnKeys

-----------------------------------------------------------------------------
LEMMA BeginCheckStep ==
    ASSUME DgInv, NEW id \in DgIds, NEW flow \in {"orchestrator", "guard"}, BeginCheck(id, flow)
    PROVE  DgInv'
<1>1. PICK token : token = dgStore[id]
  OBVIOUS
<1>2. token \in DgToken
  BY <1>1 DEF DgInv, DgTypeOK, BeginCheck
<1>3. PICK d : d = dgCheck'
  OBVIOUS
<1>4. PICK stage \in {"done", "sender", "keys", "guardRevoked"} :
        /\ d = [[NoCheck EXCEPT !.flow = flow, !.token = token, !.now = dgClock, !.seen = dgRevoked, !.i = 1]
                  EXCEPT !.pc = stage, !.result = IF stage = "done" THEN "denied" ELSE "none"]
        /\ stage \in {"keys", "guardRevoked"} => dgClock < token.expiresAt
        /\ stage = "sender" => flow = "orchestrator"
        /\ stage = "keys" => flow = "guard" /\ token.chain # <<>> /\ ChainAcceptable(token)
        /\ stage = "guardRevoked" => flow = "guard" /\ token.chain = <<>> /\ VerifyCapabilityToken(token, dgClock)
  BY <1>1, <1>3 DEF BeginCheck, Fresh
<1>5. d = [pc |-> stage, flow |-> flow, token |-> token, now |-> dgClock, seen |-> dgRevoked,
           keys |-> [a \in DgAgents |-> NotResolved], i |-> 1, parents |-> <<>>,
           result |-> IF stage = "done" THEN "denied" ELSE "none"]
  BY <1>4 DEF NoCheck
<1>6. /\ dgClock \in 0..MaxDgTime /\ dgRevoked \subseteq DgIds /\ 1 \in 0..(MaxDelegationDepth + 1)
      /\ [a \in DgAgents |-> NotResolved] \in [DgAgents -> ResolvedKeys \cup {NotResolved}]
      /\ <<>> \in Seq(DgToken) /\ Len(<<>>) <= MaxDelegationDepth + 1
  BY DgBounds DEF DgInv, DgTypeOK
<1>7. d \in DgCheckState
  BY <1>2, <1>5, <1>6 DEF DgCheckState, DgStages
<1>8. /\ d.pc = stage /\ d.flow = flow /\ d.token = token /\ d.now = dgClock /\ d.seen = dgRevoked
      /\ d.keys = [a \in DgAgents |-> NotResolved] /\ d.i = 1 /\ d.parents = <<>>
      /\ d.result = IF stage = "done" THEN "denied" ELSE "none"
  BY <1>5
<1>9. CheckBegun(d) /\ CheckRevocations(d) /\ CheckKeys(d)
  BY <1>2, <1>4, <1>8 DEF CheckBegun, CheckRevocations, CheckKeys, Going, LinkStages
<1>10. CheckLinks(d)
  <2>1. stage = "keys" => 1 \in 1..Len(token.chain) /\ Len(token.chain) <= MaxDelegationDepth
    BY <1>2, <1>4, TokenFields, EmptySeq DEF ChainAcceptable
  <2> QED BY <1>4, <1>8, <2>1 DEF CheckLinks, ChainStages, LinkStages
<1>11. CheckWhole(d)
  <2>1. CASE stage = "guardRevoked"
    <3>1. token.chain = <<>> /\ Len(token.chain) = 0 /\ Len(d.parents) = 0 /\ token.key = <<token.issuer, 0>>
      BY <1>4, <1>8, <2>1 DEF VerifyCapabilityToken
    <3> QED BY <1>8, <3>1 DEF CheckWhole, HangsTogether
  <2>2. CASE stage # "guardRevoked"
    BY <1>8, <2>2 DEF CheckWhole
  <2> QED BY <2>1, <2>2
<1>12. Len(d.parents) <= MaxDelegationDepth + 1
  BY <1>6, <1>8
<1>13. CheckFits(d)
  BY <1>7, <1>9, <1>10, <1>11, <1>12 DEF CheckFits
<1>14. CheckOnly
  BY DEF BeginCheck, CheckOnly
<1> QED BY <1>3, <1>13, <1>14, CheckMoves

LEMMA SenderBindingStep == ASSUME DgInv, SenderBinding PROVE DgInv'
<1>1. PICK c : c = dgCheck
  OBVIOUS
<1>2. CheckFits(c) /\ c \in DgCheckState /\ c.pc = "sender" /\ CheckOnly
  BY <1>1 DEF DgInv, SenderBinding, CheckFits
<1>3. c.token \in DgToken /\ c.flow = "orchestrator" /\ c.i = 1 /\ c.parents = <<>> /\ c.result = "none"
  BY <1>2 DEF CheckFits, CheckBegun, Going
<1>4. CASE Answered("denied")
  BY <1>2, <1>4, RefusalStep
<1>5. CASE Fresh(c.token, dgClock) /\ dgCheck' = [c EXCEPT !.pc = "leafRevoked", !.now = dgClock]
  <2>1. PICK d : d = dgCheck'
    OBVIOUS
  <2>2. dgClock \in 0..MaxDgTime /\ dgClock < c.token.expiresAt
    BY <1>5 DEF DgInv, DgTypeOK, Fresh
  <2>3. /\ d \in DgCheckState /\ d.pc = "leafRevoked" /\ d.result = c.result /\ d.flow = c.flow /\ d.token = c.token
        /\ d.now = dgClock /\ d.seen = c.seen /\ d.keys = c.keys /\ d.i = c.i /\ d.parents = c.parents
    BY <1>2, <1>5, <2>1, <2>2 DEF DgCheckState, DgStages
  <2>4. CheckBegun(d)
    BY <1>3, <2>2, <2>3 DEF CheckBegun, Going
  <2>5. CheckRevocations(d) /\ CheckKeys(d) /\ CheckLinks(d) /\ CheckWhole(d)
    BY <1>2, <1>3, <2>3 DEF CheckFits, CheckRevocations, CheckKeys, CheckLinks, CheckWhole, ChainStages, LinkStages
  <2>6. CheckFits(d)
    BY <1>2, <2>3, <2>4, <2>5 DEF CheckFits
  <2> QED BY <1>2, <2>1, <2>6, CheckMoves
<1> QED BY <1>1, <1>4, <1>5 DEF SenderBinding

LEMMA LeafRevocationStep == ASSUME DgInv, LeafRevocation PROVE DgInv'
<1>1. PICK c : c = dgCheck
  OBVIOUS
<1>2. CheckFits(c) /\ c.pc = "leafRevoked" /\ CheckOnly
  BY <1>1 DEF DgInv, LeafRevocation
<1>3. CASE c.token.id \in dgRevoked
  BY <1>1, <1>2, <1>3, RefusalStep DEF LeafRevocation
<1>4. CASE c.token.id \notin dgRevoked
  <2>1. PICK d : d = dgCheck'
    OBVIOUS
  <2>2. d = Turned(c, "leafKeys", c.result) /\ c.result = "none"
    BY <1>1, <1>2, <1>4, <2>1, OnlyStage DEF LeafRevocation, Go, CheckFits, CheckBegun
  <2>3. /\ d \in DgCheckState /\ d.pc = "leafKeys" /\ d.result = "none" /\ d.flow = c.flow /\ d.token = c.token
        /\ d.now = c.now /\ d.seen = c.seen /\ d.keys = c.keys /\ d.i = c.i /\ d.parents = c.parents
    <3>1. c \in DgCheckState
      BY <1>2 DEF CheckFits
    <3>2. d \in DgCheckState /\ SameButFor(d, c, "leafKeys", "none")
      BY <2>2, <3>1, Stages, StageFields
    <3> QED BY <3>2 DEF SameButFor
  <2>4. CheckBegun(d) /\ CheckRevocations(d) /\ CheckKeys(d) /\ CheckLinks(d) /\ CheckWhole(d)
    <3>1. CheckBegun(d)
      BY <1>2, <2>3 DEF CheckFits, CheckBegun, Going
    <3>2. CheckRevocations(d) /\ CheckKeys(d) /\ CheckLinks(d) /\ CheckWhole(d)
      BY <1>2, <1>4, <2>3 DEF CheckFits, CheckRevocations, CheckKeys, CheckLinks, CheckWhole, ChainStages, LinkStages
    <3> QED BY <3>1, <3>2
  <2>5. CheckFits(d)
    BY <1>2, <2>3, <2>4 DEF CheckFits
  <2> QED BY <1>2, <2>1, <2>5, CheckMoves
<1> QED BY <1>3, <1>4

LEMMA LeafSignatureStep == ASSUME DgInv, LeafSignature PROVE DgInv'
<1>1. PICK c : c = dgCheck
  OBVIOUS
<1>2. CheckFits(c) /\ c.pc = "leafKeys" /\ CheckOnly
  BY <1>1 DEF DgInv, LeafSignature
<1>3. /\ c.token \in DgToken /\ c.flow = "orchestrator" /\ c.now < c.token.expiresAt /\ c.i = 1 /\ c.parents = <<>>
      /\ c.result = "none" /\ c.token.id \notin c.seen
  BY <1>2 DEF CheckFits, CheckBegun, CheckRevocations, Going
<1>4. CASE Answered("denied")
  BY <1>2, <1>4, RefusalStep
<1>5. CASE Answered("allowed") /\ c.token.chain = <<>> /\ VerifyCapabilityToken(c.token, c.now)
  <2>1. PICK d : d = dgCheck'
    OBVIOUS
  <2>2. d = Turned(c, "done", "allowed")
    BY <1>1, <1>5, <2>1 DEF Answered, Turned
  <2>3. /\ d \in DgCheckState /\ d.pc = "done" /\ d.result = "allowed" /\ d.flow = c.flow /\ d.token = c.token
        /\ d.now = c.now /\ d.seen = c.seen /\ d.keys = c.keys /\ d.i = c.i /\ d.parents = c.parents
    <3>1. c \in DgCheckState
      BY <1>2 DEF CheckFits
    <3>2. d \in DgCheckState /\ SameButFor(d, c, "done", "allowed")
      BY <2>2, <3>1, Stages, StageFields
    <3> QED BY <3>2 DEF SameButFor
  <2>4. CheckBegun(d) /\ CheckRevocations(d) /\ CheckKeys(d) /\ CheckLinks(d)
    BY <1>2, <1>3, <2>3 DEF CheckFits, CheckBegun, CheckRevocations, CheckKeys, CheckLinks, Going, ChainStages, LinkStages
  <2>5. CheckWhole(d)
    <3>1. Len(c.token.chain) = 0 /\ Len(d.parents) = 0 /\ c.token.key = <<c.token.issuer, 0>>
      BY <1>3, <1>5, <2>3 DEF VerifyCapabilityToken
    <3> QED BY <1>5, <2>3, <3>1 DEF CheckWhole, HangsTogether
  <2>6. CheckFits(d)
    BY <1>2, <2>3, <2>4, <2>5 DEF CheckFits
  <2> QED BY <1>2, <2>1, <2>6, CheckMoves
<1>6. CASE Go("keys") /\ c.token.chain # <<>> /\ ChainAcceptable(c.token)
  <2>1. PICK d : d = dgCheck'
    OBVIOUS
  <2>2. d = Turned(c, "keys", c.result)
    BY <1>1, <1>2, <1>6, <2>1, OnlyStage DEF Go, CheckFits
  <2>3. /\ d \in DgCheckState /\ d.pc = "keys" /\ d.result = "none" /\ d.flow = c.flow /\ d.token = c.token
        /\ d.now = c.now /\ d.seen = c.seen /\ d.keys = c.keys /\ d.i = c.i /\ d.parents = c.parents
    <3>1. c \in DgCheckState
      BY <1>2 DEF CheckFits
    <3>2. d \in DgCheckState /\ SameButFor(d, c, "keys", "none")
      BY <1>3, <2>2, <3>1, Stages, StageFields
    <3> QED BY <3>2 DEF SameButFor
  <2>4. CheckBegun(d) /\ CheckRevocations(d) /\ CheckKeys(d) /\ CheckWhole(d)
    BY <1>2, <1>3, <2>3 DEF CheckFits, CheckBegun, CheckRevocations, CheckKeys, CheckWhole, Going, LinkStages
  <2>5. CheckLinks(d)
    <3>1. 1 \in 1..Len(c.token.chain) /\ Len(c.token.chain) <= MaxDelegationDepth
      BY <1>3, <1>6, TokenFields, EmptySeq DEF ChainAcceptable
    <3> QED BY <1>3, <2>3, <3>1 DEF CheckLinks, ChainStages, LinkStages
  <2>6. CheckFits(d)
    BY <1>2, <2>3, <2>4, <2>5 DEF CheckFits
  <2> QED BY <1>2, <2>1, <2>6, CheckMoves
<1> QED BY <1>1, <1>4, <1>5, <1>6 DEF LeafSignature

LEMMA GuardRevocationStep == ASSUME DgInv, GuardRevocation PROVE DgInv'
<1>1. PICK c : c = dgCheck
  OBVIOUS
<1>2. CheckFits(c) /\ c.pc = "guardRevoked" /\ CheckOnly
  BY <1>1 DEF DgInv, GuardRevocation
<1>3. CASE c.token.id \in dgRevoked
  BY <1>1, <1>2, <1>3, RefusalStep DEF GuardRevocation
<1>4. CASE c.token.id \notin dgRevoked
  <2>1. PICK d : d = dgCheck'
    OBVIOUS
  <2>2. d = Turned(c, "done", "allowed")
    BY <1>1, <1>4, <2>1 DEF GuardRevocation, Answered, Turned
  <2>3. /\ d \in DgCheckState /\ d.pc = "done" /\ d.result = "allowed" /\ d.flow = c.flow /\ d.token = c.token
        /\ d.now = c.now /\ d.seen = c.seen /\ d.keys = c.keys /\ d.i = c.i /\ d.parents = c.parents
    <3>1. c \in DgCheckState
      BY <1>2 DEF CheckFits
    <3>2. d \in DgCheckState /\ SameButFor(d, c, "done", "allowed")
      BY <2>2, <3>1, Stages, StageFields
    <3> QED BY <3>2 DEF SameButFor
  <2>4. CheckBegun(d) /\ CheckKeys(d) /\ CheckLinks(d)
    BY <1>2, <2>3 DEF CheckFits, CheckBegun, CheckKeys, CheckLinks, Going, ChainStages, LinkStages
  <2>5. CheckRevocations(d)
    BY <1>2, <1>4, <2>3 DEF CheckFits, CheckRevocations
  <2>6. CheckWhole(d)
    <3>1. HangsTogether(c)
      BY <1>2 DEF CheckFits, CheckWhole
    <3>2. \A k \in 1..Len(c.parents) : LinkStands(c, k) <=> LinkStands(d, k)
      BY <2>3 DEF LinkStands
    <3> QED BY <2>3, <3>1, <3>2 DEF CheckWhole, HangsTogether
  <2>7. CheckFits(d)
    BY <1>2, <2>3, <2>4, <2>5, <2>6 DEF CheckFits
  <2> QED BY <1>2, <2>1, <2>7, CheckMoves
<1> QED BY <1>3, <1>4

LEMMA ResolveDelegatorKeyStep == ASSUME DgInv, NEW did \in DgAgents, ResolveDelegatorKey(did) PROVE DgInv'
<1>1. PICK c : c = dgCheck
  OBVIOUS
<1>2. CheckFits(c) /\ c \in DgCheckState /\ c.pc = "keys" /\ CheckOnly
  BY <1>1 DEF DgInv, ResolveDelegatorKey, CheckFits
<1>3. /\ c.token \in DgToken /\ c.flow \in {"orchestrator", "guard"} /\ c.now < c.token.expiresAt /\ c.result = "none"
      /\ c.i = 1 /\ c.parents = <<>> /\ 1 \in 1..Len(c.token.chain) /\ Len(c.token.chain) <= MaxDelegationDepth
  BY <1>2 DEF CheckFits, CheckBegun, CheckLinks, Going, ChainStages
<1>4. PICK answer : answer = ResolveKeys(did)
  OBVIOUS
<1>5. answer \in ResolvedKeys /\ OwnKeys(did, answer)
  BY <1>4, ResolvedFits
<1>6. PICK keys : keys = [c.keys EXCEPT ![did] = answer]
  OBVIOUS
<1>7. /\ keys \in [DgAgents -> ResolvedKeys \cup {NotResolved}] /\ keys[did] = answer
      /\ \A a \in DgAgents : a # did => keys[a] = c.keys[a]
  BY <1>2, <1>5, <1>6, CheckFields
<1>8. PICK s : s = IF \A a \in Delegators : keys[a] # NotResolved THEN "link" ELSE "keys"
  OBVIOUS
<1>9. PICK d : d = dgCheck'
  OBVIOUS
<1>10. d = [c EXCEPT !.keys = keys, !.pc = s]
  BY <1>1, <1>4, <1>6, <1>8, <1>9 DEF ResolveDelegatorKey
<1>11. s \in DgStages /\ s \in {"link", "keys"}
  BY <1>8 DEF DgStages
<1>12. /\ d \in DgCheckState /\ d.pc = s /\ d.result = c.result /\ d.flow = c.flow /\ d.token = c.token
       /\ d.now = c.now /\ d.seen = c.seen /\ d.keys = keys /\ d.i = c.i /\ d.parents = c.parents
  BY <1>2, <1>7, <1>10, <1>11 DEF DgCheckState
<1>13. CheckBegun(d) /\ CheckRevocations(d)
  BY <1>2, <1>3, <1>11, <1>12 DEF CheckFits, CheckBegun, CheckRevocations, Going
<1>14. CheckKeys(d)
  <2>1. \A a \in DgAgents : d.keys[a] # NotResolved => OwnKeys(a, d.keys[a])
    BY <1>2, <1>5, <1>7, <1>12 DEF CheckFits, CheckKeys
  <2>2. s = "link" => \A k \in 1..Len(c.token.chain) : keys[c.token.chain[k].delegator] # NotResolved
    BY <1>1, <1>8 DEF Delegators
  <2> QED BY <1>11, <1>12, <2>1, <2>2 DEF CheckKeys, LinkStages
<1>15. CheckLinks(d)
  <2>1. Len(d.parents) = 0
    BY <1>3, <1>12
  <2>2. \A k \in 1..Len(d.token.chain) : ~(k < d.i)
    BY <1>3, <1>12
  <2>3. d.i - 1 = 0
    BY <1>3, <1>12
  <2> QED BY <1>3, <1>11, <1>12, <2>1, <2>2, <2>3 DEF CheckLinks, LinkStages
<1>16. CheckWhole(d) /\ Len(d.parents) <= MaxDelegationDepth + 1
  BY <1>2, <1>3, <1>11, <1>12 DEF CheckWhole, CheckFits
<1>17. CheckFits(d)
  BY <1>12, <1>13, <1>14, <1>15, <1>16 DEF CheckFits
<1> QED BY <1>2, <1>9, <1>17, CheckMoves

\* What FetchParent compares is what is kept of the link.
LEMMA HeldLinkFits ==
    ASSUME NEW c, CheckFits(c), c.pc = "link", NEW parent \in DgToken, LinkHolds(c, parent),
           NEW parents, parents = Append(c.parents, parent)
    PROVE  /\ parents \in Seq(DgToken) /\ Len(parents) = c.i
           /\ \A k \in 1..Len(parents) : LinkFits(c.token, parents, k)
<1>1. /\ c \in DgCheckState /\ c.token \in DgToken /\ c.i \in 1..Len(c.token.chain) /\ Len(c.parents) = c.i - 1
      /\ \A k \in 1..Len(c.parents) : LinkFits(c.token, c.parents, k)
  BY DEF CheckFits, CheckBegun, CheckLinks, Going, ChainStages, LinkStages
<1>2. c.parents \in Seq(DgToken) /\ c.i \in Nat
  BY <1>1, CheckFields
<1>3. /\ parents \in Seq(DgToken) /\ Len(parents) = c.i /\ parents[c.i] = parent
      /\ \A k \in 1..Len(c.parents) : parents[k] = c.parents[k]
  BY <1>1, <1>2
<1>4. ASSUME NEW k \in 1..Len(c.parents) PROVE LinkFits(c.token, parents, k)
  <2>1. LinkFits(c.token, c.parents, k) /\ parents[k] = c.parents[k]
    BY <1>1, <1>3
  <2> QED BY <2>1 DEF LinkFits
<1>5. LinkFits(c.token, parents, c.i)
  <2>1. PICK proof : proof = c.token.chain[c.i]
    OBVIOUS
  <2>2. /\ proof.delegator = parent.issuedTo
        /\ parent.issuer = c.token.issuer /\ parent.principal = c.token.principal
        /\ proof.parentCapabilities = parent.capabilities
        /\ proof.parentExpiresAt = parent.expiresAt
        /\ ValidateAttenuation(proof.parentCapabilities, proof.attenuated)
        /\ c.i < Len(c.token.chain) => proof.attenuated = c.token.chain[c.i + 1].parentCapabilities
        /\ ParentVerified(c, parent)
    BY <2>1 DEF LinkHolds, ProofMatchesParent
  <2>3. c.i = 1 => parent.chain = <<>> /\ parent.key = <<parent.issuer, 0>>
    BY <2>2 DEF ParentVerified, VerifyCapabilityToken
  <2>4. ASSUME c.i > 1 PROVE parent.key[1] = c.token.chain[c.i - 1].delegator
    <3>1. PICK above : above = c.token.chain[c.i - 1].delegator
      OBVIOUS
    <3>2. c.i - 1 \in 1..Len(c.token.chain)
      BY <1>1, <1>2, <2>4, TokenFields
    <3>3. above \in DgAgents
      BY <1>1, <3>1, <3>2, TokenFields, ProofFields
    <3>4. c.keys[above] # NotResolved
      BY <3>1, <3>2 DEF CheckFits, CheckKeys, LinkStages
    <3>5. OwnKeys(above, c.keys[above])
      BY <3>3, <3>4 DEF CheckFits, CheckKeys
    <3>6. SignedBy(parent.key, c.keys[above], parent.issuedAt)
      BY <1>2, <2>2, <2>4, <3>1 DEF ParentVerified
    <3>7. parent.key[1] = above
      BY <3>5, <3>6, SignerIsOwner
    <3> QED BY <3>1, <3>7
  <2> QED BY <1>3, <2>1, <2>2, <2>3, <2>4 DEF LinkFits
<1>6. ASSUME NEW k \in 1..Len(parents) PROVE LinkFits(c.token, parents, k)
  <2>1. k \in 1..Len(c.parents) \/ k = c.i
    BY <1>1, <1>2, <1>3
  <2> QED BY <1>4, <1>5, <2>1
<1> QED BY <1>3, <1>6

LEMMA FetchParentStep == ASSUME DgInv, FetchParent PROVE DgInv'
<1>1. PICK c : c = dgCheck
  OBVIOUS
<1>2. CheckFits(c) /\ c \in DgCheckState /\ c.pc = "link" /\ CheckOnly
  BY <1>1 DEF DgInv, FetchParent, CheckFits
<1>3. /\ c.token \in DgToken /\ c.result = "none" /\ c.i \in 1..Len(c.token.chain)
      /\ Len(c.token.chain) <= MaxDelegationDepth
  BY <1>2 DEF CheckFits, CheckBegun, CheckLinks, Going, ChainStages
<1>4. PICK parent : parent = dgStore[c.token.chain[c.i].parentTokenId]
  OBVIOUS
<1>5. CASE ~ LinkHolds(c, parent)
  BY <1>1, <1>2, <1>4, <1>5, RefusalStep DEF FetchParent
<1>6. CASE LinkHolds(c, parent)
  <2>1. parent \in DgToken
    <3>1. c.token.chain[c.i].parentTokenId \in DgIds
      BY <1>3, TokenFields, ProofFields
    <3>2. parent # NoToken
      BY <1>6 DEF LinkHolds
    <3>3. parent \in DgToken \cup {NoToken}
      BY <1>4, <3>1 DEF DgInv, DgTypeOK
    <3> QED BY <3>2, <3>3
  <2>2. PICK parents : parents = Append(c.parents, parent)
    OBVIOUS
  <2>3. PICK d : d = dgCheck'
    OBVIOUS
  <2>4. d = [c EXCEPT !.pc = "parentRevoked", !.parents = parents]
    BY <1>1, <1>4, <1>6, <2>2, <2>3 DEF FetchParent
  <2>5. /\ parents \in Seq(DgToken) /\ Len(parents) = c.i
        /\ \A k \in 1..Len(parents) : LinkFits(c.token, parents, k)
    BY <1>2, <1>6, <2>1, <2>2, HeldLinkFits
  <2>6. /\ d \in DgCheckState /\ d.pc = "parentRevoked" /\ d.result = c.result /\ d.flow = c.flow /\ d.token = c.token
        /\ d.now = c.now /\ d.seen = c.seen /\ d.keys = c.keys /\ d.i = c.i /\ d.parents = parents
    BY <1>2, <2>4, <2>5 DEF DgCheckState, DgStages
  <2>7. CheckBegun(d) /\ CheckRevocations(d) /\ CheckKeys(d) /\ CheckWhole(d)
    BY <1>2, <1>3, <2>6 DEF CheckFits, CheckBegun, CheckRevocations, CheckKeys, CheckWhole, Going, LinkStages
  <2>8. CheckLinks(d)
    <3>1. \A k \in 1..Len(c.token.chain) : k < c.i => LinkStands(c, k)
      BY <1>2 DEF CheckFits, CheckLinks, LinkStages
    <3>2. \A k \in 1..Len(c.token.chain) : LinkStands(c, k) => LinkStands(d, k)
      BY <2>6 DEF LinkStands
    <3> QED BY <1>3, <2>5, <2>6, <3>1, <3>2 DEF CheckLinks
  <2>9. Len(d.parents) <= MaxDelegationDepth + 1
    BY <1>2, <1>3, <2>5, <2>6, DgBounds, TokenFields, CheckFields
  <2>10. CheckFits(d)
    BY <2>6, <2>7, <2>8, <2>9 DEF CheckFits
  <2> QED BY <1>2, <2>3, <2>10, CheckMoves
<1> QED BY <1>5, <1>6

LEMMA CheckParentStep == ASSUME DgInv, CheckParent PROVE DgInv'
<1>1. PICK c : c = dgCheck
  OBVIOUS
<1>2. CheckFits(c) /\ c \in DgCheckState /\ c.pc = "parentRevoked" /\ CheckOnly
  BY <1>1 DEF DgInv, CheckParent, CheckFits
<1>3. /\ c.token \in DgToken /\ c.flow \in {"orchestrator", "guard"} /\ c.now < c.token.expiresAt /\ c.result = "none"
      /\ c.i \in 1..Len(c.token.chain) /\ Len(c.token.chain) <= MaxDelegationDepth /\ Len(c.parents) = c.i
      /\ c.flow = "orchestrator" => c.token.id \notin c.seen
      /\ c.seen \subseteq dgRevoked
  BY <1>2 DEF CheckFits, CheckBegun, CheckRevocations, CheckLinks, Going, ChainStages
<1>4. /\ \A k \in 1..Len(c.parents) : LinkFits(c.token, c.parents, k)
      /\ \A k \in 1..Len(c.token.chain) : k < c.i => LinkStands(c, k)
      /\ \A k \in 1..Len(c.token.chain) : c.keys[c.token.chain[k].delegator] # NotResolved
  BY <1>2 DEF CheckFits, CheckLinks, CheckKeys, LinkStages
<1>5. Len(c.token.chain) \in Nat /\ c.i \in Nat
  BY <1>2, <1>3, TokenFields, CheckFields
<1>6. CASE Answered("denied")
  BY <1>2, <1>6, RefusalStep
<1>7. CASE ~ Answered("denied")
  <2>1. LinkStands(c, c.i)
    <3>1. ~ ParentRevoked(c) /\ LinkUnexpired(c)
      BY <1>1, <1>7 DEF CheckParent
    <3>2. c.token.chain[c.i].parentTokenId \notin c.seen
      BY <1>3, <3>1 DEF ParentRevoked
    <3>3. PICK proof : proof = c.token.chain[c.i]
      OBVIOUS
    <3>4. proof.parentExpiresAt \in Nat /\ c.now \in Nat
      BY <1>2, <1>3, <3>3, TokenFields, ProofFields, CheckFields
    <3>5. c.token.expiresAt <= proof.parentExpiresAt /\ c.now < proof.parentExpiresAt
      BY <3>1, <3>3, <3>4 DEF LinkUnexpired
    <3> QED BY <3>2, <3>3, <3>5 DEF LinkStands
  <2>2. PICK d : d = dgCheck'
    OBVIOUS
  <2>3. CASE c.i < Len(c.token.chain)
    <3>1. d = [c EXCEPT !.pc = "link", !.i = c.i + 1]
      BY <1>1, <1>7, <2>2, <2>3 DEF CheckParent
    <3>2. c.i + 1 \in 0..(MaxDelegationDepth + 1) /\ c.i + 1 \in 1..Len(c.token.chain) /\ c.i = (c.i + 1) - 1
      BY <1>3, <1>5, <2>3, DgBounds
    <3>3. /\ d \in DgCheckState /\ d.pc = "link" /\ d.result = c.result /\ d.flow = c.flow /\ d.token = c.token
          /\ d.now = c.now /\ d.seen = c.seen /\ d.keys = c.keys /\ d.i = c.i + 1 /\ d.parents = c.parents
      BY <1>2, <3>1, <3>2 DEF DgCheckState, DgStages
    <3>4. CheckBegun(d) /\ CheckRevocations(d) /\ CheckKeys(d) /\ CheckWhole(d)
      BY <1>2, <1>3, <3>3 DEF CheckFits, CheckBegun, CheckRevocations, CheckKeys, CheckWhole, Going, LinkStages
    <3>5. \A k \in 1..Len(d.token.chain) : k < d.i => LinkStands(d, k)
      <4>1. \A k \in 1..Len(c.token.chain) : LinkStands(c, k) => LinkStands(d, k)
        BY <3>3 DEF LinkStands
      <4>2. \A k \in 1..Len(c.token.chain) : k < c.i + 1 => k < c.i \/ k = c.i
        BY <1>5
      <4> QED BY <1>4, <2>1, <3>3, <4>1, <4>2
    <3>6. CheckLinks(d)
      BY <1>3, <1>4, <3>2, <3>3, <3>5 DEF CheckLinks
    <3>7. CheckFits(d)
      BY <1>2, <3>3, <3>4, <3>6 DEF CheckFits
    <3> QED BY <1>2, <2>2, <3>7, CheckMoves
  <2>4. CASE ~(c.i < Len(c.token.chain))
    <3>1. c.i = Len(c.token.chain) /\ c.i > 0
      BY <1>3, <1>5, <2>4
    <3>2. LeafBound(c)
      BY <1>1, <1>7, <2>4 DEF CheckParent
    <3>3. HangsTogether(c)
      <4>1. \A k \in 1..Len(c.parents) : LinkFits(c.token, c.parents, k) /\ LinkStands(c, k)
        <5>1. \A k \in 1..Len(c.parents) : k \in 1..Len(c.token.chain) /\ (k < c.i \/ k = c.i)
          BY <1>3, <1>5, <3>1
        <5> QED BY <1>4, <2>1, <5>1
      <4>2. PICK last : last = c.token.chain[Len(c.token.chain)]
        OBVIOUS
      <4>3. last \in DgProof /\ last.delegator \in DgAgents
        BY <1>3, <3>1, <4>2, TokenFields, ProofFields
      <4>4. OwnKeys(last.delegator, c.keys[last.delegator])
        <5>1. c.keys[last.delegator] # NotResolved
          BY <1>3, <1>4, <3>1, <4>2
        <5> QED BY <1>2, <4>3, <5>1 DEF CheckFits, CheckKeys
      <4>5. /\ c.token.issuer = c.token.principal
            /\ c.token.capabilities = last.attenuated /\ SignedBy(c.token.key, c.keys[last.delegator], c.token.issuedAt)
        BY <3>2, <4>2 DEF LeafBound
      <4>6. c.token.key[1] = last.delegator
        BY <4>4, <4>5, SignerIsOwner
      <4> QED BY <1>3, <1>5, <3>1, <4>1, <4>2, <4>5, <4>6 DEF HangsTogether
    <3>4. PICK s \in DgStages, r \in DgResults :
            /\ d = Turned(c, s, r)
            /\ (s = "guardRevoked" /\ r = "none" /\ c.flow = "guard") \/ (s = "done" /\ r = "allowed" /\ c.flow # "guard")
      <4>1. CASE c.flow = "guard"
        <5>1. d = Turned(c, "guardRevoked", c.result)
          BY <1>1, <1>2, <1>7, <2>2, <2>4, <4>1, OnlyStage DEF CheckParent, Go
        <5> QED BY <1>3, <4>1, <5>1, Stages
      <4>2. CASE c.flow # "guard"
        <5>1. d = Turned(c, "done", "allowed")
          BY <1>1, <1>7, <2>2, <2>4, <4>2 DEF CheckParent, Answered, Turned
        <5> QED BY <4>2, <5>1, Stages
      <4> QED BY <4>1, <4>2
    <3>5. d \in DgCheckState /\ SameButFor(d, c, s, r)
      BY <1>2, <3>4, StageFields
    <3>6. /\ d.pc = s /\ d.result = r /\ d.flow = c.flow /\ d.token = c.token
          /\ d.now = c.now /\ d.seen = c.seen /\ d.keys = c.keys /\ d.i = c.i /\ d.parents = c.parents
      BY <3>5 DEF SameButFor
    <3>7. CheckBegun(d) /\ CheckRevocations(d)
      BY <1>3, <3>4, <3>6 DEF CheckBegun, CheckRevocations, Going
    <3>8. CheckKeys(d) /\ CheckLinks(d)
      BY <1>2, <3>4, <3>6 DEF CheckFits, CheckKeys, CheckLinks, ChainStages, LinkStages
    <3>9. CheckWhole(d)
      <4>1. \A k \in 1..Len(c.parents) : LinkStands(c, k) <=> LinkStands(d, k)
        BY <3>6 DEF LinkStands
      <4> QED BY <3>3, <3>6, <4>1 DEF CheckWhole, HangsTogether
    <3>10. CheckFits(d)
      BY <1>2, <3>5, <3>6, <3>7, <3>8, <3>9 DEF CheckFits
    <3> QED BY <1>2, <2>2, <3>10, CheckMoves
  <2> QED BY <2>3, <2>4
<1> QED BY <1>6, <1>7

LEMMA DgStep == ASSUME DgInv, [DgNext]_dgVars PROVE DgInv'
<1>1. CASE UNCHANGED dgVars
  BY <1>1, OthersMove DEF dgVars, DgInv, DgTypeOK
<1>2. CASE \E p \in DgIssuers, to \in DgHolders, g \in DgGrants, e \in 1..MaxDgTime : IssueRoot(p, to, g, e)
  BY <1>2, IssueRootStep
<1>3. ASSUME NEW id \in DgIds, NEW to \in DgAgents, NEW g \in DgGrants, NEW e \in 1..MaxDgTime, dgStore[id] # NoToken,
             \/ Delegate(dgStore[id], to, g, e)
             \/ \E wrong \in {"attenuation", "snapshot", "leaf", "expiry", "snapshotExpiry",
                              "holder", "prefix"} : DelegateElsewhere(dgStore[id], to, g, e, wrong)
      PROVE  DgInv'
  <2>1. PICK parent : parent = dgStore[id]
    OBVIOUS
  <2>2. parent \in DgToken
    BY <1>3, <2>1 DEF DgInv, DgTypeOK
  <2>3. CASE Delegate(parent, to, g, e)
    BY <2>2, <2>3, DelegateStep
  <2>4. CASE \E wrong \in {"attenuation", "snapshot", "leaf", "expiry", "snapshotExpiry",
                           "holder", "prefix"} : DelegateElsewhere(parent, to, g, e, wrong)
    BY <2>2, <2>4, DelegateElsewhereStep
  <2> QED BY <1>3, <2>1, <2>3, <2>4
<1>4. CASE (\E id \in DgIds : Remove(id) \/ RevokeToken(id)) \/ (\E a \in DgAgents : RotateAgentKey(a)) \/ DgTick
  BY <1>4, EventSteps
<1>5. CASE \E id \in DgIds, flow \in {"orchestrator", "guard"} : BeginCheck(id, flow)
  BY <1>5, BeginCheckStep
<1>12. CASE \E p \in DgIssuers, q \in DgPrincipals, to \in DgHolders, g \in DgGrants : IssueElsewhere(p, q, to, g)
  BY <1>12, IssueElsewhereStep
<1>13. CASE SenderBinding
  BY <1>13, SenderBindingStep
<1>6. CASE LeafRevocation
  BY <1>6, LeafRevocationStep
<1>7. CASE LeafSignature
  BY <1>7, LeafSignatureStep
<1>8. CASE \E a \in DgAgents : ResolveDelegatorKey(a)
  BY <1>8, ResolveDelegatorKeyStep
<1>9. CASE FetchParent
  BY <1>9, FetchParentStep
<1>10. CASE CheckParent
  BY <1>10, CheckParentStep
<1>11. CASE GuardRevocation
  BY <1>11, GuardRevocationStep
<1> QED BY <1>1, <1>2, <1>3, <1>4, <1>5, <1>6, <1>7, <1>8, <1>9, <1>10, <1>11, <1>12, <1>13 DEF DgNext

\* A token that was let through hangs together, and so do the promises about it.
LEMMA DgConcludes == DgInv => DgTypeOK /\ NothingRevokedOrExpired /\ AuthorityComesFromAbove
<1> SUFFICES ASSUME DgInv PROVE DgTypeOK /\ NothingRevokedOrExpired /\ AuthorityComesFromAbove
  OBVIOUS
<1>1. PICK c : c = dgCheck
  OBVIOUS
<1>2. CheckFits(c) /\ c \in DgCheckState
  BY <1>1 DEF DgInv, CheckFits
<1>3. SUFFICES ASSUME c.result = "allowed" PROVE NothingRevokedOrExpired /\ AuthorityComesFromAbove
  BY <1>1 DEF DgInv, NothingRevokedOrExpired, AuthorityComesFromAbove, CheckPassed
<1>4. c.token \in DgToken /\ c.now < c.token.expiresAt /\ c.token.id \notin c.seen /\ HangsTogether(c)
  BY <1>2, <1>3 DEF CheckFits, CheckBegun, CheckRevocations, CheckWhole, Going
<1>5. PICK n \in Nat : n = Len(c.token.chain) /\ n = Len(c.parents)
  BY <1>4, TokenFields DEF HangsTogether
<1>6. \A k \in 1..n : LinkFits(c.token, c.parents, k) /\ LinkStands(c, k)
  BY <1>4, <1>5 DEF HangsTogether
<1>7. c.parents \in Seq(DgToken) /\ \A k \in 1..n : c.parents[k] \in DgToken /\ c.token.chain[k] \in DgProof
  BY <1>2, <1>4, <1>5, CheckFields, TokenFields
<1>8. \A k \in 1..n : c.token.chain[k].parentTokenId \notin c.seen
  BY <1>6 DEF LinkStands
<1>9. \A k \in 1..n : c.now < c.parents[k].expiresAt /\ c.token.expiresAt <= c.parents[k].expiresAt
  BY <1>6 DEF LinkStands, LinkFits
<1>10. NothingRevokedOrExpired
  BY <1>1, <1>4, <1>5, <1>8, <1>9 DEF NothingRevokedOrExpired
<1>11. PICK all : all = Append(c.parents, c.token)
  OBVIOUS
<1>12. all[n + 1] = c.token /\ \A k \in 1..n : all[k] = c.parents[k]
  BY <1>4, <1>5, <1>7, <1>11
<1>13. /\ all[1].chain = <<>> /\ all[1].key = <<all[1].issuer, 0>>
       /\ c.parents # <<>> => all[1].issuer = all[1].principal
  <2>1. CASE n = 0
    <3>1. c.parents = <<>>
      BY <1>5, <1>7, <2>1, EmptySeq
    <3> QED BY <1>4, <1>5, <1>12, <2>1, <3>1 DEF HangsTogether
  <2>2. CASE n # 0
    <3>1. 1 \in 1..n
      BY <2>2
    <3>2. all[1] = c.parents[1] /\ LinkFits(c.token, c.parents, 1)
      BY <1>6, <1>12, <3>1
    <3>3. c.token.issuer = c.token.principal
      BY <1>4, <1>5, <2>2 DEF HangsTogether
    <3> QED BY <3>2, <3>3 DEF LinkFits
  <2> QED BY <2>1, <2>2
<1>14. ASSUME NEW k \in 1..n
       PROVE  /\ all[k + 1].key[1] = all[k].issuedTo
              /\ all[k + 1].capabilities = c.token.chain[k].attenuated
  <2>1. PICK proof : proof = c.token.chain[k]
    OBVIOUS
  <2>2. proof.delegator = all[k].issuedTo /\ (k < n => proof.attenuated = c.token.chain[k + 1].parentCapabilities)
    BY <1>5, <1>6, <1>12, <2>1 DEF LinkFits
  <2>3. CASE k = n
    <3>1. c.token.capabilities = proof.attenuated /\ c.token.key[1] = proof.delegator
      BY <1>4, <1>5, <2>1, <2>3 DEF HangsTogether
    <3>2. all[k + 1] = c.token
      BY <1>12, <2>3
    <3> QED BY <2>1, <2>2, <3>1, <3>2
  <2>4. CASE k < n
    <3>1. k + 1 \in 1..n /\ k + 1 > 1 /\ (k + 1) - 1 = k
      BY <2>4
    <3>2. PICK m : m = k + 1
      OBVIOUS
    <3>3. LinkFits(c.token, c.parents, m) /\ all[m] = c.parents[m] /\ m > 1 /\ m - 1 = k
      BY <1>6, <1>12, <3>1, <3>2
    <3>4. all[m].key[1] = proof.delegator /\ all[m].capabilities = c.token.chain[m].parentCapabilities
      BY <2>1, <3>3 DEF LinkFits
    <3> QED BY <2>1, <2>2, <2>4, <3>2, <3>4
  <2> QED BY <1>5, <2>3, <2>4
<1>15. ASSUME NEW k \in 1..n, NEW r \in DgRequests, Permits(all[k + 1].capabilities, r),
              ~ DayMoves(all[k].capabilities, all[k + 1].capabilities)
       PROVE  Permits(all[k].capabilities, r)
  <2>1. PICK parent, child : parent = all[k].capabilities /\ child = all[k + 1].capabilities
    OBVIOUS
  <2>2. PICK proof \in DgProof : proof = c.token.chain[k]
    BY <1>7
  <2>3. parent = proof.parentCapabilities /\ child = proof.attenuated /\ ValidateAttenuation(parent, child)
    BY <1>6, <1>12, <1>14, <2>1, <2>2 DEF LinkFits
  <2>4. parent \in DgGrants /\ child \in DgGrants
    BY <2>2, <2>3, ProofFields
  <2>5. WellScoped(parent) /\ WellScoped(child)
    BY <2>4, DgAssumption DEF WellScoped
  <2>6. r.amount \in Int /\ r.used \in Int /\ r.at \in Int
    BY DgAssumption
  <2>7. Permits(parent, r)
    BY <1>15, <2>1, <2>3, <2>5, <2>6, AttenuatedPermits
  <2> QED BY <2>1, <2>7
<1>16. \A k \in 1..n : c.token.expiresAt <= all[k].expiresAt
  BY <1>9, <1>12
<1>17. AuthorityComesFromAbove
  BY <1>1, <1>5, <1>11, <1>13, <1>14, <1>15, <1>16 DEF AuthorityComesFromAbove
<1> QED BY <1>10, <1>17

(* A capability token that a check lets through was on no revocation list, *)
(* nor any token above it, when the check began, and hangs together up to  *)
(* a principal's own token: this is the invariant of every state of the    *)
(* check that carries it (validateDelegationChain and its callers).        *)
THEOREM DelegationChecksKeepTrack == DgSpec => []DgInv
<1>1. DgInit => DgInv
  BY DgStart
<1>2. DgInv /\ [DgNext]_dgVars => DgInv'
  BY DgStep
<1> QED BY <1>1, <1>2, PTL DEF DgSpec

-----------------------------------------------------------------------------
(* The parts in MCIdentity.                                                *)

\* A step of MCIdentity is for each part a step of its own, or none.
LEMMA IdentityParts ==
    [IdentityNext]_identityVars =>
        /\ [IdNext]_idVars /\ [FrNext]_frVars /\ [RevNext]_revVars /\ [TbNext]_tbVars
        /\ [CcNext]_ccVars /\ [DgNext]_dgVars
BY DEF IdentityNext, identityVars

\* The invariants of the parts, together.
IdentityInv == TbInv /\ IdInv /\ FrInv /\ RevInv /\ CcInv /\ DgInv

\* Registry, resolver, revocation, trust boundaries and the checks of chains keep their inductive
\* invariants however their callers interleave (updateIdentity, resolve, isRevoked, revoke,
\* transitionState, resolveControllerChain, validateDelegationChain).
THEOREM IdentityInductive == IdentitySpec => []IdentityInv
<1>1. IdentityInit => IdentityInv
  BY TbStart, IdStart, FrStart, RevStart, CcStart, DgStart DEF IdentityInit, IdentityInv
<1>2. IdentityInv /\ [IdentityNext]_identityVars => IdentityInv'
  BY IdentityParts, TbStep, IdStep, FrStep, RevStep, CcStep, DgStep DEF IdentityInv
<1> QED BY <1>1, <1>2, PTL DEF IdentitySpec

\* A boundary that is active or suspended runs for a window for which somebody presented a proof,
\* whatever transitions, re-creations and verifications overlap (transitionState of
\* lifecycle-manager.ts awaits between its load and its save): for every number of boundaries and
\* calls and every window.
THEOREM BoundariesHold == IdentitySpec => []BoundariesAreProven
<1>1. IdentityInv => BoundariesAreProven
  BY DEF IdentityInv, TbInv, BoundariesAreProven
<1> QED BY <1>1, IdentityInductive, PTL

\* A revoked token is reported valid no longer than the two TTLs and two queries after its row was
\* committed, a cached "revoked" is never wrong, and the versions of the list have no gap and no
\* repetition (isRevoked and revoke of revocation-api.ts, checkRevoked of
\* revocation-list-client.ts): for every number of tokens and clients, every TTL and latency.
THEOREM RevocationsHold == IdentitySpec => []RevocationsReachEverybody
<1>1. IdentityInv => RevocationsReachEverybody
  BY RevConcludes DEF IdentityInv, RevocationsReachEverybody
<1> QED BY <1>1, IdentityInductive, PTL

\* A capability token that is let through was handed down from a principal's own token, link by
\* link, with nothing revoked when the check began or expired then, and permits no request that the
\* token it came from refuses, the early hours of narrowed windows across midnight apart
\* (validateDelegationChain and its callers, whose lookups are all awaited); a chain of controllers
\* that a verifier accepts is whole, of bounded length and still fresh, and none of its controllers
\* was revoked when its resolution began (resolveControllerChain): for every number of agents,
\* tokens, controllers and verifiers and every depth and window.
THEOREM AcceptedChainsAreWhole == IdentitySpec => []AcceptedChainsAreSound
<1>1. IdentityInv => AcceptedChainsAreSound
  BY CcConcludes, DgConcludes DEF IdentityInv, AcceptedChainsAreSound
<1> QED BY <1>1, IdentityInductive, PTL

\* Nothing resolved before an invalidation is found in the cache after it (invalidateCache and
\* cacheEpoch of federated-resolver.ts): for every number of nodes, versions and restarts.
THEOREM InvalidatedStaysForgotten == IdentitySpec => []InvalidatedIsForgotten
<1>1. IdentityInv => InvalidatedIsForgotten
  BY IdConcludes, FrConcludes DEF IdentityInv, InvalidatedIsForgotten
<1> QED BY <1>1, IdentityInductive, PTL

\* A document that replaces another was made from it, whoever updates at the same time (update
\* compares versions under the row's lock); while one run of the rotate command follows another,
\* the published private key is lost only to the catch of the run that published it or to a run
\* that stages over the file of a killed one (runIdentityRotate); nothing older than the stored
\* watermark is handed out, whatever the nodes serve and whenever the store fails (fanOut); and an
\* ended boundary comes back only to a transition that was under way when it ended
\* (transitionState).
THEOREM HistoryHolds == IdentitySpec => HistoryIsKept
<1>1. IdentityInit => IdStaged
  BY IdStart DEF IdentityInit
<1>2. IdentityInv /\ IdStaged /\ [IdentityNext]_identityVars => IdStaged' /\ PublishedKeyIsKept
  BY IdentityParts, IdStagedStep DEF IdentityInv
<1>3. IdentityInv /\ [IdentityNext]_identityVars
         => UpdatesBuildOnWhatTheyReplace /\ NeverBehindTheWatermark /\ EndedUnlessOverlapped
  BY IdentityParts, IdUpdatesStep, FrReturnsStep, TbEndsStep DEF IdentityInv
<1> QED BY <1>1, <1>2, <1>3, IdentityInductive, PTL DEF IdentitySpec, HistoryIsKept

=============================================================================
