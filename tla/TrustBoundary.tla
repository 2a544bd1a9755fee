---------------------------- MODULE TrustBoundary ----------------------------
(***************************************************************************)
(* communication/src/trust-boundary: the lifecycle of a trust boundary     *)
(* between two parties (lifecycle-manager.ts) and its use by the handshake *)
(* and by the receipt of envelopes (handshake-integration.ts).             *)
(*                                                                         *)
(* transitionState loads the boundary, tests the transition, awaits the    *)
(* verification of a proof for two of the events, saves what it computed   *)
(* from the loaded value and then appends an audit event.  Nothing locks   *)
(* the boundary between the load and the save.                             *)
(***************************************************************************)
EXTENDS Integers, FiniteSets

CONSTANTS
    TbIds,       \* boundary identifiers
    TbCalls,     \* calls of transitionState that may overlap
    MinWindow,   \* minWindowMs
    MaxWindow,   \* maxLifecycleWindowMs
    MaxTbTime,   \* bound: the clock
    MaxTbCalls   \* bound: operations started

ASSUME TbAssumption ==
    /\ MinWindow \in Nat /\ MaxWindow \in Nat /\ MinWindow < MaxWindow
    /\ MaxTbTime \in Nat /\ MaxTbCalls \in Nat /\ TbIds # {}

VARIABLES
    boundary,   \* the storage, by id
    tbCall,     \* what each transitionState call is doing
    tbAudit,    \* the audit events appended so far
    tbNow,      \* the manager's clock
    tbStarted,  \* operations started (bound)
    accepted,   \* history: the expiries a verifier accepted, by id
    admitted    \* history: the expiries under which an envelope was received, by id

tbVars == <<boundary, tbCall, tbAudit, tbNow, tbStarted, accepted, admitted>>

TbState == {"pending", "active", "suspended", "revoked", "expired"}
TbEnded == {"revoked", "expired"}
TbTime == 0..(MaxTbTime + MaxWindow + 1)
TbSource == {"client", "system", "sweeper"}

\* event -> the state it leads to
TbTarget == [onTrustEstablished |-> "active", onLeaseExtended |-> "active",
             onSuspended |-> "suspended", onResumed |-> "active",
             onRevoked |-> "revoked", onExpired |-> "expired"]
TbEvent == DOMAIN TbTarget

\* id is undefined, or a boundary with its window; proof stands for bindingProofId
TbValue == [state : TbState \cup {"absent"}, notBefore : TbTime, notAfter : TbTime,
            proof : BOOLEAN]
NoBoundary == [state |-> "absent", notBefore |-> 0, notAfter |-> 0, proof |-> FALSE]

TbCallState == [pc : {"idle", "loaded", "verifying", "saved"}, id : TbIds,
                event : TbEvent, source : TbSource, loaded : TbValue, next : TbValue,
                proven : TbTime]   \* the expiry the given proof is bound to

TbAuditEvent == [id : TbIds, event : TbEvent, before : TbState, after : TbState,
                 source : TbSource]

\* The storage, the calls and the audit events have the shapes of types.ts.
TbTypeOK ==
    /\ boundary \in [TbIds -> TbValue]
    /\ tbCall \in [TbCalls -> TbCallState]
    /\ tbAudit \subseteq TbAuditEvent
    /\ tbNow \in 0..MaxTbTime /\ tbStarted \in 0..MaxTbCalls
    /\ accepted \in [TbIds -> SUBSET TbTime] /\ admitted \in [TbIds -> SUBSET TbTime]

IdleTbCall == [pc |-> "idle", id |-> CHOOSE b \in TbIds : TRUE, event |-> "onExpired",
               source |-> "client", loaded |-> NoBoundary, next |-> NoBoundary, proven |-> 0]

TbInit ==
    /\ boundary = [b \in TbIds |-> NoBoundary]
    /\ tbCall = [c \in TbCalls |-> IdleTbCall]
    /\ tbAudit = {} /\ tbNow = 0 /\ tbStarted = 0
    /\ accepted = [b \in TbIds |-> {}] /\ admitted = [b \in TbIds |-> {}]

-----------------------------------------------------------------------------
\* assertInvariant, of the fields kept here: a known state, a window that is not empty,
\* and a binding proof exactly outside pending
AssertInvariant(v) ==
    /\ v.state \in TbState
    /\ v.notBefore < v.notAfter
    /\ v.proof <=> v.state # "pending"

\* the server's expiry for a requested one, and whether enough of a window is left
ServerEnforced(requested) ==
    IF requested < tbNow + MaxWindow THEN requested ELSE tbNow + MaxWindow
WindowLeft(notAfter) == notAfter > tbNow + MinWindow

\* mutant: an ended boundary may be activated
LegalTransitions_Reverse(from, event) ==
    IF event = "onResumed" /\ from \in {"suspended", "revoked"} THEN {"T4"}
    ELSE IF event = "onTrustEstablished" /\ from = "pending" THEN {"T1"}
    ELSE IF event = "onLeaseExtended" /\ from = "active" THEN {"T2"}
    ELSE IF event = "onRevoked" /\ from = "active" THEN {"T5"} ELSE {}

\* LEGAL_TRANSITIONS: the identifiers of the transitions from a state by an event.  The
\* expiry of one state has two, told apart by the source; the emergency event has none
\* that succeeds.
LegalTransitions(from, event) ==
    CASE event = "onTrustEstablished" -> IF from = "pending" THEN {"T1"} ELSE {}
      [] event = "onLeaseExtended"    -> IF from = "active" THEN {"T2"} ELSE {}
      [] event = "onSuspended"        -> IF from = "active" THEN {"T3"} ELSE {}
      [] event = "onResumed"          -> IF from = "suspended" THEN {"T4"} ELSE {}
      [] event = "onRevoked"          -> IF from \in {"active", "suspended"} THEN {"T5"} ELSE {}
      [] event = "onExpired"          -> IF from \in {"active", "suspended"}
                                         THEN {"T6", "T7"} ELSE {}

\* findLegalTransition: of the two expiries the sweeper's source picks T7, any other T6
FindLegalTransition(from, event, source) ==
    LET candidates == LegalTransitions(from, event)
    IN  {t \in candidates : Cardinality(candidates) > 1 => (t = "T7" <=> source = "sweeper")}

\* the test of transitionSource that follows: T7 is the sweeper's and nothing else is
SourceAllowed(t, source) == (t = "T7") <=> (source = "sweeper")

Allowed(k) == {t \in FindLegalTransition(k.loaded.state, k.event, k.source) :
                  SourceAllowed(t, k.source)}

\* createBoundary: the id may be in use already, save overwrites what it names
CreateBoundary(b, requested) ==
    LET notAfter == ServerEnforced(requested)
        v == [state |-> "pending", notBefore |-> tbNow, notAfter |-> notAfter, proof |-> FALSE]
    IN  /\ tbStarted < MaxTbCalls /\ tbStarted' = tbStarted + 1
        /\ WindowLeft(notAfter) /\ AssertInvariant(v)
        /\ boundary' = [boundary EXCEPT ![b] = v]
        /\ UNCHANGED <<tbCall, tbAudit, tbNow, accepted, admitted>>

\* transitionState up to the await of storage.load
LoadBoundary(c, b, event, source) ==
    /\ tbCall[c].pc = "idle"
    /\ tbStarted < MaxTbCalls /\ tbStarted' = tbStarted + 1
    /\ boundary[b].state # "absent"
    /\ tbCall' = [tbCall EXCEPT ![c] = [pc |-> "loaded", id |-> b, event |-> event,
                    source |-> source, loaded |-> boundary[b], next |-> NoBoundary,
                    proven |-> 0]]
    /\ UNCHANGED <<boundary, tbAudit, tbNow, accepted, admitted>>

TbEnd(c) == tbCall' = [tbCall EXCEPT ![c] = IdleTbCall]

\* the value transitionState saves
NextBoundary(v, event, notAfter) ==
    [state |-> TbTarget[event], notBefore |-> v.notBefore, notAfter |-> notAfter,
     proof |-> v.proof \/ event # "onExpired"]

\* saved without a test of what the storage holds by now; the audit event follows
SaveBoundary(c, v) ==
    /\ AssertInvariant(v)
    /\ boundary' = [boundary EXCEPT ![tbCall[c].id] = v]
    /\ tbCall' = [tbCall EXCEPT ![c] = [tbCall[c] EXCEPT !.pc = "saved", !.next = v]]

\* mutant: the proof's own end is not compared
ProofCovers_AnyExpiry(event, v, requested, proven) ==
    event = "onTrustEstablished" \/ WindowLeft(ServerEnforced(requested))

\* a proof is bound to an expiry; T1 wants the boundary's own, T2 the server's new one
ProofCovers(event, v, requested, proven) ==
    IF event = "onTrustEstablished" THEN proven = v.notAfter
    ELSE WindowLeft(ServerEnforced(requested)) /\ proven = ServerEnforced(requested)

\* cases T1 and T2 up to the await of the verifier; what is saved later is fixed here,
\* the binding's expiry being the boundary's or the server's, never the proof's
AskVerifier(c, requested, proven) ==
    LET k == tbCall[c]
        notAfter == IF k.event = "onTrustEstablished" THEN k.loaded.notAfter
                    ELSE ServerEnforced(requested)
    IN  /\ k.pc = "loaded"
        /\ Allowed(k) \cap {"T1", "T2"} # {}
        /\ ProofCovers(k.event, k.loaded, requested, proven)
        /\ tbCall' = [tbCall EXCEPT ![c] = [k EXCEPT !.pc = "verifying", !.proven = proven,
                        !.next = NextBoundary(k.loaded, k.event, notAfter)]]
        /\ UNCHANGED <<boundary, tbAudit, tbNow, tbStarted, accepted, admitted>>

\* the verifier accepts
ProofVerified(c) ==
    /\ tbCall[c].pc = "verifying"
    /\ SaveBoundary(c, tbCall[c].next)
    /\ accepted' = [accepted EXCEPT ![tbCall[c].id] = @ \cup {tbCall[c].proven}]
    /\ UNCHANGED <<tbAudit, tbNow, tbStarted, admitted>>

\* the other cases: suspend, resume while a window is left, revoke, expire (the sweeper
\* only once notAfter has passed)
TransitionPasses(k) ==
    \E t \in Allowed(k) \ {"T1", "T2"} :
        /\ t = "T4" => WindowLeft(k.loaded.notAfter)
        /\ t = "T7" => k.loaded.notAfter <= tbNow

Transition(c) ==
    LET k == tbCall[c] IN
    /\ k.pc = "loaded" /\ TransitionPasses(k)
    /\ SaveBoundary(c, NextBoundary(k.loaded, k.event, k.loaded.notAfter))
    /\ UNCHANGED <<tbAudit, tbNow, tbStarted, accepted, admitted>>

\* a transition that is not legal, a proof that is missing, bound to something else or
\* refused by the verifier: the call throws and leaves all as it was
Refused(c) ==
    /\ \/ tbCall[c].pc = "verifying"
       \/ tbCall[c].pc = "loaded" /\ ~TransitionPasses(tbCall[c])
    /\ TbEnd(c)
    /\ UNCHANGED <<boundary, tbAudit, tbNow, tbStarted, accepted, admitted>>

AppendTbAudit(c) ==
    LET k == tbCall[c] IN
    /\ k.pc = "saved"
    /\ tbAudit' = tbAudit \cup {[id |-> k.id, event |-> k.event, before |-> k.loaded.state,
                                 after |-> k.next.state, source |-> k.source]}
    /\ TbEnd(c)
    /\ UNCHANGED <<boundary, tbNow, tbStarted, accepted, admitted>>

\* assertBoundaryActive: an envelope is received under an active boundary only; the
\* window is not looked at
AssertBoundaryActive(b) ==
    /\ boundary[b].state = "active"
    /\ admitted' = [admitted EXCEPT ![b] = @ \cup {boundary[b].notAfter}]
    /\ UNCHANGED <<boundary, tbCall, tbAudit, tbNow, tbStarted, accepted>>

TbTick ==
    /\ tbNow < MaxTbTime
    /\ tbNow' = tbNow + 1
    /\ UNCHANGED <<boundary, tbCall, tbAudit, tbStarted, accepted, admitted>>

TbNext ==
    \/ \E b \in TbIds, t \in TbTime : CreateBoundary(b, t)
    \/ \E c \in TbCalls, b \in TbIds, e \in TbEvent, s \in TbSource : LoadBoundary(c, b, e, s)
    \/ \E c \in TbCalls, t, p \in TbTime : AskVerifier(c, t, p)
    \/ \E c \in TbCalls : ProofVerified(c) \/ Transition(c) \/ Refused(c) \/ AppendTbAudit(c)
    \/ \E b \in TbIds : AssertBoundaryActive(b)
    \/ TbTick

TbSpec == TbInit /\ [][TbNext]_tbVars

-----------------------------------------------------------------------------
\* Whatever transitions and re-creations overlap: a boundary that left pending runs for a
\* window a verifier accepted for it, the window never reaches further than the server
\* allows from now, and no envelope was received under another (transitionState saves a
\* boundary it loaded before the verification it awaited).
BoundaryIsProven ==
    \A b \in TbIds :
        /\ boundary[b].state \notin {"absent", "pending"} => boundary[b].notAfter \in accepted[b]
        /\ boundary[b].state # "absent" => boundary[b].notAfter <= tbNow + MaxWindow
        /\ admitted[b] \subseteq accepted[b]

\* A boundary that ended comes back only through a handshake that creates it again or
\* through a transition that loaded it before it ended.
EndedUnlessOverlapped ==
    \A b \in TbIds :
       boundary[b].state \in TbEnded /\ boundary'[b].state # boundary[b].state =>
          \/ boundary'[b].state = "pending"
          \/ \E c \in TbCalls : /\ tbCall[c].id = b /\ tbCall'[c].pc = "saved"
                                /\ tbCall[c].loaded.state \notin TbEnded
=============================================================================
