--------------------------- MODULE ControllerChain ---------------------------
(***************************************************************************)
(* Resolution of a DID's chain of controllers                              *)
(* (identity/src/controller-chain-resolution/controller-chain-resolution.ts)*)
(* with the resolvers' freshness proofs (resolver-freshness-proof.ts).     *)
(*                                                                         *)
(* resolveControllerChain is cut at its awaits, so documents, freshness    *)
(* proofs and revocations change between its nine steps.  A document is    *)
(* its controller, the DID its first verification method names and whether *)
(* its signature verifies.                                                 *)
(***************************************************************************)
EXTENDS Integers, FiniteSets, Sequences

CONSTANTS
    CcTarget,       \* the DID whose controllers are resolved
    CcControllers,  \* DIDs that may control it or each other
    CcVerifiers,    \* verifiers that ask
    CcChallenges,   \* challenges they issue
    CcPublished,    \* DID -> the document published at first
    CcDocuments,    \* documents that may be published: [controller, method, signed]
    CcOffers,       \* freshness proofs of foreign resolvers: [asOf, window]
    CcWindowAsked,  \* request.maxFreshnessWindowMs
    MinFreshness, MaxFreshness, \* the range of a freshness window
    MaxChainDepth,  \* MAX_CHAIN_DEPTH
    MaxCcTime,      \* bound: clock
    MaxCcChanges,   \* bound: documents and proofs replaced, controllers revoked
    MaxCcAsked      \* bound: resolutions

ASSUME ControllerChainAssumption ==
    /\ MinFreshness \in Nat /\ MaxFreshness \in Nat /\ MinFreshness <= MaxFreshness
    /\ MaxChainDepth \in Nat \ {0} /\ CcTarget \notin CcControllers
    /\ MaxCcTime \in Nat

VARIABLES
    ccNow,       \* the clock
    ccDocs,      \* DID -> its document
    ccRevoked,   \* controller -> when it was revoked, Never
    ccRfps,      \* controller -> the freshness proof its resolver offers
    ccCall,      \* the resolution in flight
    ccProofs,    \* integrity proofs that were returned, with what they were built from
    ccAccepted,  \* proofs a verifier accepted: [proof, verifier, challenge, at]
    ccChanges, ccAsked  \* bounds

ccVars == <<ccNow, ccDocs, ccRevoked, ccRfps, ccCall, ccProofs, ccAccepted, ccChanges, ccAsked>>

CcDids == CcControllers \cup {CcTarget}
NoDid == "none"
Never == MaxCcTime + 1
Document == [controller : CcControllers \cup {NoDid}, method : CcDids, signed : BOOLEAN]
FreshnessProof == [asOf : 0..MaxCcTime, window : 0..(MaxFreshness + 1)]
ChainNode == [did : CcControllers, doc : Document]
\* how buildChainIntegrityProof is configured: with a signing key, or opted in to a placeholder
SignerOptions == {"signFn", "placeholder", "missing"}

IdleCcCall ==
    [pc |-> "idle", verifier |-> NoDid, challenge |-> NoDid, options |-> "signFn", started |-> 0,
     root |-> NoDid, next |-> NoDid, chain |-> <<>>, fresh |-> {}, k |-> 1, notAfter |-> 0, built |-> 0]
CcStages == {"idle", "root", "load", "fresh", "signature", "revocation", "sign"}

\* The node's controller, the proof it was fresh by and when that was checked
FreshNode == [node : 1..(MaxChainDepth + 1), rfp : FreshnessProof, at : 0..MaxCcTime]

Resolution ==
    [pc : CcStages, verifier : CcVerifiers \cup {NoDid}, challenge : CcChallenges \cup {NoDid},
     options : SignerOptions, started : 0..MaxCcTime,
     root : CcControllers \cup {NoDid}, next : CcControllers \cup {NoDid}, chain : Seq(ChainNode),
     fresh : SUBSET FreshNode, k : 1..(MaxChainDepth + 1), notAfter : Nat, built : 0..MaxCcTime]

ASSUME PortsAssumption ==
    /\ NoDid \notin CcDids
    /\ CcPublished \in [CcDids -> Document] /\ CcDocuments \subseteq Document
    /\ CcOffers \subseteq FreshnessProof

\* The documents, the call and the proofs keep their types; at most one controller too many is loaded.
CcTypeOK ==
    /\ ccNow \in 0..MaxCcTime
    /\ ccDocs \in [CcDids -> Document] /\ ccRevoked \in [CcControllers -> 0..Never]
    /\ ccRfps \in [CcControllers -> FreshnessProof]
    /\ ccCall \in Resolution /\ Len(ccCall.chain) <= MaxChainDepth + 1
    /\ \A a \in ccAccepted : a.proof \in ccProofs

CcInit ==
    /\ ccNow = 0
    /\ ccDocs = CcPublished
    /\ ccRevoked = [d \in CcControllers |-> Never]
    /\ ccRfps = [d \in CcControllers |-> [asOf |-> 0, window |-> MaxFreshness]]
    /\ ccCall = IdleCcCall /\ ccProofs = {} /\ ccAccepted = {} /\ ccChanges = 0 /\ ccAsked = 0

-----------------------------------------------------------------------------
(* the world the ports look at *)

WorldChanges == ccChanges < MaxCcChanges /\ ccChanges' = ccChanges + 1
CallUnchanged == UNCHANGED <<ccNow, ccCall, ccProofs, ccAccepted, ccAsked>>

ReplaceDocument(d, doc) ==
    /\ WorldChanges /\ doc # ccDocs[d]
    /\ ccDocs' = [ccDocs EXCEPT ![d] = doc]
    /\ UNCHANGED <<ccRevoked, ccRfps>> /\ CallUnchanged

RevokeController(d) ==
    /\ WorldChanges /\ ccRevoked[d] = Never
    /\ ccRevoked' = [ccRevoked EXCEPT ![d] = ccNow]
    /\ UNCHANGED <<ccDocs, ccRfps>> /\ CallUnchanged

InWindowRange(w) == w \in MinFreshness..MaxFreshness

\* createResolverFreshnessProof refuses a window outside the range
CreateResolverFreshnessProof(d, w) ==
    /\ InWindowRange(w) /\ WorldChanges
    /\ ccRfps' = [ccRfps EXCEPT ![d] = [asOf |-> ccNow, window |-> w]]
    /\ UNCHANGED <<ccDocs, ccRevoked>> /\ CallUnchanged

\* a resolver of another make offers any proof
OfferRfp(d, p) ==
    /\ WorldChanges
    /\ ccRfps' = [ccRfps EXCEPT ![d] = p]
    /\ UNCHANGED <<ccDocs, ccRevoked>> /\ CallUnchanged

CcTick ==
    /\ ccNow < MaxCcTime /\ ccNow' = ccNow + 1
    /\ UNCHANGED <<ccDocs, ccRevoked, ccRfps, ccCall, ccProofs, ccAccepted, ccChanges, ccAsked>>

-----------------------------------------------------------------------------
(* the nine steps *)

WorldUnchanged == UNCHANGED <<ccNow, ccDocs, ccRevoked, ccRfps, ccAccepted, ccChanges>>
CcThrow == ccCall' = IdleCcCall /\ UNCHANGED <<ccProofs, ccAsked>>
CcSet(rec) == ccCall' = rec /\ UNCHANGED <<ccProofs, ccAsked>>

ResolveControllerChain(v, c, o) ==
    /\ ccCall.pc = "idle"
    /\ ccAsked < MaxCcAsked /\ ccAsked' = ccAsked + 1
    /\ ccCall' = [IdleCcCall EXCEPT !.pc = "root", !.verifier = v, !.challenge = c, !.options = o,
                                    !.started = ccNow]
    /\ UNCHANGED ccProofs /\ WorldUnchanged

\* steps 1 and 2: the target's document names a controller
LoadRoot ==
    LET root == ccDocs[CcTarget].controller
    IN  /\ ccCall.pc = "root"
        /\ IF root = NoDid THEN CcThrow
           ELSE CcSet([ccCall EXCEPT !.pc = "load", !.root = root, !.next = root])
        /\ WorldUnchanged

SeenDids == {ccCall.chain[i].did : i \in DOMAIN ccCall.chain}

\* step 3: each controller once, one more than allowed at most
LoadController ==
    LET did == ccCall.next
        more == did # NoDid /\ Len(ccCall.chain) <= MaxChainDepth
    IN  /\ ccCall.pc = "load"
        /\ \/ more /\ did \in SeenDids /\ CcThrow
           \/ /\ more /\ did \notin SeenDids
              /\ CcSet([ccCall EXCEPT !.chain = Append(@, [did |-> did, doc |-> ccDocs[did]]),
                                      !.next = ccDocs[did].controller])
           \/ ~more /\ Len(ccCall.chain) > MaxChainDepth /\ CcThrow
           \/ ~more /\ Len(ccCall.chain) <= MaxChainDepth /\ CcSet([ccCall EXCEPT !.pc = "fresh"])
        /\ WorldUnchanged

\* step 4: the answers come in any order; a window longer than asked for is refused.  The port may
\* verify what it answers or not: rfp.verified is not looked at
FreshEnough(p) ==
    p.window <= CcWindowAsked /\ ccNow - p.asOf <= p.window

NodesFresh == {f.node : f \in ccCall.fresh}

GetFreshness(i) ==
    LET p == ccRfps[ccCall.chain[i].did]
    IN  /\ ccCall.pc = "fresh" /\ i \in DOMAIN ccCall.chain \ NodesFresh
        /\ IF FreshEnough(p)
           THEN CcSet([ccCall EXCEPT !.fresh = @ \cup {[node |-> i, rfp |-> p, at |-> ccNow]},
                                     !.pc = IF DOMAIN ccCall.chain \ NodesFresh = {i}
                                            THEN "signature" ELSE "fresh"])
           ELSE CcThrow
        /\ WorldUnchanged

\* step 5: the signature of each document that was loaded
VerifyDocumentSignature ==
    /\ ccCall.pc = "signature"
    /\ IF ~ccCall.chain[ccCall.k].doc.signed THEN CcThrow
       ELSE CcSet(IF ccCall.k = Len(ccCall.chain) THEN [ccCall EXCEPT !.pc = "revocation", !.k = 1]
                  ELSE [ccCall EXCEPT !.k = @ + 1])
    /\ WorldUnchanged

\* mutant: the methods of the documents are not compared
BindingValid_NoMethods(chain, root) ==
    chain[1].did = root /\ \A i, j \in DOMAIN chain : i # j => chain[i].did # chain[j].did

\* steps 7 to 9: the chain starts at the target's controller, repeats nothing, and each document's
\* method is its own controller's
BindingValid(chain, root) ==
    /\ chain[1].did = root
    /\ \A i, j \in DOMAIN chain : i # j => chain[i].did # chain[j].did
    /\ \A i \in DOMAIN chain : chain[i].doc.method = chain[i].did

\* a signing key, or an explicit opt-in to the placeholder
MaySign(o) == o # "missing"

\* notAfter: now and the shortest window
ProofNotAfter ==
    ccNow + (CHOOSE w \in {f.rfp.window : f \in ccCall.fresh} :
                \A f \in ccCall.fresh : w <= f.rfp.window)

\* step 6, node by node; a checker that throws counts as revoked.  After the last one the binding
\* checks and the proof follow without another await
IsControllerRevoked == ccRevoked[ccCall.chain[ccCall.k].did] # Never

CheckControllerRevoked ==
    /\ ccCall.pc = "revocation"
    /\ \/ IsControllerRevoked /\ CcThrow
       \/ /\ ~IsControllerRevoked /\ ccCall.k < Len(ccCall.chain)
          /\ CcSet([ccCall EXCEPT !.k = @ + 1])
       \/ /\ ~IsControllerRevoked /\ ccCall.k = Len(ccCall.chain)
          /\ IF BindingValid(ccCall.chain, ccCall.root) /\ MaySign(ccCall.options)
             THEN CcSet([ccCall EXCEPT !.pc = "sign", !.notAfter = ProofNotAfter, !.built = ccNow])
             ELSE CcThrow
    /\ WorldUnchanged

\* a port answers null, times out or throws: the resolution fails closed
PortFails ==
    /\ ccCall.pc \notin {"idle"}
    /\ CcThrow /\ WorldUnchanged

\* signFn answers; the resolution is returned
ChainIntegrityProof ==
    [audience |-> ccCall.verifier, challenge |-> ccCall.challenge, notAfter |-> ccCall.notAfter,
     signed |-> ccCall.options = "signFn", chain |-> ccCall.chain, fresh |-> ccCall.fresh,
     root |-> ccCall.root, started |-> ccCall.started, built |-> ccCall.built]

BuildChainIntegrityProof ==
    /\ ccCall.pc = "sign"
    /\ ccProofs' = ccProofs \cup {ChainIntegrityProof}
    /\ ccCall' = IdleCcCall /\ UNCHANGED ccAsked /\ WorldUnchanged

\* verifyChainIntegrityProof
VerifyChainIntegrityProof(p, v, c) ==
    /\ ccNow <= p.notAfter /\ p.challenge = c /\ p.audience = v /\ p.signed
    /\ ccAccepted' = ccAccepted \cup {[proof |-> p, verifier |-> v, challenge |-> c, at |-> ccNow]}
    /\ UNCHANGED <<ccNow, ccDocs, ccRevoked, ccRfps, ccCall, ccProofs, ccChanges, ccAsked>>

-----------------------------------------------------------------------------
CcNext ==
    \/ \E d \in CcDids, doc \in CcDocuments : ReplaceDocument(d, doc)
    \/ \E d \in CcControllers :
          \/ RevokeController(d)
          \/ \E w \in 0..MaxFreshness : CreateResolverFreshnessProof(d, w)
          \/ \E p \in CcOffers : OfferRfp(d, p)
    \/ \E v \in CcVerifiers, c \in CcChallenges :
          \/ \E o \in SignerOptions : ResolveControllerChain(v, c, o)
          \/ \E p \in ccProofs : VerifyChainIntegrityProof(p, v, c)
    \/ LoadRoot \/ LoadController \/ VerifyDocumentSignature \/ CheckControllerRevoked
    \/ \E i \in 1..MaxChainDepth : GetFreshness(i)
    \/ PortFails \/ BuildChainIntegrityProof \/ CcTick

CcSpec == CcInit /\ [][CcNext]_ccVars

-----------------------------------------------------------------------------
\* The chain a proof speaks of runs from the target's controller to a DID without one, names nobody
\* twice and is no longer than allowed, and every document in it is signed and its method its own.
ChainIsWhole(p) ==
    LET n == Len(p.chain)
    IN  /\ n \in 1..MaxChainDepth
        /\ p.chain[1].did = p.root /\ p.chain[n].doc.controller = NoDid
        /\ \A i \in 1..(n - 1) : p.chain[i].doc.controller = p.chain[i + 1].did
        /\ Cardinality({p.chain[i].did : i \in 1..n}) = n
        /\ \A i \in 1..n : p.chain[i].doc.signed /\ p.chain[i].doc.method = p.chain[i].did

\* A verifier accepts a proof only for its own challenge and for no longer after it was built than the
\* shortest window of the controllers' freshness proofs, each of which was within its own window and
\* the one asked for when it was looked at; no controller in it had been revoked when the resolution started, however documents,
\* freshness proofs and revocations change between the awaits of resolveControllerChain.
AcceptedChainsHold ==
    \A a \in ccAccepted :
        LET p == a.proof
        IN  /\ ChainIsWhole(p)
            /\ p.audience = a.verifier /\ p.challenge = a.challenge
            /\ \A f \in p.fresh : /\ a.at <= p.built + f.rfp.window
                                 /\ f.at <= f.rfp.asOf + f.rfp.window /\ f.rfp.window <= CcWindowAsked
            /\ \A i \in DOMAIN p.chain : ccRevoked[p.chain[i].did] >= p.started

=============================================================================
