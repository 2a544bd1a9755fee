------------------------------- MODULE Tokens --------------------------------
(***************************************************************************)
(* Capability tokens: delegated ones and ones signed by several parties.   *)
(***************************************************************************)
EXTENDS Scopes, Sequences

Seqs == INSTANCE SequencesExt

-----------------------------------------------------------------------------
(***************************************************************************)
(* Delegated capability tokens: issuing and delegating them                *)
(* (identity/src/token-issuer.ts), the token store and the revocation list *)
(* they are looked up in, and a check of one of them as it runs through    *)
(* verifyCapability of the orchestrator or RuntimeGuard.check down to      *)
(* validateDelegationChain (identity/src/delegation-validator.ts).  The    *)
(* check awaits the store, the key resolver and the revocation list one    *)
(* after the other, so tokens are revoked, removed and keys rotated under  *)
(* it.                                                                     *)
(*                                                                         *)
(* A signature is the key that made it over the contents it stands beside: *)
(* <<agent, version>> for a did:agent, <<principal, 0>> for a did:key.     *)
(* Tokens of other software are properly signed but carry one thing        *)
(* delegateCapabilityToken would have refused.                             *)
(***************************************************************************)

CONSTANTS DgAgents, DgPrincipals, DgIssuers, DgHolders, DgGrants, DgRequests,
          KeyGrace,        \* gracePeriodMs
          MaxDgTokens, MaxDgTime, MaxKey,   \* bounds of the model: tokens, time, rotations,
          MaxDgRoots,      \* the ids a root may have,
          MaxDgEvents      \* and revocations, removals, rotations and ticks in all

VARIABLES dgStore,     \* policy.token_store, by token id
          dgRevoked,   \* ids on the revocation list
          dgKeys,      \* each agent's key version and when it was rotated in
          dgClock,
          dgIssued,    \* number of ids handed out
          dgEvents,    \* number of revocations, removals, rotations and ticks
          dgCheck      \* the check under way
dgVars == <<dgStore, dgRevoked, dgKeys, dgClock, dgIssued, dgEvents, dgCheck>>

ASSUME DgAssumption ==
    /\ DgHolders \subseteq DgAgents /\ DgIssuers \subseteq DgPrincipals /\ MaxKey \in Nat \ {0}
    /\ MaxDgTokens \in Nat /\ MaxDgTime \in Nat \ {0} /\ MaxDgEvents \in Nat
    /\ \A capabilities \in DgGrants : \A c \in capabilities : IsScope(c.scope)
    /\ \A r \in DgRequests : r.amount \in Int /\ r.used \in Int /\ r.at \in Int

NoToken == [id |-> 0]
DgIds == 1..MaxDgTokens
NotResolved == [current |-> <<>>, previous |-> {}]
NoCheck == [pc |-> "idle", flow |-> "none", token |-> NoToken, now |-> 0, seen |-> {},
            keys |-> [d \in DgAgents |-> NotResolved], i |-> 0, parents |-> <<>>, result |-> "none"]

\* a DelegationProof and a CapabilityToken
DgProof ==
    [parentTokenId : DgIds, delegator : DgAgents, delegatee : DgAgents, parentCapabilities : DgGrants,
     parentExpiresAt : 1..MaxDgTime, attenuated : DgGrants, created : 0..MaxDgTime,
     signer : DgAgents, key : DgAgents \X (1..MaxKey)]
DgToken ==
    [id : DgIds, specVersion : {"0.1.0", "0.2.0"}, issuer : DgPrincipals, principal : DgPrincipals,
     issuedTo : DgAgents, issuedAt : 0..MaxDgTime, expiresAt : 1..MaxDgTime, capabilities : DgGrants,
     chain : Seq(DgProof), signer : DgAgents \cup DgPrincipals,
     key : (DgAgents \X (1..MaxKey)) \cup (DgPrincipals \X {0})]

\* what resolvePublicKeys answered, by DID
ResolvedKeys ==
    [current : DgAgents \X (1..MaxKey),
     previous : SUBSET [key : DgAgents \X (1..MaxKey), validBefore : 0..MaxDgTime]]
DgStages == {"idle", "sender", "leafRevoked", "leafKeys", "keys", "link", "parentRevoked", "guardRevoked", "done"}
DgCheckState ==
    [pc : DgStages, flow : {"none", "orchestrator", "guard"}, token : DgToken \cup {NoToken},
     now : 0..MaxDgTime, seen : SUBSET DgIds, keys : [DgAgents -> ResolvedKeys \cup {NotResolved}],
     i : 0..(MaxDelegationDepth + 1), parents : Seq(DgToken), result : {"none", "allowed", "denied"}]

DgTypeOK ==
    /\ dgStore \in [DgIds -> DgToken \cup {NoToken}]
    /\ \A id \in DgIds : dgStore[id] # NoToken => dgStore[id].id = id
    /\ dgRevoked \subseteq DgIds
    /\ dgKeys \in [DgAgents -> [version : 1..MaxKey, startedAt : 0..MaxDgTime]]
    /\ dgClock \in 0..MaxDgTime
    /\ dgIssued \in 0..MaxDgTokens
    /\ dgEvents \in 0..MaxDgEvents
    /\ dgCheck \in DgCheckState
    /\ Len(dgCheck.parents) <= MaxDelegationDepth + 1

DgInit ==
    /\ dgStore = [id \in DgIds |-> NoToken]
    /\ dgRevoked = {}
    /\ dgKeys = [a \in DgAgents |-> [version |-> 1, startedAt |-> 0]]
    /\ dgClock = 0
    /\ dgIssued = 0
    /\ dgEvents = 0
    /\ dgCheck = NoCheck

-----------------------------------------------------------------------------
(* Issuing and delegating *)

(* principalDid is set to issuerDid, and the version to 0.1.0.             *)
NewRoot(principal, to, capabilities, expiresAt) ==
    [id |-> dgIssued + 1, specVersion |-> "0.1.0", issuer |-> principal,
     principal |-> principal, issuedTo |-> to, issuedAt |-> dgClock,
     expiresAt |-> expiresAt, capabilities |-> capabilities, chain |-> <<>>,
     signer |-> principal, key |-> <<principal, 0>>]

CurrentKey(did) == <<did, dgKeys[did].version>>

Proof(parent, delegator, to, snapshot, snapshotExpiry, attenuated) ==
    [parentTokenId |-> parent.id, delegator |-> delegator, delegatee |-> to,
     parentCapabilities |-> snapshot, parentExpiresAt |-> snapshotExpiry,
     attenuated |-> attenuated, created |-> dgClock,
     signer |-> delegator, key |-> CurrentKey(delegator)]

NewChild(parent, proof, prefix, capabilities, expiresAt) ==
    [id |-> dgIssued + 1, specVersion |-> "0.2.0", issuer |-> parent.issuer,
     principal |-> parent.principal, issuedTo |-> proof.delegatee, issuedAt |-> dgClock,
     expiresAt |-> expiresAt, capabilities |-> capabilities,
     chain |-> Append(prefix, proof), signer |-> proof.signer, key |-> proof.key]

(* A check never meets a token younger than the one it is about, so the    *)
(* model checks the youngest token and stores none after that.             *)
Store(token) ==
    /\ dgCheck = NoCheck
    /\ dgIssued < MaxDgTokens
    /\ dgIssued' = dgIssued + 1
    /\ dgStore' = [dgStore EXCEPT ![token.id] = token]
    /\ UNCHANGED <<dgRevoked, dgKeys, dgClock, dgEvents, dgCheck>>

IssueRoot(principal, to, capabilities, expiresAt) ==
    /\ dgIssued < MaxDgRoots
    /\ expiresAt > dgClock
    /\ capabilities # {}
    /\ Store(NewRoot(principal, to, capabilities, expiresAt))

Delegate(parent, to, capabilities, expiresAt) ==
    /\ expiresAt > dgClock
    /\ expiresAt <= parent.expiresAt
    /\ ValidateAttenuation(parent.capabilities, capabilities)
    /\ Len(parent.chain) + 1 <= MaxDelegationDepth
    /\ Store(NewChild(parent,
             Proof(parent, parent.issuedTo, to, parent.capabilities, parent.expiresAt, capabilities),
             parent.chain, capabilities, expiresAt))

(* A token other software made of the parent, with one thing wrong.        *)
ForeignToken(parent, to, other, expiresAt, wrong) ==
    LET holder == parent.issuedTo
        own == parent.capabilities
        end == parent.expiresAt
    IN  CASE wrong = "attenuation" ->
               NewChild(parent, Proof(parent, holder, to, own, end, other), parent.chain, other, end)
          [] wrong = "snapshot" ->
               NewChild(parent, Proof(parent, holder, to, other, end, other), parent.chain, other, end)
          [] wrong = "leaf" ->
               NewChild(parent, Proof(parent, holder, to, own, end, own), parent.chain, other, end)
          [] wrong = "expiry" ->
               NewChild(parent, Proof(parent, holder, to, own, end, own), parent.chain, own, expiresAt)
          [] wrong = "snapshotExpiry" ->
               NewChild(parent, Proof(parent, holder, to, own, expiresAt, own), parent.chain, own, expiresAt)
          [] wrong = "holder" ->
               NewChild(parent, Proof(parent, to, holder, own, end, own), parent.chain, own, end)
          [] wrong = "prefix" ->
               NewChild(parent, Proof(parent, holder, to, own, end, own), <<>>, own, end)

(* A root of other software names a principal that did not issue it.       *)
IssueElsewhere(issuer, principal, to, capabilities) ==
    /\ dgIssued < MaxDgRoots
    /\ issuer # principal
    /\ Store([NewRoot(issuer, to, capabilities, MaxDgTime) EXCEPT !.principal = principal])

DelegateElsewhere(parent, to, other, expiresAt, wrong) ==
    Store(ForeignToken(parent, to, other, expiresAt, wrong))

Event == dgEvents < MaxDgEvents /\ dgEvents' = dgEvents + 1

Remove(id) ==
    /\ Event
    /\ dgStore[id] # NoToken
    /\ dgStore' = [dgStore EXCEPT ![id] = NoToken]
    /\ UNCHANGED <<dgRevoked, dgKeys, dgClock, dgIssued, dgCheck>>

RevokeToken(id) ==
    /\ Event
    /\ id <= dgIssued
    /\ dgRevoked' = dgRevoked \cup {id}
    /\ UNCHANGED <<dgStore, dgKeys, dgClock, dgIssued, dgCheck>>

RotateAgentKey(a) ==
    /\ Event
    /\ dgKeys[a].version < MaxKey
    /\ dgKeys' = [dgKeys EXCEPT ![a] = [version |-> @.version + 1, startedAt |-> dgClock]]
    /\ UNCHANGED <<dgStore, dgRevoked, dgClock, dgIssued, dgCheck>>

DgTick ==
    /\ Event
    /\ dgClock < MaxDgTime
    /\ dgClock' = dgClock + 1
    /\ UNCHANGED <<dgStore, dgRevoked, dgKeys, dgIssued, dgCheck>>

-----------------------------------------------------------------------------
(* Verification *)

(* resolvePublicKeys: the previous key stays until the grace period ends.  *)
ResolveKeys(did) ==
    LET k == dgKeys[did]
    IN  [current |-> <<did, k.version>>,
         previous |-> IF k.version > 1 /\ dgClock - k.startedAt < KeyGrace
                      THEN {[key |-> <<did, k.version - 1>>, validBefore |-> k.startedAt]}
                      ELSE {}]

SignedBy(key, resolved, signedAt) ==
    \/ key = resolved.current
    \/ \E p \in resolved.previous : signedAt <= p.validBefore /\ key = p.key

(* verifyCapabilityToken, for a token without a chain.                     *)
VerifyCapabilityToken(token, now) ==
    /\ token.issuer \in DgPrincipals
    /\ token.issuedAt <= now
    /\ now < token.expiresAt
    /\ token.chain = <<>>
    /\ token.specVersion = "0.1.0" =>
         \A c \in token.capabilities : c.scope.type \notin {"temporal_scope", "cumulative_limit"}
    /\ token.key = <<token.issuer, 0>>

(* The checks of a chain before anything is awaited.                       *)
ChainAcceptable(token) ==
    LET chain == token.chain
    IN  /\ token.specVersion # "0.1.0"
        /\ Len(chain) <= MaxDelegationDepth
        /\ \A k \in 1..Len(chain) :
              chain[k].delegatee \notin
                 {chain[1].delegator} \cup {chain[j].delegatee : j \in 1..(k - 1)}

(* What a link claims of its parent against the parent the store holds.    *)
ProofMatchesParent(token, proof, parent) ==
    /\ proof.delegator = parent.issuedTo
    /\ parent.issuer = token.issuer /\ parent.principal = token.principal
    /\ proof.parentCapabilities = parent.capabilities
    /\ proof.parentExpiresAt = parent.expiresAt
    /\ parent.id = proof.parentTokenId

ParentVerified(c, parent) ==
    IF c.i = 1 THEN VerifyCapabilityToken(parent, c.now)
               ELSE SignedBy(parent.key, c.keys[c.token.chain[c.i - 1].delegator], parent.issuedAt)

LinkHolds(c, parent) ==
    LET proof == c.token.chain[c.i]
    IN  /\ SignedBy(proof.key, c.keys[proof.delegator], proof.created)
        /\ parent # NoToken
        /\ ProofMatchesParent(c.token, proof, parent)
        /\ ParentVerified(c, parent)
        /\ ValidateAttenuation(proof.parentCapabilities, proof.attenuated)
        /\ c.i < Len(c.token.chain) =>
              proof.attenuated = c.token.chain[c.i + 1].parentCapabilities

LinkUnexpired(c) ==
    LET proof == c.token.chain[c.i]
    IN  /\ c.token.expiresAt <= proof.parentExpiresAt
        /\ proof.parentExpiresAt > c.now
        /\ c.i > 1 => proof.delegator = c.token.chain[c.i - 1].delegatee

LeafBound(c) ==
    LET last == c.token.chain[Len(c.token.chain)]
    IN  /\ c.token.issuer = c.token.principal
        /\ last.delegatee = c.token.issuedTo
        /\ c.token.capabilities = last.attenuated
        /\ c.token.signer = last.delegator
        /\ \A k \in 1..Len(c.token.chain) : c.token.chain[k].signer = c.token.chain[k].delegator
        /\ SignedBy(c.token.key, c.keys[last.delegator], c.token.issuedAt)

Fresh(token, now) == token.issuedAt <= now /\ now < token.expiresAt

(* token-store lookup and holder of the token; RuntimeGuard reads the time *)
(* window here, the orchestrator once it has the sender's document.        *)
BeginCheck(id, flow) ==
    /\ dgCheck = NoCheck
    /\ id = dgIssued
    /\ dgStore[id] # NoToken
    /\ LET token == dgStore[id]
           began == [NoCheck EXCEPT !.flow = flow, !.token = token, !.now = dgClock,
                                    !.seen = dgRevoked, !.i = 1]
           stage == IF flow = "orchestrator" THEN "sender"
                    ELSE IF ~ Fresh(token, dgClock) THEN "done"
                    ELSE IF token.chain # <<>>
                         THEN (IF ChainAcceptable(token) THEN "keys" ELSE "done")
                    ELSE (IF VerifyCapabilityToken(token, dgClock) THEN "guardRevoked" ELSE "done")
       IN  dgCheck' = [began EXCEPT !.pc = stage,
                                    !.result = IF stage = "done" THEN "denied" ELSE "none"]
    /\ UNCHANGED <<dgStore, dgRevoked, dgKeys, dgClock, dgIssued, dgEvents>>

Go(pc) == dgCheck' = [dgCheck EXCEPT !.pc = pc]
Answered(result) == dgCheck' = [dgCheck EXCEPT !.pc = "done", !.result = result]
CheckOnly == UNCHANGED <<dgStore, dgRevoked, dgKeys, dgClock, dgIssued, dgEvents>>

(* The sender's document is awaited: it may be missing or name another     *)
(* principal.  The time window is read after that.                         *)
SenderBinding ==
    /\ dgCheck.pc = "sender"
    /\ \/ Answered("denied")
       \/ /\ Fresh(dgCheck.token, dgClock)
          /\ dgCheck' = [dgCheck EXCEPT !.pc = "leafRevoked", !.now = dgClock]
    /\ CheckOnly

LeafRevocation ==
    /\ dgCheck.pc = "leafRevoked"
    /\ IF dgCheck.token.id \in dgRevoked THEN Answered("denied") ELSE Go("leafKeys")
    /\ CheckOnly

(* The orchestrator verifies the token's own signature before the chain.   *)
LeafSignature ==
    /\ dgCheck.pc = "leafKeys"
    /\ LET token == dgCheck.token
       IN  IF token.chain = <<>>
           THEN Answered(IF VerifyCapabilityToken(token, dgCheck.now) THEN "allowed" ELSE "denied")
           ELSE IF token.signer = token.chain[Len(token.chain)].delegator
                   /\ SignedBy(token.key, ResolveKeys(token.signer), token.issuedAt)
                   /\ ChainAcceptable(token)
                THEN Go("keys") ELSE Answered("denied")
    /\ CheckOnly

Delegators == {dgCheck.token.chain[k].delegator : k \in 1..Len(dgCheck.token.chain)}

ResolveDelegatorKey(did) ==
    /\ dgCheck.pc = "keys"
    /\ did \in Delegators /\ dgCheck.keys[did] = NotResolved
    /\ LET keys == [dgCheck.keys EXCEPT ![did] = ResolveKeys(did)]
       IN  dgCheck' = [dgCheck EXCEPT
              !.keys = keys,
              !.pc = IF \A d \in Delegators : keys[d] # NotResolved THEN "link" ELSE "keys"]
    /\ CheckOnly

FetchParent ==
    /\ dgCheck.pc = "link"
    /\ LET parent == dgStore[dgCheck.token.chain[dgCheck.i].parentTokenId]
       IN  IF LinkHolds(dgCheck, parent)
           THEN dgCheck' = [dgCheck EXCEPT !.pc = "parentRevoked",
                                           !.parents = Append(@, parent)]
           ELSE Answered("denied")
    /\ CheckOnly

\* mutant: only the last parent of the chain is looked up
ParentRevoked_LastOnly(c) ==
    c.i = Len(c.token.chain) /\ c.token.chain[c.i].parentTokenId \in dgRevoked

(* The revocation of a parent ends the check; after the last link the leaf *)
(* is bound to it, and RuntimeGuard still asks for the token itself.       *)
ParentRevoked(c) == c.token.chain[c.i].parentTokenId \in dgRevoked

CheckParent ==
    /\ dgCheck.pc = "parentRevoked"
    /\ IF ParentRevoked(dgCheck) \/ ~ LinkUnexpired(dgCheck) THEN Answered("denied")
       ELSE IF dgCheck.i < Len(dgCheck.token.chain)
            THEN dgCheck' = [dgCheck EXCEPT !.pc = "link", !.i = @ + 1]
       ELSE IF ~ LeafBound(dgCheck) THEN Answered("denied")
       ELSE IF dgCheck.flow = "guard" THEN Go("guardRevoked") ELSE Answered("allowed")
    /\ CheckOnly

GuardRevocation ==
    /\ dgCheck.pc = "guardRevoked"
    /\ Answered(IF dgCheck.token.id \in dgRevoked THEN "denied" ELSE "allowed")
    /\ CheckOnly

DgNext ==
    \/ \E p \in DgIssuers, to \in DgHolders, g \in DgGrants, e \in 1..MaxDgTime :
          IssueRoot(p, to, g, e)
    \/ \E p \in DgIssuers, q \in DgPrincipals, to \in DgHolders, g \in DgGrants : IssueElsewhere(p, q, to, g)
    \/ /\ dgCheck = NoCheck
       /\ \E id \in DgIds, to \in DgAgents, g \in DgGrants, e \in 1..MaxDgTime :
             /\ dgStore[id] # NoToken
             /\ \/ Delegate(dgStore[id], to, g, e)
                \/ \E wrong \in {"attenuation", "snapshot", "leaf", "expiry", "snapshotExpiry",
                                 "holder", "prefix"} : DelegateElsewhere(dgStore[id], to, g, e, wrong)
    \/ \E id \in DgIds : Remove(id) \/ RevokeToken(id)
    \/ \E a \in DgAgents : RotateAgentKey(a)
    \/ DgTick
    \/ \E id \in DgIds, flow \in {"orchestrator", "guard"} : BeginCheck(id, flow)
    \/ SenderBinding \/ LeafRevocation \/ LeafSignature
    \/ \E a \in DgAgents : ResolveDelegatorKey(a)
    \/ FetchParent \/ CheckParent \/ GuardRevocation

DgSpec == DgInit /\ [][DgNext]_dgVars

-----------------------------------------------------------------------------
CheckPassed == dgCheck.result = "allowed"

(* A token is let through only if neither it nor any token it was derived  *)
(* from was on the revocation list when the check began or had expired     *)
(* when the check read the time (validateDelegationChain,                  *)
(* verifyCapability, RuntimeGuard.check).                                  *)
NothingRevokedOrExpired ==
    CheckPassed =>
      /\ dgCheck.token.id \notin dgCheck.seen
      /\ dgCheck.now < dgCheck.token.expiresAt
      /\ \A k \in 1..Len(dgCheck.token.chain) :
            dgCheck.token.chain[k].parentTokenId \notin dgCheck.seen
      /\ \A k \in 1..Len(dgCheck.parents) : dgCheck.now < dgCheck.parents[k].expiresAt

(* A token that is let through was handed down from a token the principal  *)
(* issued itself, each time by the one who held it, and permits no request *)
(* that the token it came from refuses, whatever software made it, except  *)
(* for the early hours that narrowing a window across midnight may move.   *)
AuthorityComesFromAbove ==
    CheckPassed =>
      LET parents == dgCheck.parents
          all == Append(parents, dgCheck.token)
      IN  /\ Len(parents) = Len(dgCheck.token.chain)
          /\ all[1].chain = <<>> /\ all[1].key = <<all[1].issuer, 0>>
          /\ parents # <<>> => all[1].issuer = all[1].principal
          /\ \A k \in 1..Len(parents) :
                /\ all[k + 1].key[1] = all[k].issuedTo
                /\ dgCheck.token.expiresAt <= all[k].expiresAt
                /\ \A r \in DgRequests :
                      Permits(all[k + 1].capabilities, r) =>
                        \/ Permits(all[k].capabilities, r)
                        \/ DayMoves(all[k].capabilities, all[k + 1].capabilities)

-----------------------------------------------------------------------------
(***************************************************************************)
(* Tokens signed by several parties: their issuance                        *)
(* (identity/src/credentials/multisig/multisig-token-issuer.ts), the       *)
(* Merkle tree over the signers (crypto/src/multisig/merkle-tree.ts), the  *)
(* factory (types/src/multisig/types.ts) and the verification              *)
(* (verify-multisig.ts, multisig-token-verifier.ts).                       *)
(*                                                                         *)
(* A signature is its key and what was signed.  Leaves and inner nodes are *)
(* tuples of what is hashed, so two are equal only when their contents     *)
(* are.  A token may be changed between issuer and verifier.  The          *)
(* verifier's challenge is kept by the caller of verifyMultisigToken.      *)
(***************************************************************************)

CONSTANTS
    MsLists,       \* lists of signers: sequences of [id, role, publicKey, privateKey]
    MsThresholds,
    MsAudiences,   \* verifiers
    MaxSigners,    \* bound: length of a list
    MsWindow,      \* minValidityWindowMs
    MsLife,        \* how long a payload is valid
    MaxMsTokens,   \* bound: tokens issued
    MaxMsChanges,  \* bound: tokens changed on their way
    MaxMsTime      \* bound: clock and challenges

ASSUME MultisigAssumption ==
    /\ \A s \in MsLists : Len(s) \in 0..MaxSigners
    /\ MsThresholds \subseteq Nat /\ MsWindow \in Nat /\ MsLife \in Nat

VARIABLES
    msNow,        \* the clock
    msChallenge,  \* verifier -> the number of its current challenge
    msIssued,     \* tokens issued, with the clock
    msWire,       \* tokens that may be presented
    msVerdict,    \* the last verdict, as a set: [token, verifier, challenge, at, accepted]
    msChanges     \* tokens changed (bound)
msVars == <<msNow, msChallenge, msIssued, msWire, msVerdict, msChanges>>

\* the CanonicalSignedPayload a holder puts together for verifier v
CspFor(v) == [audience |-> v, challenge |-> msChallenge[v], notAfter |-> msNow + MsLife]
\* An Ed25519 signature, and whether it verifies
Signed(key, csp) == <<"signature", key, csp>>
SignatureValid(signature, csp, publicKey) == signature = Signed(publicKey, csp)

-----------------------------------------------------------------------------
(* The Merkle tree *)

GenerateMerkleLeaf(s) == <<"leaf", s.id, s.role, s.signature>>
Hash(left, right) == <<left, right>>

\* mutant: the last of an odd number of nodes is paired with itself
NextLevel_Duplicates(nodes) ==
    [i \in 1..((Len(nodes) + 1) \div 2) |->
        IF 2 * i <= Len(nodes) THEN Hash(nodes[2 * i - 1], nodes[2 * i])
        ELSE IF i = 1 THEN nodes[1] ELSE Hash(nodes[2 * i - 1], nodes[2 * i - 1])]

\* the nodes in pairs; the last of an odd number moves up as it is
NextLevel(nodes) ==
    [i \in 1..((Len(nodes) + 1) \div 2) |->
        IF 2 * i <= Len(nodes) THEN Hash(nodes[2 * i - 1], nodes[2 * i]) ELSE nodes[2 * i - 1]]

\* levels[0] are the leaves; a level of one node stays
Levels(leaves) ==
    LET level[k \in 0..MaxSigners] == IF k = 0 THEN leaves ELSE NextLevel(level[k - 1])
    IN  level
Height(leaves) == CHOOSE k \in 0..MaxSigners : /\ Len(Levels(leaves)[k]) = 1
                                               /\ \A j \in 0..(k - 1) : Len(Levels(leaves)[j]) > 1
MerkleRoot(leaves) == Levels(leaves)[MaxSigners][1]

\* the sibling of the i-th leaf's ancestor on each level, where there is one
MerklePath(leaves, i) ==
    LET index(k) == (i - 1) \div 2^(k - 1)
        isRightChild(k) == index(k) % 2 = 1
        sibling(k) == IF isRightChild(k) THEN index(k) - 1 ELSE index(k) + 1
        level(k) == Levels(leaves)[k - 1]
        segment(k) == [sibling |-> level(k)[sibling(k) + 1], direction |-> IF isRightChild(k) THEN 0 ELSE 1]
    IN  Seqs!FlattenSeq([k \in 1..Height(leaves) |-> IF sibling(k) < Len(level(k)) THEN <<segment(k)>> ELSE << >>])

\* mutant: the sides are mixed up
Climb_Swapped(node, segment) ==
    IF segment.direction = 1 THEN Hash(segment.sibling, node) ELSE Hash(node, segment.sibling)

Climb(node, segment) ==
    IF segment.direction = 0 THEN Hash(segment.sibling, node) ELSE Hash(node, segment.sibling)

VerifyMerkleInclusion(leaf, path, root) == Seqs!FoldLeft(Climb, leaf, path) = root

-----------------------------------------------------------------------------
(* Issuance *)

DistinctIds(list) == \A i, j \in DOMAIN list : i # j => list[i].id # list[j].id

\* createMultisigToken; toMerklePath refuses an empty path
CreateMultisigToken(threshold, signers, proofs) ==
    /\ threshold >= 1 /\ Len(signers) >= threshold /\ DistinctIds(signers)
    /\ Len(proofs) = Len(signers)
    /\ \A i, j \in DOMAIN proofs : i # j => proofs[i].signerId # proofs[j].signerId
    /\ {proofs[i].signerId : i \in DOMAIN proofs} \subseteq {signers[i].id : i \in DOMAIN signers}
    /\ \A i \in DOMAIN proofs : proofs[i].path # << >>

SignersOf(list, csp) ==
    [i \in DOMAIN list |-> [id |-> list[i].id, role |-> list[i].role, publicKey |-> list[i].publicKey,
                            signature |-> Signed(list[i].privateKey, csp)]]
InclusionProofs(signers) ==
    LET leaves == [i \in DOMAIN signers |-> GenerateMerkleLeaf(signers[i])]
    IN  [i \in DOMAIN signers |-> [signerId |-> signers[i].id, path |-> MerklePath(leaves, i)]]
MultisigToken(threshold, signers, csp) ==
    [threshold |-> threshold, signers |-> signers, csp |-> csp,
     merkleRoot |-> MerkleRoot([i \in DOMAIN signers |-> GenerateMerkleLeaf(signers[i])]),
     inclusionProofs |-> InclusionProofs(signers)]
ValidCount(signers, csp) ==
    Cardinality({i \in DOMAIN signers : SignatureValid(signers[i].signature, csp, signers[i].publicKey)})

\* issueMultisigToken; every check that throws leaves no token
IssueMultisigToken(list, threshold, csp) ==
    LET signers == SignersOf(list, csp)
    IN  /\ Cardinality(msIssued) < MaxMsTokens
        /\ list # << >> /\ threshold >= 1 /\ Len(list) >= threshold /\ DistinctIds(list)
        /\ ValidCount(signers, csp) >= threshold
        /\ CreateMultisigToken(threshold, signers, InclusionProofs(signers))
        /\ msIssued' = msIssued \cup {MultisigToken(threshold, signers, csp)}
        /\ msWire' = msWire \cup {MultisigToken(threshold, signers, csp)}
        /\ UNCHANGED <<msNow, msChallenge, msVerdict, msChanges>>

-----------------------------------------------------------------------------
(* On the way: a signer is left out with its proof, its role is changed,   *)
(* proofs change places, or a token gets the payload or a signer of        *)
(* another.                                                                *)

Without(s, i) == SubSeq(s, 1, i - 1) \o SubSeq(s, i + 1, Len(s))
Swap(s) == [s EXCEPT ![1].path = s[2].path, ![2].path = s[1].path]
OtherRole(role) == IF role = "human" THEN "agent" ELSE "human"
Changed(t, u, i) ==
    {[t EXCEPT !.signers = Without(t.signers, i), !.inclusionProofs = Without(t.inclusionProofs, i)],
     [t EXCEPT !.signers[i].role = OtherRole(t.signers[i].role)],
     [t EXCEPT !.inclusionProofs = Swap(t.inclusionProofs)],
     [t EXCEPT !.csp = u.csp],
     [t EXCEPT !.signers[i] = u.signers[1]],
     [t EXCEPT !.signers = Append(t.signers, u.signers[1]), !.inclusionProofs = Append(t.inclusionProofs, u.inclusionProofs[1])]}
ChangeToken(t, u) ==
    /\ msChanges < MaxMsChanges /\ msChanges' = msChanges + 1
    /\ \E i \in DOMAIN t.signers : \E c \in Changed(t, u, i) : msWire' = msWire \cup {c}
    /\ UNCHANGED <<msNow, msChallenge, msIssued, msVerdict>>

-----------------------------------------------------------------------------
(* Verification *)

\* the payload is bound to this verifier, its challenge and the time
CspHolds(csp, v) ==
    /\ csp.challenge = msChallenge[v] /\ csp.audience = v
    /\ csp.notAfter > msNow + MsWindow

\* the shape the schema and steps 3 and 4 of verifyMultisigProof ask for
TokenComplete(t) ==
    /\ t.signers # << >> /\ CreateMultisigToken(t.threshold, t.signers, t.inclusionProofs)

ProofOf(t, id) == t.inclusionProofs[CHOOSE i \in DOMAIN t.inclusionProofs : t.inclusionProofs[i].signerId = id]

\* mutant: enough signatures verify
SignersHold_Quorum(t) ==
    /\ \A i \in DOMAIN t.signers :
          VerifyMerkleInclusion(GenerateMerkleLeaf(t.signers[i]), ProofOf(t, t.signers[i].id).path, t.merkleRoot)
    /\ ValidCount(t.signers, t.csp) >= t.threshold

\* mutant: the leaf is not looked up in the tree
SignersHold_NoTree(t) == ValidCount(t.signers, t.csp) = Len(t.signers)

\* every signer is in the tree, and every signature verifies
SignersHold(t) ==
    \A i \in DOMAIN t.signers :
        /\ VerifyMerkleInclusion(GenerateMerkleLeaf(t.signers[i]), ProofOf(t, t.signers[i].id).path, t.merkleRoot)
        /\ SignatureValid(t.signers[i].signature, t.csp, t.signers[i].publicKey)

VerifyMultisigProof(t) ==
    /\ TokenComplete(t) /\ SignersHold(t) /\ ValidCount(t.signers, t.csp) >= t.threshold

VerifyMultisigToken(t, v) ==
    /\ msVerdict' = {[token |-> t, verifier |-> v, challenge |-> msChallenge[v], at |-> msNow,
                      accepted |-> CspHolds(t.csp, v) /\ VerifyMultisigProof(t)]}
    /\ UNCHANGED <<msNow, msChallenge, msIssued, msWire, msChanges>>

-----------------------------------------------------------------------------
NewChallenge(v) ==
    /\ msChallenge[v] < MaxMsTime /\ msChallenge' = [msChallenge EXCEPT ![v] = @ + 1]
    /\ UNCHANGED <<msNow, msIssued, msWire, msVerdict, msChanges>>

MsTick ==
    /\ msNow < MaxMsTime /\ msNow' = msNow + 1
    /\ UNCHANGED <<msChallenge, msIssued, msWire, msVerdict, msChanges>>

MsInit ==
    /\ msNow = 0 /\ msChallenge = [v \in MsAudiences |-> 0]
    /\ msIssued = {} /\ msWire = {} /\ msVerdict = {} /\ msChanges = 0

MsNext ==
    \/ \E list \in MsLists, n \in MsThresholds, v \in MsAudiences : IssueMultisigToken(list, n, CspFor(v))
    \/ \E t, u \in msWire : ChangeToken(t, u)
    \/ \E t \in msWire, v \in MsAudiences : VerifyMultisigToken(t, v)
    \/ \E v \in MsAudiences : NewChallenge(v)
    \/ MsTick

MsSpec == MsInit /\ [][MsNext]_msVars

-----------------------------------------------------------------------------
(* The Merkle tree hash of RFC 6962: the leaves are split at the largest   *)
(* power of two below their number.                                        *)
Split(n) == CHOOSE k \in {2^j : j \in 0..MaxSigners} : k < n /\ 2 * k >= n
ReferenceRoot(leaves) ==
    LET range == {r \in (1..Len(leaves)) \X (1..Len(leaves)) : r[1] <= r[2]}
        root[r \in range] ==
            LET n == r[2] - r[1] + 1
            IN  IF n = 1 THEN leaves[r[1]]
                ELSE Hash(root[<<r[1], r[1] + Split(n) - 1>>], root[<<r[1] + Split(n), r[2]>>])
    IN  root[<<1, Len(leaves)>>]

\* Clock, challenges and counters keep their types, and what is judged was presented.
MsTypeOK ==
    /\ msNow \in 0..MaxMsTime /\ msChallenge \in [MsAudiences -> 0..MaxMsTime]
    /\ msIssued \subseteq msWire /\ msChanges \in 0..MaxMsChanges
    /\ \A a \in msVerdict : a.token \in msWire

\* The tree of an issued token is the one of RFC 6962, and the path of a signer leads its own leaf,
\* and no other signer's, to the root (buildMerkleTree, verifyMerkleInclusion).
TreesAreRfc6962 ==
    \A t \in msIssued :
        LET leaves == [i \in DOMAIN t.signers |-> GenerateMerkleLeaf(t.signers[i])]
        IN  /\ t.merkleRoot = ReferenceRoot(leaves)
            /\ \A i, j \in DOMAIN leaves :
                  VerifyMerkleInclusion(leaves[j], t.inclusionProofs[i].path, t.merkleRoot) <=> i = j

\* Whatever happens to a token on its way, the signers of an accepted one are signers of one issued
\* token with the role they had there, each of them signed the payload it is accepted for, they are
\* different and at least the threshold, and the payload names the verifier, its challenge and a
\* time to come (verifyMultisigToken).
AcceptedIsIssued ==
    \A a \in msVerdict : LET t == a.token IN a.accepted =>
        /\ \E o \in msIssued : \A i \in DOMAIN t.signers : \E k \in DOMAIN o.signers :
              /\ t.signers[i].id = o.signers[k].id /\ t.signers[i].role = o.signers[k].role
              /\ t.signers[i].signature = o.signers[k].signature
        /\ \A i \in DOMAIN t.signers : t.signers[i].signature = Signed(t.signers[i].publicKey, t.csp)
        /\ Cardinality({t.signers[i].id : i \in DOMAIN t.signers}) >= t.threshold
        /\ t.csp.audience = a.verifier /\ t.csp.challenge = a.challenge /\ t.csp.notAfter > a.at + MsWindow

\* A token is not refused as it was issued, to the verifier it is meant for, in time and under its
\* challenge, when the keys of its signers belong together (issueMultisigToken's pre-verification
\* asks for no more than the threshold).
IssuedIsAccepted ==
    \A r \in msVerdict : LET t == r.token IN
        t \in msIssued /\ ~r.accepted =>
            \/ t.csp.audience # r.verifier \/ t.csp.challenge # r.challenge \/ t.csp.notAfter <= r.at + MsWindow
            \/ ValidCount(t.signers, t.csp) < Len(t.signers)

MultisigIsSound == TreesAreRfc6962 /\ AcceptedIsIssued /\ IssuedIsAccepted
=============================================================================
