------------------------------ MODULE MCIdentity ------------------------------
(***************************************************************************)
(* Who somebody is and what they may still do, for TLC: the registry and   *)
(* its key rotation (IdentityRegistry), the federated resolver             *)
(* (FederatedResolver), the chains of controllers (ControllerChain) and of *)
(* delegated tokens and tokens of several signers (both in Tokens),        *)
(* revocation and its caches (Revocation) and the trust boundaries         *)
(* (TrustBoundary).  They share no state, so a behaviour runs one of them, *)
(* which `part` names.                                                     *)
(***************************************************************************)
EXTENDS IdentityRegistry, FederatedResolver, ControllerChain, Tokens, Revocation, TrustBoundary, TLC

CONSTANT Parts   \* the parts that are run

VARIABLE part

IdentityInit ==
    /\ part \in Parts
    /\ IdInit /\ FrInit /\ CcInit /\ DgInit /\ MsInit /\ RevInit /\ TbInit

IdentityNext ==
    /\ UNCHANGED part
    /\ IF part = "registry" THEN IdNext ELSE UNCHANGED idVars
    /\ IF part = "resolver" THEN FrNext ELSE UNCHANGED frVars
    /\ IF part = "controllers" THEN CcNext ELSE UNCHANGED ccVars
    /\ IF part = "delegation" THEN DgNext ELSE UNCHANGED dgVars
    /\ IF part = "multisig" THEN MsNext ELSE UNCHANGED msVars
    /\ IF part = "revocation" THEN RevNext ELSE UNCHANGED revVars
    /\ IF part = "boundary" THEN TbNext ELSE UNCHANGED tbVars

identityVars == <<part, idVars, frVars, ccVars, dgVars, msVars, revVars, tbVars>>

IdentitySpec == IdentityInit /\ [][IdentityNext]_identityVars

-----------------------------------------------------------------------------
(* What is put to the parts.                                               *)

\* a target controlled by c1, which documents may move under another controller
Controlled(controller, method, signed) == [controller |-> controller, method |-> method, signed |-> signed]
PublishedAtFirst ==
    [t |-> Controlled("c1", "t", TRUE), c1 |-> Controlled("none", "c1", TRUE),
     c2 |-> Controlled("none", "c2", TRUE), c3 |-> Controlled("none", "c3", TRUE)]
LaterDocuments ==
    {Controlled("c2", "c1", TRUE), Controlled("c1", "c2", TRUE), Controlled("c3", "c2", TRUE),
     Controlled("none", "c1", FALSE), Controlled("none", "t", TRUE)}
\* freshness proofs a resolver may offer: unsigned, from the future, with too long a window
Offers ==
    {[asOf |-> 0, window |-> 1], [asOf |-> 2, window |-> 1], [asOf |-> 0, window |-> 3]}

\* tokens to read up to a limit, and requests below and above it
TokenGrants == {{[action |-> "read", scope |-> NumericLimitScope(max)]} : max \in 1..2}
TokenRequests == [action : {"read"}, target : {NoTarget}, amount : 1..3, used : {0}, at : {0}]
\* agents that no principal grants a token are alike
IdentitySymmetry == Permutations(DgAgents \ DgHolders)

\* lists of signers: one to five, a repeated one, one whose keys do not belong together
Signatory(id, role) == [id |-> id, role |-> role, publicKey |-> id, privateKey |-> id]
Signatories == <<Signatory("a", "human"), Signatory("b", "agent"), Signatory("c", "human"),
                 Signatory("d", "agent"), Signatory("e", "human")>>
SignerLists ==
    {SubSeq(Signatories, 1, n) : n \in {0, 1, 2, 3, 5}}
      \cup {<<Signatories[1], Signatories[1]>>,
            <<Signatories[3], Signatories[2], [Signatory("m", "human") EXCEPT !.privateKey = "n"]>>}

-----------------------------------------------------------------------------
\* Whatever transitions, re-creations and verifications overlap, a boundary runs for a window
\* somebody proved (lifecycle-manager.ts).
BoundariesAreProven == part = "boundary" => TbTypeOK /\ BoundaryIsProven

\* A revoked token is reported valid for no longer than the two caches allow, and nothing that was
\* not revoked is reported revoked (revocation-api.ts, revocation.ts).
RevocationsReachEverybody ==
    part = "revocation" => RevTypeOK /\ StaleForAtMostTheTtls /\ RevocationsAreReal

\* A token or a chain of controllers that was accepted hangs together from its root to its leaf and
\* held nothing revoked or expired when the check began, although every step of the check is
\* awaited (delegation-validator.ts, controller-chain-resolution.ts).
AcceptedChainsAreSound ==
    /\ part = "delegation" => DgTypeOK /\ NothingRevokedOrExpired /\ AuthorityComesFromAbove
    /\ part = "controllers" => CcTypeOK /\ AcceptedChainsHold

\* The signers of an accepted token all signed it and are as it was issued, whatever happened to
\* the token on its way (multisig-token-issuer.ts, merkle-tree.ts, verify-multisig.ts).
SignersAreAsIssued == part = "multisig" => MsTypeOK /\ MultisigIsSound

\* Nothing resolved before an invalidation is found in the cache after it, though a resolution is
\* in flight when invalidateCache is called (federated-resolver.ts).
InvalidatedIsForgotten ==
    /\ part = "registry" => IdTypeOK
    /\ part = "resolver" => FrTypeOK /\ InvalidationIsFinal

\* Nothing goes back: no update of a document is lost, nor the key it publishes but to the catch of
\* its own run or to a staging over what a killed run left; nothing older than the stored watermark
\* is handed out; and an ended boundary comes back only to a transition that overlapped its end
\* (registry.ts update, runIdentityRotate, federated-resolver.ts fanOut, transitionState).
HistoryIsKept ==
    [][/\ UpdatesBuildOnWhatTheyReplace /\ PublishedKeyIsKept
       /\ NeverBehindTheWatermark /\ EndedUnlessOverlapped]_identityVars

\* "once the registry publishes the new public key, the local side definitely holds the matching
\* private key" (runIdentityRotate, runtime.ts): the catch of the rotation does not keep it.
KeyIsHeld == PublishedKeyIsHeld
=============================================================================
