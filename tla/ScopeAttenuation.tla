-------------------------- MODULE ScopeAttenuation --------------------------
(***************************************************************************)
(* A principal issues a token and each holder delegates a narrower one     *)
(* (identity/src/token-issuer.ts): saRoot is what the principal granted,   *)
(* saLeaf what the last holder was given.  The question is whether the     *)
(* chain of pairwise checks keeps the leaf within the root when            *)
(* ScopeEvaluator, which is other code in another package, decides what    *)
(* each of them permits.                                                   *)
(***************************************************************************)
EXTENDS Scopes

CONSTANTS SaGrants,     \* the lists of capabilities tokens are made of
          SaRequests    \* the requests that are put to them

ASSUME SaAssumption ==
    /\ \A capabilities \in SaGrants : \A c \in capabilities : IsScope(c.scope)
    /\ \A r \in SaRequests : r.amount \in Int /\ r.used \in Int /\ r.at \in Int

VARIABLES saRoot, saLeaf, saDepth
saVars == <<saRoot, saLeaf, saDepth>>

SaTypeOK ==
    /\ saRoot \in SaGrants \cup {{}}
    /\ saLeaf \in SaGrants \cup {{}}
    /\ saDepth \in 0..MaxDelegationDepth

SaInit == saRoot = {} /\ saLeaf = {} /\ saDepth = 0

IssueCapabilityToken(capabilities) ==
    /\ saRoot = {}
    /\ capabilities # {}
    /\ saRoot' = capabilities
    /\ saLeaf' = capabilities
    /\ UNCHANGED saDepth

DelegateCapabilityToken(capabilities) ==
    /\ saRoot # {}
    /\ capabilities # {}
    /\ ValidateAttenuation(saLeaf, capabilities)
    /\ saDepth + 1 <= MaxDelegationDepth
    /\ saLeaf' = capabilities
    /\ saDepth' = saDepth + 1
    /\ UNCHANGED saRoot

SaNext == \E capabilities \in SaGrants :
              \/ IssueCapabilityToken(capabilities)
              \/ DelegateCapabilityToken(capabilities)

SaSpec == SaInit /\ [][SaNext]_saVars

-----------------------------------------------------------------------------
(* A delegated token permits nothing its principal's token does not,       *)
(* except that it may permit the early hours of another day when a window  *)
(* that crosses midnight on given weekdays was narrowed to one that does   *)
(* not (validateAttenuation against ScopeEvaluator).                       *)
LeafWithinRootButForMidnight ==
    saDepth > 0 /\ ~ DayMoves(saRoot, saLeaf) =>
       \A r \in SaRequests : Permits(saLeaf, r) => Permits(saRoot, r)
=============================================================================
