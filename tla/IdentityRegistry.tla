--------------------------- MODULE IdentityRegistry ---------------------------
(***************************************************************************)
(* The identity of one agent: the registries of a federation that keep its *)
(* document (identity/src/registry.ts, identity/src/routes.ts), and the    *)
(* command that rotates its key on the operator's machine                  *)
(* (identity/src/key-rotation.ts, sdk/src/cli/commands/identity.ts), which *)
(* stages the new private key in a file, publishes the new public key, and *)
(* then commits or discards the file.                                      *)
(*                                                                         *)
(* A key is a number; key 1 is the one the DID is derived from.  A         *)
(* document is its key, the key its rotation proof starts from (0 for no   *)
(* proof) and its version.                                                 *)
(***************************************************************************)
EXTENDS Integers, FiniteSets

CONSTANTS IdNodes,         \* the registries
          IdHome,          \* the one the operator's command talks to
          IdTools,         \* runs of the rotate command that may overlap
          IdWriters,       \* other callers of update()
          MaxIdKeys,       \* bounds of the model: keys made,
          MaxIdVersion,    \* document versions,
          MaxIdEvents      \* and registrations, reads, deactivations and crashes

ASSUME IdentityAssumption ==
    /\ IdHome \in IdNodes /\ IdTools \cap IdWriters = {}
    /\ MaxIdKeys \in Nat /\ MaxIdKeys > 1 /\ MaxIdVersion \in Nat /\ MaxIdVersion > 1 /\ MaxIdEvents \in Nat

VARIABLES idRow,       \* identity.agents, one row for the DID at each node
          idSync,      \* documents on their way to /federation/sync of a node
          idCaller,    \* runs of the command and other updates
          idPending,   \* the key in <did>.pem.pending, 0 for no file
          idFile,      \* the key in <did>.pem
          idKeys,      \* number of keys generated
          idEvents
idVars == <<idRow, idSync, idCaller, idPending, idFile, idKeys, idEvents>>

IdDoc == [key : 1..MaxIdKeys, proof : 0..MaxIdKeys, version : 1..MaxIdVersion]
NoAgent == [status |-> "none"]
NoDocument == [key |-> 0, proof |-> 0, version |-> 0]
NoCaller == [pc |-> "idle", read |-> NoDocument, document |-> NoDocument]

(* The document createAgentIdentity makes.                                 *)
FirstDocument == [key |-> 1, proof |-> 0, version |-> 1]

IdTypeOK ==
    /\ \A n \in IdNodes :
          idRow[n] # NoAgent =>
              /\ idRow[n].document \in IdDoc
              /\ idRow[n].version \in 1..MaxIdVersion
              /\ idRow[n].previous \in IdDoc \cup {NoDocument}
              /\ idRow[n].status \in {"active", "deactivated"}
              /\ idRow[n].rotation \in {"ACTIVE", "ROTATING"}
    /\ idSync \subseteq [to : IdNodes, document : IdDoc]
    /\ idCaller \in [IdTools \cup IdWriters ->
                        [pc : {"idle", "read", "staged", "published", "failed"},
                         read : IdDoc \cup {NoDocument}, document : IdDoc \cup {NoDocument}]]
    /\ idPending \in 0..MaxIdKeys
    /\ idFile \in 1..MaxIdKeys
    /\ idKeys \in 1..MaxIdKeys
    /\ idEvents \in 0..MaxIdEvents

IdInit ==
    /\ idRow = [n \in IdNodes |-> NoAgent]
    /\ idSync = {}
    /\ idCaller = [c \in IdTools \cup IdWriters |-> NoCaller]
    /\ idPending = 0
    /\ idFile = 1
    /\ idKeys = 1
    /\ idEvents = 0

IdEvent == idEvents < MaxIdEvents /\ idEvents' = idEvents + 1

-----------------------------------------------------------------------------
(* The registry and its routes *)

(* A first version proves itself by its key, a later one by a rotation     *)
(* proof that ends in its key.  verifyRotationProof: the keys differ and   *)
(* the old key, the new key and the principal have all signed.             *)
VerifyRotationProof(document) == document.proof # 0 /\ document.proof # document.key

VerifyAgentIdentityDocument(document) ==
    IF document.version = 1 THEN document.key = 1 ELSE VerifyRotationProof(document)

(* The columns version and rotation_state take their defaults, whatever    *)
(* version the document carries.                                           *)
NewAgent(document) ==
    [document |-> document, version |-> 1, previous |-> NoDocument,
     status |-> "active", rotation |-> "ACTIVE"]

Register(n, document) ==
    IF VerifyAgentIdentityDocument(document) /\ idRow[n] = NoAgent
    THEN [idRow EXCEPT ![n] = NewAgent(document)]
    ELSE idRow

BroadcastTo(n, document) == {[to |-> m, document |-> document] : m \in IdNodes \ {n}}

(* POST /api/v1/identities; the broadcast is not awaited.                  *)
PostIdentity(n, document) ==
    /\ IdEvent
    /\ idRow[n] = NoAgent
    /\ VerifyAgentIdentityDocument(document)
    /\ idRow' = Register(n, document)
    /\ idSync' = idSync \cup BroadcastTo(n, document)
    /\ UNCHANGED <<idCaller, idPending, idFile, idKeys>>

(* POST /federation/sync: a document for a DID the node has is dropped.    *)
FederationSync(message) ==
    /\ message \in idSync
    /\ idSync' = idSync \ {message}
    /\ idRow' = Register(message.to, message.document)
    /\ UNCHANGED <<idCaller, idPending, idFile, idKeys, idEvents>>

SyncLost(message) ==
    /\ message \in idSync
    /\ idSync' = idSync \ {message}
    /\ UNCHANGED <<idRow, idCaller, idPending, idFile, idKeys, idEvents>>

(* DELETE /api/v1/identities/:did                                          *)
DeleteIdentity(n) ==
    /\ IdEvent
    /\ idRow[n] # NoAgent
    /\ idRow[n].status = "active"
    /\ idRow' = [idRow EXCEPT ![n].status = "deactivated"]
    /\ UNCHANGED <<idSync, idCaller, idPending, idFile, idKeys>>

(* query: the document of an active row, under the row's version.          *)
QueryIdentity(n) ==
    IF idRow[n] # NoAgent /\ idRow[n].status = "active"
    THEN [idRow[n].document EXCEPT !.version = idRow[n].version]
    ELSE NoDocument

\* mutant: the UPDATE without its condition on the version
VersionMatches_Ignored(row, document) == row.version <= document.version

(* The conditions update() puts on the row it has locked.                  *)
VersionMatches(row, document) == row.version = document.version - 1

MayUpdate(row, document) ==
    /\ row # NoAgent
    /\ row.status # "deactivated"
    /\ document.key # row.document.key => document.proof = row.document.key
    /\ VersionMatches(row, document)

UpdatedAgent(row, document) ==
    [document |-> document, version |-> document.version, previous |-> row.document,
     status |-> row.status,
     rotation |-> IF document.key # row.document.key THEN "ROTATING" ELSE row.rotation]

-----------------------------------------------------------------------------
(* Callers of update() *)

(* The command reads the document and the current private key, from its    *)
(* own file or from one the operator names (options.currentKeyFile); the   *)
(* only other file it ever wrote is a pending one a killed run left.  The  *)
(* proof fails unless key and document belong together.                    *)
InitiateKeyRotation(read) ==
    [key |-> idKeys + 1, proof |-> read.key, version |-> read.version + 1]

BeginRotation(t) ==
    /\ IdEvent
    /\ idCaller[t].pc = "idle"
    /\ QueryIdentity(IdHome) # NoDocument
    /\ QueryIdentity(IdHome).key \in {idFile, idPending}
    /\ QueryIdentity(IdHome).version < MaxIdVersion
    /\ idKeys < MaxIdKeys
    /\ idKeys' = idKeys + 1
    /\ idCaller' = [idCaller EXCEPT ![t] =
          [pc |-> "read", read |-> QueryIdentity(IdHome),
           document |-> InitiateKeyRotation(QueryIdentity(IdHome))]]
    /\ UNCHANGED <<idRow, idSync, idPending, idFile>>

\* mutant: the new key overwrites the old one before it is published
StageKey_Final(t) ==
    /\ idCaller[t].pc = "read"
    /\ idPending' = idCaller[t].document.key
    /\ idFile' = idCaller[t].document.key
    /\ idCaller' = [idCaller EXCEPT ![t].pc = "staged"]
    /\ UNCHANGED <<idRow, idSync, idKeys, idEvents>>

(* completeKeyRotation, then stagePrivateKeyFile.                          *)
StageKey(t) ==
    /\ idCaller[t].pc = "read"
    /\ idPending' = idCaller[t].document.key
    /\ idCaller' = [idCaller EXCEPT ![t].pc = "staged"]
    /\ UNCHANGED <<idRow, idSync, idFile, idKeys, idEvents>>

(* registry.update() and commit() share one try.  update() throws when the *)
(* row refuses the document or the database fails, and also when its       *)
(* COMMIT was executed and the answer was lost.                            *)
PublishKey(t) ==
    /\ idCaller[t].pc = "staged"
    /\ \/ /\ MayUpdate(idRow[IdHome], idCaller[t].document)
          /\ idRow' = [idRow EXCEPT ![IdHome] = UpdatedAgent(@, idCaller[t].document)]
          /\ \E pc \in {"published", "failed"} : idCaller' = [idCaller EXCEPT ![t].pc = pc]
       \/ /\ idCaller' = [idCaller EXCEPT ![t].pc = "failed"]
          /\ UNCHANGED idRow
    /\ UNCHANGED <<idSync, idPending, idFile, idKeys, idEvents>>

(* The rename of the pending file, which throws when there is none or the  *)
(* file system refuses it.                                                 *)
CommitKey(t) ==
    /\ idCaller[t].pc = "published"
    /\ \/ /\ idPending # 0
          /\ idFile' = idPending
          /\ idPending' = 0
          /\ idCaller' = [idCaller EXCEPT ![t] = NoCaller]
       \/ /\ idCaller' = [idCaller EXCEPT ![t].pc = "failed"]
          /\ UNCHANGED <<idPending, idFile>>
    /\ UNCHANGED <<idRow, idSync, idKeys, idEvents>>

(* The catch of both: the pending file is unlinked, whichever of the two   *)
(* calls failed.                                                           *)
RollbackKey(t) ==
    /\ idCaller[t].pc = "failed"
    /\ idPending' = 0
    /\ idCaller' = [idCaller EXCEPT ![t] = NoCaller]
    /\ UNCHANGED <<idRow, idSync, idFile, idKeys, idEvents>>

(* The operator declines, or the process is killed.                        *)
ToolDies(t) ==
    /\ IdEvent
    /\ idCaller[t].pc # "idle"
    /\ idCaller' = [idCaller EXCEPT ![t] = NoCaller]
    /\ UNCHANGED <<idRow, idSync, idPending, idFile, idKeys>>

(* An ordinary field update by another caller, at any node.                *)
ReadForUpdate(w) ==
    /\ IdEvent
    /\ idCaller[w].pc = "idle"
    /\ QueryIdentity(IdHome) # NoDocument
    /\ QueryIdentity(IdHome).version < MaxIdVersion
    /\ idCaller' = [idCaller EXCEPT ![w] =
          [pc |-> "read", read |-> QueryIdentity(IdHome),
           document |-> [QueryIdentity(IdHome) EXCEPT !.version = @ + 1]]]
    /\ UNCHANGED <<idRow, idSync, idPending, idFile, idKeys>>

UpdateFields(w) ==
    /\ idCaller[w].pc = "read"
    /\ idRow' = IF MayUpdate(idRow[IdHome], idCaller[w].document)
                THEN [idRow EXCEPT ![IdHome] = UpdatedAgent(@, idCaller[w].document)]
                ELSE idRow
    /\ idCaller' = [idCaller EXCEPT ![w] = NoCaller]
    /\ UNCHANGED <<idSync, idPending, idFile, idKeys, idEvents>>

IdNext ==
    \/ \E n \in IdNodes :
          \/ PostIdentity(n, FirstDocument)
          \/ \E m \in IdNodes \ {n} : PostIdentity(n, QueryIdentity(m))
          \/ DeleteIdentity(n)
    \/ \E m \in idSync : FederationSync(m) \/ SyncLost(m)
    \/ \E t \in IdTools :
          \/ BeginRotation(t) \/ StageKey(t) \/ PublishKey(t)
          \/ CommitKey(t) \/ RollbackKey(t) \/ ToolDies(t)
    \/ \E w \in IdWriters : ReadForUpdate(w) \/ UpdateFields(w)

IdSpec == IdInit /\ [][IdNext]_idVars

-----------------------------------------------------------------------------
(* The key the home registry publishes is in one of the two files of the   *)
(* operator: what runtime.ts says the two phases guarantee.                *)
PublishedKeyIsHeld ==
    idRow[IdHome] # NoAgent => idRow[IdHome].document.key \in {idFile, idPending}

(* What runIdentityRotate keeps of that when one run follows another: the  *)
(* published key is lost only to the catch of the run that published it,   *)
(* or to a run that stages its key over the file a killed one left.        *)
OneRun == \A s, t \in IdTools : s = t
PublishedKeyIsKept ==
    OneRun /\ PublishedKeyIsHeld /\ ~PublishedKeyIsHeld' =>
       \E t \in IdTools :
          \/ /\ idCaller[t].pc = "failed" /\ idCaller'[t].pc = "idle"
             /\ idCaller[t].document.key = idRow[IdHome].document.key
          \/ /\ idCaller[t].pc = "read" /\ idCaller'[t].pc = "staged"
             /\ idPending = idRow[IdHome].document.key

(* No update is lost: a document is only ever replaced by one made from    *)
(* it, though every caller reads and writes in two transactions.           *)
UpdatesBuildOnWhatTheyReplace ==
    \A n \in IdNodes :
       idRow[n] # NoAgent /\ idRow'[n].document # idRow[n].document =>
           \E c \in IdTools \cup IdWriters :
               /\ idRow'[n].document = idCaller[c].document
               /\ idCaller[c].read = QueryIdentity(n)
=============================================================================
