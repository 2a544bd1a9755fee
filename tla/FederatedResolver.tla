-------------------------- MODULE FederatedResolver --------------------------
(***************************************************************************)
(* The resolver of one DID over several registries                         *)
(* (identity/src/federated-resolver.ts): its cache and the epoch that      *)
(* guards it, the one resolution in flight, the quorum over the answers,   *)
(* the health of the nodes, and the version watermark kept outside the     *)
(* process.  A node answers anything: nodes lag, fork, fail and recover.   *)
(*                                                                         *)
(* A document is its version and its content.  Times are left out: a       *)
(* cache entry or a deadline may run out at any moment.                    *)
(***************************************************************************)
EXTENDS Integers, FiniteSets, Sequences

CONSTANTS FrNodes,
          FrUnweighted,        \* the nodes of weight 0, which are never asked
          MinResponses,
          FrVersions,          \* versions and contents a node may serve
          FrContents,
          FailureThreshold, RecoveryThreshold, RateWindow,
          ActiveProbes,        \* healthCheck is configured
          MaxFlights,          \* bounds of the model: resolutions,
          MaxFrEvents          \* and invalidations, expiries, probes and restarts

\* validateConfig
ValidConfig ==
    /\ MinResponses \in 1..Cardinality(FrNodes)
    /\ Cardinality(FrNodes) = 2 => MinResponses = 2
    /\ FailureThreshold \in Nat \ {0} /\ RecoveryThreshold \in Nat \ {0}
    /\ RateWindow \in Nat \ {0}
    /\ ActiveProbes \in BOOLEAN

ASSUME FederatedAssumption ==
    /\ ValidConfig /\ FrUnweighted \subseteq FrNodes
    /\ FrVersions \subseteq Nat \ {0} /\ MaxFlights \in Nat /\ MaxFrEvents \in Nat

VARIABLES frCache,      \* the cached document and the epoch it was resolved in
          frEpoch,      \* cacheEpoch
          frFlight,     \* the resolution in the inflight map
          frHealth,     \* nodeStates
          frMark,       \* the persistent watermark
          frReturned,   \* the last document a caller got, and whether from this process
          frFlights, frEvents
frVars == <<frCache, frEpoch, frFlight, frHealth, frMark, frReturned, frFlights, frEvents>>

FrDocument == [version : FrVersions, content : FrContents]
Nothing == [version |-> 0, content |-> 0]
NoEntry == [document |-> Nothing, epoch |-> 0]
NoFlight == [pc |-> "none", answers |-> <<>>, startEpoch |-> 0, chosen |-> Nothing,
             cachedVersion |-> 0, watermark |-> 0]

(* What queryNode and verifyDocumentSignature make of an answer.           *)
ResolutionCandidate == [kind : {"doc"}, document : FrDocument]
Answers == ResolutionCandidate
              \cup [kind : {"invalid", "not_found", "error", "pending"}, document : {Nothing}]

FrTypeOK ==
    /\ frCache.document \in FrDocument \cup {Nothing}
    /\ frCache.epoch \in 0..MaxFrEvents
    /\ frEpoch \in 0..MaxFrEvents
    /\ frFlight.pc \in {"none", "fanOut", "select", "decide", "save"}
    /\ frFlight.chosen \in FrDocument \cup {Nothing}
    /\ frFlight.pc = "fanOut" => frFlight.answers \in [DOMAIN frFlight.answers -> Answers]
    /\ \A n \in FrNodes :
          /\ frHealth[n].health \in {"HEALTHY", "DEGRADED", "UNHEALTHY"}
          /\ frHealth[n].failures \in 0..FailureThreshold
          /\ frHealth[n].successes \in 0..RecoveryThreshold
          /\ Len(frHealth[n].recent) <= RateWindow
    /\ frMark \in FrVersions \cup {0}
    /\ frReturned \in [document : FrDocument \cup {Nothing}, here : BOOLEAN]
    /\ frFlights \in 0..MaxFlights
    /\ frEvents \in 0..MaxFrEvents

NewNode == [health |-> "HEALTHY", failures |-> 0, successes |-> 0, recent |-> <<>>]

FrInit ==
    /\ frCache = NoEntry
    /\ frEpoch = 0
    /\ frFlight = NoFlight
    /\ frHealth = [n \in FrNodes |-> NewNode]
    /\ frMark = 0
    /\ frReturned = [document |-> Nothing, here |-> FALSE]
    /\ frFlights = 0
    /\ frEvents = 0

FrEvent == frEvents < MaxFrEvents /\ frEvents' = frEvents + 1
Return(document) == frReturned' = [document |-> document, here |-> TRUE]

-----------------------------------------------------------------------------
(* Health of the nodes *)

Capped(k, max) == IF k < max THEN k ELSE max
Slide(recent, success) ==
    IF Len(recent) < RateWindow THEN Append(recent, success)
    ELSE Append(Tail(recent), success)
FailuresIn(recent) == Cardinality({i \in DOMAIN recent : ~recent[i]})

(* A node that fails too often in a row is left out until it has recovered *)
(* often enough in a row; below that a full window decides, and a failure  *)
(* before the window is full degrades.                                     *)
AfterSuccess(h) ==
    LET recent == Slide(h.recent, TRUE)
        successes == Capped(h.successes + 1, RecoveryThreshold)
    IN  [health |->
            CASE h.health = "UNHEALTHY" /\ successes >= RecoveryThreshold -> "HEALTHY"
              [] h.health = "DEGRADED" /\ Len(recent) >= RateWindow
                     /\ 10 * FailuresIn(recent) < Len(recent) -> "HEALTHY"
              [] OTHER -> h.health,
         failures |-> 0, successes |-> successes, recent |-> recent]

AfterFailure(h, always) ==
    LET recent == Slide(h.recent, FALSE)
        failures == Capped(h.failures + 1, FailureThreshold)
    IN  [health |->
            CASE failures >= FailureThreshold -> "UNHEALTHY"
              [] failures < FailureThreshold /\ h.health = "HEALTHY"
                     /\ (always \/ Len(recent) < RateWindow
                                \/ 5 * FailuresIn(recent) >= Len(recent)) -> "DEGRADED"
              [] OTHER -> h.health,
         failures |-> failures, successes |-> 0, recent |-> recent]

DrivePassiveHealth(h, success) ==
    IF success THEN AfterSuccess(h) ELSE AfterFailure(h, FALSE)

(* The probe degrades a healthy node on any failure.                       *)
ProbeNode(n, ok) ==
    /\ ActiveProbes
    /\ n \notin FrUnweighted
    /\ FrEvent
    /\ frHealth' = [frHealth EXCEPT ![n] = IF ok THEN AfterSuccess(@) ELSE AfterFailure(@, TRUE)]
    /\ UNCHANGED <<frCache, frEpoch, frFlight, frMark, frReturned, frFlights>>

-----------------------------------------------------------------------------
(* The quorum *)

ComputeQuorumThreshold(n) == (n \div 2) + 1

Serving(candidates, version) == {n \in DOMAIN candidates : candidates[n].version = version}
Highest(versions) == CHOOSE v \in versions : \A w \in versions : w <= v

(* The document the nodes serving a version agree on.                      *)
Agreed(candidates, version) ==
    LET documents == {candidates[n] : n \in Serving(candidates, version)}
    IN  IF Cardinality(documents) = 1 THEN CHOOSE d \in documents : TRUE ELSE Nothing

SelectHighestVersionFallback(candidates) ==
    Agreed(candidates, Highest({candidates[n].version : n \in DOMAIN candidates}))

SelectByQuorum(candidates, targets) ==
    LET threshold == ComputeQuorumThreshold(Cardinality(DOMAIN candidates))
        qualified == {v \in {candidates[n].version : n \in DOMAIN candidates} :
                         Cardinality(Serving(candidates, v)) >= threshold}
    IN  CASE targets < 3 -> SelectHighestVersionFallback(candidates)
          [] targets >= 3 /\ qualified = {} -> Nothing
          [] OTHER -> Agreed(candidates, Highest(qualified))

-----------------------------------------------------------------------------
(* resolve *)

Targets == {n \in FrNodes \ FrUnweighted : frHealth[n].health # "UNHEALTHY"}

ResolveFromCache ==
    /\ frCache # NoEntry
    /\ Return(frCache.document)
    /\ UNCHANGED <<frCache, frEpoch, frFlight, frHealth, frMark, frFlights, frEvents>>

(* A call while one is in flight awaits that one; with too few nodes left  *)
(* the answer is null at once.                                             *)
StartResolve ==
    /\ frCache = NoEntry
    /\ frFlight = NoFlight
    /\ frFlights < MaxFlights
    /\ Cardinality(Targets) >= MinResponses
    /\ frFlights' = frFlights + 1
    /\ frFlight' = [NoFlight EXCEPT
          !.pc = "fanOut", !.startEpoch = frEpoch,
          !.answers = [n \in Targets |-> [kind |-> "pending", document |-> Nothing]]]
    /\ UNCHANGED <<frCache, frEpoch, frHealth, frMark, frReturned, frEvents>>

QueryNode(n, answer) ==
    /\ frFlight.pc = "fanOut"
    /\ n \in DOMAIN frFlight.answers
    /\ frFlight.answers[n].kind = "pending"
    /\ answer.kind # "pending"
    /\ frFlight' = [frFlight EXCEPT !.answers[n] = answer]
    /\ frHealth' = [frHealth EXCEPT ![n] = DrivePassiveHealth(@, answer.kind # "error")]
    /\ UNCHANGED <<frCache, frEpoch, frMark, frReturned, frFlights, frEvents>>

(* The loop over the answers ends: all are in, or the settle window or the *)
(* deadline is over, with the answers of `heard' taken in.  What is still  *)
(* pending is aborted and counts against its node.                         *)
EndFanOut(heard) ==
    LET answers == frFlight.answers
        Kind(k) == {n \in heard : answers[n].kind = k}
        candidates == [n \in Kind("doc") |-> answers[n].document]
        pending == {n \in DOMAIN answers : answers[n].kind = "pending"}
        null == \/ Kind("doc") = {} /\ heard = Kind("not_found") /\ Cardinality(heard) >= MinResponses
                \/ Cardinality(Kind("doc")) < MinResponses
        chosen == IF null THEN Nothing ELSE SelectByQuorum(candidates, Cardinality(DOMAIN answers))
    IN  /\ frFlight.pc = "fanOut"
        /\ heard \subseteq DOMAIN answers \ pending
        /\ frHealth' = [n \in FrNodes |-> IF n \in pending THEN DrivePassiveHealth(frHealth[n], FALSE)
                                          ELSE frHealth[n]]
        /\ frFlight' = IF chosen = Nothing THEN NoFlight
                       ELSE [frFlight EXCEPT !.pc = "select", !.answers = <<>>, !.chosen = chosen,
                                             !.cachedVersion = frCache.document.version]
        /\ UNCHANGED <<frCache, frEpoch, frMark, frReturned, frFlights, frEvents>>

(* The store may fail to answer, which rejects the resolution.             *)
GetWatermark ==
    /\ frFlight.pc = "select"
    /\ \/ frFlight' = [frFlight EXCEPT !.pc = "decide", !.watermark = frMark]
       \/ frFlight' = NoFlight
    /\ UNCHANGED <<frCache, frEpoch, frHealth, frMark, frReturned, frFlights, frEvents>>

\* mutant: only the cache is compared, which expires and restarts empty
IsRollback_CacheOnly(f) == f.cachedVersion > f.chosen.version

IsRollback(f) == f.cachedVersion > f.chosen.version \/ f.watermark > f.chosen.version

\* mutant: the epoch is not compared before the cache is filled
EpochMoved_Never(f) == FALSE

EpochMoved(f) == frEpoch # f.startEpoch

Decide ==
    /\ frFlight.pc = "decide"
    /\ \/ /\ IsRollback(frFlight) \/ EpochMoved(frFlight)
          /\ frFlight' = NoFlight
          /\ UNCHANGED frCache
       \/ /\ ~IsRollback(frFlight) /\ ~EpochMoved(frFlight)
          /\ frCache' = [document |-> frFlight.chosen, epoch |-> frFlight.startEpoch]
          /\ frFlight' = [frFlight EXCEPT !.pc = "save"]
    /\ UNCHANGED <<frEpoch, frHealth, frMark, frReturned, frFlights, frEvents>>

(* The store only writes a higher version (types/src/federation.ts).  It   *)
(* is awaited after the document was cached: when it rejects, before or    *)
(* after it wrote, the caller gets an error and the entry stays.           *)
SetWatermark ==
    /\ frFlight.pc = "save"
    /\ \/ /\ frMark' = IF frFlight.chosen.version > frMark THEN frFlight.chosen.version ELSE frMark
          /\ Return(frFlight.chosen) \/ UNCHANGED frReturned
       \/ UNCHANGED <<frMark, frReturned>>
    /\ frFlight' = NoFlight
    /\ UNCHANGED <<frCache, frEpoch, frHealth, frFlights, frEvents>>

InvalidateCache ==
    /\ FrEvent
    /\ frCache' = NoEntry
    /\ frEpoch' = frEpoch + 1
    /\ UNCHANGED <<frFlight, frHealth, frMark, frReturned, frFlights>>

(* getCached finds an entry past its TTL.                                  *)
CacheExpires ==
    /\ FrEvent
    /\ frCache # NoEntry
    /\ frCache' = NoEntry
    /\ UNCHANGED <<frEpoch, frFlight, frHealth, frMark, frReturned, frFlights>>

(* close() or a crash, and a new resolver over the same watermark store.   *)
RestartResolver ==
    /\ FrEvent
    /\ frCache' = NoEntry
    /\ frEpoch' = 0
    /\ frFlight' = NoFlight
    /\ frHealth' = [n \in FrNodes |-> NewNode]
    /\ frReturned' = [frReturned EXCEPT !.here = FALSE]
    /\ UNCHANGED <<frMark, frFlights>>

FrNext ==
    \/ ResolveFromCache \/ StartResolve \/ GetWatermark \/ Decide \/ SetWatermark
    \/ InvalidateCache \/ CacheExpires \/ RestartResolver
    \/ \E n \in FrNodes : \E a \in Answers : QueryNode(n, a)
    \/ \E n \in FrNodes : \E ok \in BOOLEAN : ProbeNode(n, ok)
    \/ \E heard \in SUBSET FrNodes : EndFanOut(heard)

FrSpec == FrInit /\ [][FrNext]_frVars

-----------------------------------------------------------------------------
(* The version-rollback check of fanOut, when the write of the watermark   *)
(* may fail: nothing that is handed out, from the nodes or from the cache, *)
(* is older than the version the store holds.  A version whose write       *)
(* failed may be followed by an older one.                                 *)
NeverBehindTheWatermark ==
    frReturned' # frReturned /\ frReturned'.here => frReturned'.document.version >= frMark'

(* invalidateCache also undoes the resolution that was in flight when it   *)
(* was called: nothing resolved before it is ever found in the cache after *)
(* it.                                                                     *)
InvalidationIsFinal == frCache # NoEntry => frCache.epoch = frEpoch
=============================================================================
