---------------------------- MODULE Orchestrator ----------------------------
(***************************************************************************)
(* sdk/src/orchestrator.ts: handleEnvelope, with PolicyEngine.             *)
(* executeWithPolicy (policy/src/engine.ts) inside it.                     *)
(*                                                                         *)
(* A delivery is one call of handleEnvelope for some envelope; the same    *)
(* envelope may be delivered again, also while an earlier delivery is      *)
(* under way.  A delivery passes the response cache, reserves the          *)
(* sender's cumulative limits one after the other, is judged by the        *)
(* policy guard, runs the business handler, is recorded, and leaves its    *)
(* response in the cache, whose write races a timer.  Every step may fail, *)
(* and the process may die.                                                *)
(***************************************************************************)
EXTENDS Integers, Sequences, FiniteSets

CONSTANTS
    OrDeliveries,  \* calls of handleEnvelope
    OrEnvelopes,   \* envelopes (recipient, sender, session and envelope id)
    OrLimits       \* the cumulative_limit scopes of a token, a sequence of countFilters

ASSUME OrAssumption == OrLimits \in Seq({"SUCCESS", "*"}) /\ OrEnvelopes # {}

VARIABLES
    orCall,      \* the deliveries
    orReserved,  \* the tracker's reservations of a delivery, by limit
    orRecords,   \* action records written for a delivery, by status
    orCache,     \* ResponseIdempotencyCache: envelope -> kind of the spec
    orLate,      \* cache writes still under way after their delivery was answered
    orRuns,      \* history: deliveries whose business handler succeeded, per envelope
    orUncancelled \* history: reservations whose cancellation failed or that nobody heard of

orVars == <<orCall, orReserved, orRecords, orCache, orLate, orRuns, orUncancelled>>

OrLimitIndex == DOMAIN OrLimits
CachedResponseSpec == {"SUCCESS", "AUTHORIZATION_INSUFFICIENT", "INTERNAL_ERROR"}
OrReply == CachedResponseSpec \cup {"INVALID_ENVELOPE", "IDENTITY_VERIFICATION_FAILED", "none"}

OrPc == {"new", "cache", "capability", "reserve", "reject", "guard", "execute", "record",
         "error", "finish", "done", "dead"}
OrCallState ==
    [pc : OrPc, env : OrEnvelopes, next : 1..(Len(OrLimits) + 1), committed : BOOLEAN,
     reply : OrReply, spec : CachedResponseSpec \cup {"none"}, replayed : BOOLEAN]

NewDelivery == [pc |-> "new", env |-> CHOOSE e \in OrEnvelopes : TRUE, next |-> 1,
                committed |-> FALSE, reply |-> "none", spec |-> "none", replayed |-> FALSE]

\* Deliveries, reservations, records and the cache keep their types.
OrTypeOK ==
    /\ orCall \in [OrDeliveries -> OrCallState]
    /\ orReserved \in [OrDeliveries -> [OrLimitIndex -> {"none", "PENDING", "CANCELLED"}]]
    /\ orRecords \in [OrDeliveries -> SUBSET {"REJECTED", "SUCCESS", "ERROR"}]
    /\ orCache \in [OrEnvelopes -> CachedResponseSpec \cup {"none"}]
    /\ orLate \subseteq OrDeliveries
    /\ orRuns \in [OrEnvelopes -> SUBSET OrDeliveries]
    /\ orUncancelled \subseteq OrDeliveries \X OrLimitIndex

OrInit ==
    /\ orCall = [d \in OrDeliveries |-> NewDelivery]
    /\ orReserved = [d \in OrDeliveries |-> [i \in OrLimitIndex |-> "none"]]
    /\ orRecords = [d \in OrDeliveries |-> {}]
    /\ orCache = [e \in OrEnvelopes |-> "none"]
    /\ orLate = {} /\ orUncancelled = {}
    /\ orRuns = [e \in OrEnvelopes |-> {}]

-----------------------------------------------------------------------------
OrSet(d, call) == orCall' = [orCall EXCEPT ![d] = call]
OrGoto(d, pc) == OrSet(d, [orCall[d] EXCEPT !.pc = pc])

\* the delivery has a response and perhaps a spec for the cache
Respond(d, reply, spec) ==
    OrSet(d, [orCall[d] EXCEPT !.pc = IF spec = "none" THEN "done" ELSE "finish",
                               !.reply = reply, !.spec = spec])

OrRecord(d, status) == orRecords' = [orRecords EXCEPT ![d] = @ \cup {status}]

\* cancelReservedRecords: a limit that counts failures too is not released; a cancellation
\* that fails is logged and leaves the reservation as it is, and it is tried once
Cancellable(d) == {i \in OrLimitIndex : orReserved[d][i] = "PENDING" /\ OrLimits[i] = "SUCCESS"}

CancelReservedRecords(d) ==
    \E failed \in SUBSET Cancellable(d) :
        /\ \A i \in Cancellable(d) : <<d, i>> \in orUncancelled => i \in failed
        /\ orReserved' = [orReserved EXCEPT ![d] =
              [i \in OrLimitIndex |-> IF i \in Cancellable(d) \ failed THEN "CANCELLED" ELSE @[i]]]
        /\ orUncancelled' = orUncancelled \cup ({d} \X failed)

OrKeep == UNCHANGED <<orReserved, orUncancelled>>

-----------------------------------------------------------------------------
(* Steps 1 to 3                                                            *)

EnvelopeVerdicts == {"none", "INVALID_ENVELOPE", "IDENTITY_VERIFICATION_FAILED"}

\* parseEnvelope and verifyEnvelope: a malformed, stale or badly signed envelope is answered
\* and leaves nothing behind
ReceiveEnvelope(d, e, verdict) ==
    /\ orCall[d].pc = "new"
    /\ OrSet(d, [NewDelivery EXCEPT !.env = e, !.pc = IF verdict = "none" THEN "cache" ELSE "done",
                                    !.reply = verdict])
    /\ UNCHANGED <<orRecords, orCache, orLate, orRuns>> /\ OrKeep

\* step 2.5: a hit is rebuilt from the spec and not cached again
CheckCache(d) ==
    LET cached == orCache[orCall[d].env]
    IN  /\ orCall[d].pc = "cache"
        /\ IF cached = "none" THEN OrGoto(d, "capability")
           ELSE OrSet(d, [orCall[d] EXCEPT !.pc = "done", !.reply = cached, !.replayed = TRUE])
        /\ UNCHANGED <<orRecords, orCache, orLate, orRuns>> /\ OrKeep

\* step 3: the body has no action or no params
ExtractActionFails(d) ==
    /\ orCall[d].pc = "capability"
    /\ Respond(d, "INVALID_ENVELOPE", "none")
    /\ UNCHANGED <<orRecords, orCache, orLate, orRuns>> /\ OrKeep

-----------------------------------------------------------------------------
(* Step 3.5: verifyCapability                                              *)

\* a scope that denies or a chain that does not hold rejects, a port that throws is an error
CapabilityVerdicts == {"guard", "reserve", "reject", "error"}

\* no token reference passes at once; a token that is found and good leads to its limits,
\* any other to a rejection
VerifyCapability(d, outcome) ==
    /\ orCall[d].pc = "capability"
    /\ OrGoto(d, outcome)
    /\ UNCHANGED <<orRecords, orCache, orLate, orRuns>> /\ OrKeep

\* evaluateSenderCumulativeScopes, one scope: the tracker reserves
CheckAndReserve(d) ==
    LET i == orCall[d].next
    IN  /\ orCall[d].pc = "reserve" /\ i \in OrLimitIndex
        /\ orReserved' = [orReserved EXCEPT ![d] = [@ EXCEPT ![i] = "PENDING"]]
        /\ OrSet(d, [orCall[d] EXCEPT !.next = i + 1])
        /\ UNCHANGED <<orRecords, orCache, orLate, orRuns, orUncancelled>>

\* the tracker refuses, or its own limit was looser than the scope's and the reservation
\* just made is cancelled too: either way what was reserved before is cancelled
LimitExceeded(d, reservedHere) ==
    LET i == orCall[d].next
        now == [orReserved[d] EXCEPT ![i] = IF reservedHere THEN "PENDING" ELSE orReserved[d][i]]
        mine == {j \in OrLimitIndex : now[j] = "PENDING" /\ OrLimits[j] = "SUCCESS"}
    IN  /\ orCall[d].pc = "reserve" /\ i \in OrLimitIndex
        /\ \E failed \in SUBSET mine :
              /\ orReserved' = [orReserved EXCEPT ![d] =
                    [j \in OrLimitIndex |-> IF j \in mine \ failed THEN "CANCELLED" ELSE now[j]]]
              /\ orUncancelled' = orUncancelled \cup ({d} \X failed)
        /\ OrGoto(d, "reject")
        /\ UNCHANGED <<orRecords, orCache, orLate, orRuns>>

\* the tracker throws: the earlier reservations are cancelled before the error goes on
ReserveThrows(d) ==
    /\ orCall[d].pc = "reserve" /\ orCall[d].next \in OrLimitIndex
    /\ CancelReservedRecords(d)
    /\ OrGoto(d, "error")
    /\ UNCHANGED <<orRecords, orCache, orLate, orRuns>>

\* the tracker has reserved, but the caller's connection is lost before it answers: this
\* reservation is on nobody's list, the earlier ones are cancelled on the way out
ReserveUnheard(d) ==
    LET i == orCall[d].next
    IN  /\ orCall[d].pc = "reserve" /\ i \in OrLimitIndex
        /\ orReserved' = [orReserved EXCEPT ![d] = [@ EXCEPT ![i] = "PENDING"]]
        /\ orUncancelled' = orUncancelled \cup {<<d, i>>}
        /\ OrGoto(d, "error")
        /\ UNCHANGED <<orRecords, orCache, orLate, orRuns>>

LimitsPassed(d) ==
    /\ orCall[d].pc = "reserve" /\ orCall[d].next \notin OrLimitIndex
    /\ OrGoto(d, "guard")
    /\ UNCHANGED <<orRecords, orCache, orLate, orRuns>> /\ OrKeep

\* the rejection is recorded, or the response becomes an internal error that is not cached
RecordRejection(d, ok) ==
    /\ orCall[d].pc = "reject"
    /\ IF ok THEN /\ OrRecord(d, "REJECTED")
                  /\ Respond(d, "AUTHORIZATION_INSUFFICIENT", "AUTHORIZATION_INSUFFICIENT")
       ELSE /\ Respond(d, "INTERNAL_ERROR", "none")
            /\ UNCHANGED orRecords
    /\ UNCHANGED <<orCache, orLate, orRuns>> /\ OrKeep

-----------------------------------------------------------------------------
(* Step 4: executeWithPolicy                                               *)

GuardAllows(d) ==
    /\ orCall[d].pc = "guard"
    /\ OrGoto(d, "execute")
    /\ UNCHANGED <<orRecords, orCache, orLate, orRuns>> /\ OrKeep

\* the guard denies and the rejection is recorded: the reservations are cancelled
GuardDenies(d) ==
    /\ orCall[d].pc = "guard"
    /\ OrRecord(d, "REJECTED")
    /\ CancelReservedRecords(d)
    /\ Respond(d, "AUTHORIZATION_INSUFFICIENT", "AUTHORIZATION_INSUFFICIENT")
    /\ UNCHANGED <<orCache, orLate, orRuns>>

\* the guard throws, or the record of its denial does
GuardThrows(d) ==
    /\ orCall[d].pc = "guard"
    /\ OrGoto(d, "error")
    /\ UNCHANGED <<orRecords, orCache, orLate, orRuns>> /\ OrKeep

\* mutant: the hook runs after the record was written
CommitHook_AfterRecord(d) == orCall[d].committed

\* onExecutorSuccess runs between the executor and the record of its success
CommitHook(d) == TRUE

ExecutorReturns(d) ==
    /\ orCall[d].pc = "execute"
    /\ orRuns' = [orRuns EXCEPT ![orCall[d].env] = @ \cup {d}]
    /\ OrSet(d, [orCall[d] EXCEPT !.pc = "record", !.committed = CommitHook(d)])
    /\ UNCHANGED <<orRecords, orCache, orLate>> /\ OrKeep

\* the executor throws: the error is recorded, or that fails as well, and goes on
ExecutorThrows(d, ok) ==
    /\ orCall[d].pc = "execute"
    /\ IF ok THEN OrRecord(d, "ERROR") ELSE UNCHANGED orRecords
    /\ OrGoto(d, "error")
    /\ UNCHANGED <<orCache, orLate, orRuns>> /\ OrKeep

\* step 5 follows the record of the success
RecordSuccess(d) ==
    /\ orCall[d].pc = "record"
    /\ OrRecord(d, "SUCCESS")
    /\ Respond(d, "SUCCESS", "SUCCESS")
    /\ UNCHANGED <<orCache, orLate, orRuns>> /\ OrKeep

\* the record of the success fails and the engine tries to record an error instead; or the
\* success is recorded and step 5 throws
RecordSuccessThrows(d, written) ==
    /\ orCall[d].pc = "record"
    /\ orRecords' = [orRecords EXCEPT ![d] = @ \cup written]
    /\ OrGoto(d, "error")
    /\ UNCHANGED <<orCache, orLate, orRuns>> /\ OrKeep

\* mutant: a failure is cached as well
Cacheable_Always(d) == orCall[d].pc = "error"

\* an internal error is cached only if the business was committed
Cacheable(d) == orCall[d].committed

\* normalizeProtocolError: a port or the business may throw a ProtocolError of its own
ProtocolErrors == {"INVALID_MESSAGE", "INTERNAL_ERROR"}

\* the outer catch: INVALID_MESSAGE is answered as an invalid envelope and has no spec
OuterCatch(d, code) ==
    /\ orCall[d].pc = "error"
    /\ IF orCall[d].committed THEN OrKeep ELSE CancelReservedRecords(d)
    /\ Respond(d, IF code = "INVALID_MESSAGE" THEN "INVALID_ENVELOPE" ELSE "INTERNAL_ERROR",
                  IF code # "INVALID_MESSAGE" /\ Cacheable(d) THEN "INTERNAL_ERROR" ELSE "none")
    /\ UNCHANGED <<orRecords, orCache, orLate, orRuns>>

-----------------------------------------------------------------------------
(* The finally block and the cache                                         *)

\* record returns before the timer
WriteCache(d) ==
    /\ orCall[d].pc = "finish"
    /\ orCache' = [orCache EXCEPT ![orCall[d].env] = orCall[d].spec]
    /\ OrGoto(d, "done")
    /\ UNCHANGED <<orRecords, orLate, orRuns>> /\ OrKeep

\* the timer is first, the write goes on; or the write fails, which is logged
CacheWriteAbandoned(d, late) ==
    /\ orCall[d].pc = "finish"
    /\ orLate' = IF late THEN orLate \cup {d} ELSE orLate
    /\ OrGoto(d, "done")
    /\ UNCHANGED <<orRecords, orCache, orRuns>> /\ OrKeep

LateCacheWrite(d) ==
    /\ d \in orLate
    /\ orCache' = [orCache EXCEPT ![orCall[d].env] = orCall[d].spec]
    /\ orLate' = orLate \ {d}
    /\ UNCHANGED <<orCall, orRecords, orRuns>> /\ OrKeep

\* the TTL of an entry ends
CacheExpires(e) ==
    /\ orCache[e] # "none"
    /\ orCache' = [orCache EXCEPT ![e] = "none"]
    /\ UNCHANGED <<orCall, orRecords, orLate, orRuns>> /\ OrKeep

\* the process dies: the delivery is never answered
OrCrash(d) ==
    /\ orCall[d].pc \notin {"new", "done", "dead"}
    /\ OrGoto(d, "dead")
    /\ UNCHANGED <<orRecords, orCache, orLate, orRuns>> /\ OrKeep

OrNext ==
    \/ \E d \in OrDeliveries :
          \/ \E e \in OrEnvelopes, v \in EnvelopeVerdicts : ReceiveEnvelope(d, e, v)
          \/ CheckCache(d) \/ ExtractActionFails(d)
          \/ \E o \in CapabilityVerdicts : VerifyCapability(d, o)
          \/ CheckAndReserve(d) \/ ReserveThrows(d) \/ ReserveUnheard(d) \/ LimitsPassed(d)
          \/ \E ok \in BOOLEAN : \/ LimitExceeded(d, ok) \/ RecordRejection(d, ok)
                                 \/ ExecutorThrows(d, ok) \/ CacheWriteAbandoned(d, ok)
          \/ GuardAllows(d) \/ GuardDenies(d) \/ GuardThrows(d)
          \/ ExecutorReturns(d) \/ RecordSuccess(d)
          \/ \E w \in {{}, {"ERROR"}, {"SUCCESS"}} : RecordSuccessThrows(d, w)
          \/ \E code \in ProtocolErrors : OuterCatch(d, code)
          \/ WriteCache(d) \/ LateCacheWrite(d) \/ OrCrash(d)
    \/ \E e \in OrEnvelopes : CacheExpires(e)

OrSpec == OrInit /\ [][OrNext]_orVars

-----------------------------------------------------------------------------
\* Once a delivery is answered, the sender's quota agrees with what happened: if its business
\* ran, all of its reservations stand, also when recording the success or building the
\* response failed after it; if it did not run, no reservation that counts only successes is
\* left, unless cancelling it failed or the reply that made it was lost (committed,
\* onExecutorSuccess, cancelReservedRecords).
QuotaFollowsBusiness ==
    \A d \in OrDeliveries : orCall[d].pc = "done" =>
        IF d \in orRuns[orCall[d].env]
        THEN \A i \in OrLimitIndex : orReserved[d][i] # "CANCELLED"
        ELSE \A i \in Cancellable(d) : <<d, i>> \in orUncancelled

\* A response says what was done for its envelope, also one that was replayed from the cache:
\* a success was run and recorded, a refusal was recorded, and an error comes out of the
\* cache only if the business did run, so a failure before it never becomes permanent
\* (cacheable, responseSpec, rebuildEnvelopeFromSpec).
RepliesAreTrue ==
    \A d \in OrDeliveries : orCall[d].pc = "done" =>
        LET e == orCall[d].env
            some(status) == \E f \in OrDeliveries : orCall[f].env = e /\ status \in orRecords[f]
        IN  /\ orCall[d].reply = "SUCCESS" => orRuns[e] # {} /\ some("SUCCESS")
            /\ orCall[d].reply = "AUTHORIZATION_INSUFFICIENT" => some("REJECTED")
            /\ orCall[d].reply = "INTERNAL_ERROR" /\ orCall[d].replayed => orRuns[e] # {}

=============================================================================
