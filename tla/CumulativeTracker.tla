------------------------- MODULE CumulativeTracker -------------------------
(***************************************************************************)
(* Cumulative limits.  ScopeEvaluator.evaluateAll calls                    *)
(* PostgresCumulativeTracker.checkAndReserve once for every                *)
(* cumulative_limit scope of a request, all with the request's record id;  *)
(* settleReservation settles what was reserved.  Reservations are rows of  *)
(* policy.action_records beside the records of executed actions, here      *)
(* those of one agent.                                                     *)
(*                                                                         *)
(* A step is one SQL statement of one call.  What a call inserts is        *)
(* visible to others when it commits.                                      *)
(***************************************************************************)
EXTENDS Integers, Sequences, FiniteSets, Functions

CONSTANTS
    Calls,          \* concurrent calls
    RecordIds,      \* record ids in use
    Limits,         \* the lists of cumulative_limit metrics a request may have to pass
    LimitMax,       \* LimitMax[m]: the scope's max for metric m
    Amounts,        \* amounts requested, settled and recorded
    WindowLength,   \* length of the scope's window
    PendingTTL,     \* PENDING_TTL_MS
    MaxCtClock        \* bound: wall clock

Metrics == {"transaction_amount", "api_call_count"}

ASSUME TrackerAssumption ==
    /\ IsFiniteSet(RecordIds)
    /\ Limits \subseteq Seq(Metrics) \ {<<>>}
    /\ LimitMax \in [Metrics -> Nat]
    /\ Amounts \subseteq Nat
    /\ WindowLength \in Nat \ {0}
    /\ PendingTTL \in Nat
    /\ MaxCtClock \in Nat

VARIABLES
    ctRows,       \* policy.action_records by record_id
    call,       \* the calls in progress
    passed,     \* the limits a record id was admitted under
    ctClock       \* wall clock

ctVars == <<ctRows, call, passed, ctClock>>

CtStatus == {"PENDING", "SETTLED", "RELEASED", "SUCCESS", "REJECTED", "ERROR"}

\* seq is the row's place in commit order
CtRow == [type : {"none", "reserve", "action"}, status : CtStatus, metric : Metrics, amount : Nat,
        cum : Nat, at : Nat, settled : Nat, seq : Nat]

NoCtRow == [type |-> "none", status |-> "RELEASED", metric |-> "api_call_count", amount |-> 0,
          cum |-> 0, at |-> 0, settled |-> 0, seq |-> 0]

Call == [pc : {"idle", "find", "lock", "check", "insert", "commit", "settle"},
         rid : RecordIds \cup {0}, todo : Seq(Metrics), amount : Nat, now : Nat, cum : Nat,
         wrote : BOOLEAN, to : CtStatus]

NoCall == [pc |-> "idle", rid |-> 0, todo |-> <<>>, amount |-> 0, now |-> 0, cum |-> 0,
           wrote |-> FALSE, to |-> "RELEASED"]

\* Rows, calls and clock have their types: totals and settled amounts are never negative
\* (checkAndReserve and settleReservation).
CtTypeOK ==
    /\ ctRows \in [RecordIds -> CtRow]
    /\ call \in [Calls -> Call]
    /\ passed \in [RecordIds -> SUBSET Metrics]
    /\ ctClock \in Nat

CtInit ==
    /\ ctRows = [r \in RecordIds |-> NoCtRow]
    /\ call = [c \in Calls |-> NoCall]
    /\ passed = [r \in RecordIds |-> {}]
    /\ ctClock = 0

-----------------------------------------------------------------------------
(* METER_FIELD_REGISTRY and the aggregate.                                 *)

Counts(m) == m = "api_call_count"

\* evaluateCumulativeLimit's reserveAmount
ReserveAmount(m, amount) == IF Counts(m) THEN 1 ELSE amount

\* computeWindowStart
WindowStart(now) == (now \div WindowLength) * WindowLength

Present == {r \in RecordIds : ctRows[r].type # "none"}

Live(r) == ctRows[r].status = "PENDING" /\ ctRows[r].at >= ctClock - PendingTTL

\* the WHERE clause, created_at <= now with the caller's now, the PENDING cut-off with
\* this step's clock; both status filters select these rows
InAggregate(r, now) ==
    /\ ctRows[r].at >= WindowStart(now) /\ ctRows[r].at <= now
    /\ ctRows[r].status \in {"SUCCESS", "SETTLED"} \/ Live(r)

\* a row of whatever metric counts one, or its reserveAmount or amount: also when it is settled,
\* though cumulative-tracker.ts:59 has settledAmount in its place
Worth(m) == [r \in RecordIds |-> IF Counts(m) THEN 1 ELSE ctRows[r].amount]

Total(m, S) == SumFunctionOnSet(Worth(m), S)

Aggregate(m, now) == Total(m, {r \in Present : InAggregate(r, now)})

-----------------------------------------------------------------------------
(* checkAndReserve, once per limit.                                        *)

Idle(c) == call[c].pc = "idle"

\* a call that has to pass the limits in todo
Request(rid, todo, amount, now) ==
    [pc |-> "find", rid |-> rid, todo |-> todo, amount |-> amount, now |-> now, cum |-> 0,
     wrote |-> FALSE, to |-> "RELEASED"]

At(k, pc) == [k EXCEPT !.pc = pc]

\* the guard takes now once for all the limits of the request
EvaluateLimits(c, rid, limits, amount) ==
    /\ Idle(c)
    /\ call' = [call EXCEPT ![c] = Request(rid, limits, amount, ctClock)]
    /\ UNCHANGED <<ctRows, passed, ctClock>>

\* the tracker's answer: evaluateAll goes on to the next limit or stops
Answer(c, allowed) ==
    /\ passed' = [passed EXCEPT ![call[c].rid] =
                     IF allowed THEN @ \cup {Head(call[c].todo)} ELSE @]
    /\ call' = [call EXCEPT ![c] =
                  IF allowed /\ Len(@.todo) > 1
                    THEN Request(@.rid, Tail(@.todo), @.amount, @.now) ELSE NoCall]

\* a reservation of this record id, of any metric and status, answers the call
FindReservation(c) ==
    /\ call[c].pc = "find"
    /\ LET row == ctRows[call[c].rid]
       IN  IF row.type = "reserve"
             THEN Answer(c, row.cum + row.amount <= LimitMax[row.metric])
             ELSE /\ call' = [call EXCEPT ![c] = At(@, "lock")]
                  /\ UNCHANGED passed
    /\ UNCHANGED <<ctRows, ctClock>>

LockKey(c) == <<Head(call[c].todo), WindowStart(call[c].now)>>

HoldsLock(c) == call[c].pc \in {"check", "insert", "commit"}

\* mutant: no lock
CtAcquireAdvisoryLock_None(c) ==
    /\ call[c].pc = "lock"
    /\ call' = [call EXCEPT ![c] = At(@, "check")]
    /\ UNCHANGED <<ctRows, passed, ctClock>>

CtAcquireAdvisoryLock(c) ==
    /\ call[c].pc = "lock"
    /\ \A d \in Calls : HoldsLock(d) => LockKey(d) # LockKey(c)
    /\ call' = [call EXCEPT ![c] = At(@, "check")]
    /\ UNCHANGED <<ctRows, passed, ctClock>>

CheckLimit(c) ==
    /\ call[c].pc = "check"
    /\ LET m == Head(call[c].todo)
           total == Aggregate(m, call[c].now)
       IN  IF total + ReserveAmount(m, call[c].amount) > LimitMax[m]
             THEN Answer(c, FALSE)
             ELSE /\ call' = [call EXCEPT ![c] = [At(@, "insert") EXCEPT !.cum = total]]
                  /\ UNCHANGED passed
    /\ UNCHANGED <<ctRows, ctClock>>

Undecided(rid) == \E d \in Calls : call[d].rid = rid /\ call[d].pc = "commit" /\ call[d].wrote

\* mutant: an upsert instead of ON CONFLICT DO NOTHING
InsertReservation_Upsert(c) ==
    /\ call[c].pc = "insert" /\ ~ Undecided(call[c].rid)
    /\ call' = [call EXCEPT ![c] = [At(@, "commit") EXCEPT !.wrote = TRUE]]
    /\ UNCHANGED <<ctRows, passed, ctClock>>

\* ON CONFLICT (record_id) DO NOTHING waits for an uncommitted row with this id
InsertReservation(c) ==
    /\ call[c].pc = "insert" /\ ~ Undecided(call[c].rid)
    /\ call' = [call EXCEPT ![c] = [At(@, "commit") EXCEPT
                                     !.wrote = ctRows[call[c].rid].type = "none"]]
    /\ UNCHANGED <<ctRows, passed, ctClock>>

\* what the transaction inserted becomes visible
CommitReservation(c) ==
    ctRows' = IF call[c].wrote
              THEN [ctRows EXCEPT ![call[c].rid] =
                      [type |-> "reserve", status |-> "PENDING", metric |-> Head(call[c].todo),
                       amount |-> ReserveAmount(Head(call[c].todo), call[c].amount),
                       cum |-> call[c].cum, at |-> call[c].now, settled |-> 0,
                       seq |-> Cardinality(Present) + 1]]
              ELSE ctRows

CtCommit(c) ==
    /\ call[c].pc = "commit"
    /\ CommitReservation(c) /\ Answer(c, TRUE)
    /\ UNCHANGED ctClock

\* the COMMIT went through, its reply is lost: the row is there, the caller was told nothing
CtCommitUnheard(c) ==
    /\ call[c].pc = "commit"
    /\ CommitReservation(c)
    /\ call' = [call EXCEPT ![c] = NoCall]
    /\ UNCHANGED <<passed, ctClock>>

\* a failed statement or a lost connection: nothing is written, no answer is given
CtRollback(c) ==
    /\ ~ Idle(c)
    /\ call' = [call EXCEPT ![c] = NoCall]
    /\ UNCHANGED <<ctRows, passed, ctClock>>

-----------------------------------------------------------------------------
(* settleReservation.                                                      *)

\* mutant: the check against the limit is dropped
Overrun_Never(row, amount) == FALSE

\* more than reserved: checked against the total that was read at reserve time
Overrun(row, amount) == amount > row.amount /\ row.cum + amount > LimitMax[row.metric]

\* COUNT '*' settles whatever the result
SettledAs(metric, result) ==
    IF Counts(metric) \/ result = "SUCCESS" THEN "SETTLED" ELSE "RELEASED"

\* the SELECT, on a reservation in any status; an overrun throws.  A failed or a counted
\* request passes no settledAmount, which stands for the reserved one
SettleFind(c, rid, result, amount) ==
    /\ Idle(c)
    /\ ctRows[rid].type = "reserve"
    /\ result = "ERROR" \/ Counts(ctRows[rid].metric) => amount = ctRows[rid].amount
    /\ ~ (~ Counts(ctRows[rid].metric) /\ result = "SUCCESS" /\ Overrun(ctRows[rid], amount))
    /\ call' = [call EXCEPT ![c] =
                  [pc |-> "settle", rid |-> rid, todo |-> <<>>, amount |-> amount, now |-> 0, cum |-> 0,
                   wrote |-> FALSE, to |-> SettledAs(ctRows[rid].metric, result)]]
    /\ UNCHANGED <<ctRows, passed, ctClock>>

\* the UPDATE, which has no condition on the status
SettleUpdate(c) ==
    /\ call[c].pc = "settle"
    /\ ctRows' = [ctRows EXCEPT ![call[c].rid] =
                  [[@ EXCEPT !.status = call[c].to] EXCEPT !.settled = call[c].amount]]
    /\ call' = [call EXCEPT ![c] = NoCall]
    /\ UNCHANGED <<passed, ctClock>>

-----------------------------------------------------------------------------
(* ActionRecorder.record() of an executed action, in one step (the module  *)
(* ActionLedger has its steps): created_at is the clock.                   *)
RecordAction(rid, status, amount) ==
    /\ ctRows[rid].type = "none" /\ ~ Undecided(rid)
    /\ ctRows' = [ctRows EXCEPT ![rid] =
                  [type |-> "action", status |-> status, metric |-> "api_call_count",
                   amount |-> amount, cum |-> 0, at |-> ctClock, settled |-> 0,
                   seq |-> Cardinality(Present) + 1]]
    /\ UNCHANGED <<call, passed, ctClock>>

CtTick ==
    /\ ctClock < MaxCtClock
    /\ ctClock' = ctClock + 1
    /\ UNCHANGED <<ctRows, call, passed>>

CtNext ==
    \/ \E c \in Calls :
         \/ \E rid \in RecordIds, limits \in Limits, amount \in Amounts :
              EvaluateLimits(c, rid, limits, amount)
         \/ FindReservation(c) \/ CtAcquireAdvisoryLock(c) \/ CheckLimit(c)
         \/ InsertReservation(c) \/ CtCommit(c) \/ CtCommitUnheard(c) \/ CtRollback(c)
         \/ \E rid \in RecordIds, result \in {"SUCCESS", "ERROR"}, amount \in Amounts :
              SettleFind(c, rid, result, amount)
         \/ SettleUpdate(c)
    \/ \E rid \in RecordIds, amount \in Amounts : RecordAction(rid, "SUCCESS", amount)
    \/ \E rid \in RecordIds : RecordAction(rid, "ERROR", 0)
    \/ CtTick

CtSpec == CtInit /\ [][CtNext]_ctVars

-----------------------------------------------------------------------------
(* Properties.                                                             *)

\* the reservations for metric m of the window that starts at w
Reserved(m, w) ==
    {r \in RecordIds : ctRows[r].type = "reserve" /\ ctRows[r].metric = m
                         /\ WindowStart(ctRows[r].at) = w}

Windows == {WindowStart(t) : t \in 0..MaxCtClock}

\* reservations were committed in the order of their callers' clocks
StampsInOrder(m, w) ==
    \A r, s \in Reserved(m, w) : ctRows[r].seq < ctRows[s].seq => ctRows[r].at <= ctRows[s].at

LiveWithinLimit(m, w) == Total(m, {r \in Reserved(m, w) : Live(r)}) <= LimitMax[m]

\* Concurrent checkAndReserve calls do not admit more than the limit between them,
\* provided each got the lock in the order of its now.
NoOverAdmissionInOrder ==
    \A m \in Metrics, w \in Windows : StampsInOrder(m, w) => LiveWithinLimit(m, w)

\* However attempts and retries of a record id race, only a settlement that found its row
\* changes it (checkAndReserve's ON CONFLICT DO NOTHING, doSettle): an action record never
\* changes, a settled or released reservation is never pending again, and the metric, the
\* stamp and the baseline that answer a repeated call stay those of the first one.
OnlySettlementsChangeARow ==
    [][\A r \in RecordIds : ctRows[r].type # "none" /\ ctRows'[r] # ctRows[r] =>
         /\ \E c \in Calls : call[c].pc = "settle" /\ call[c].rid = r
         /\ ctRows[r].type = "reserve" /\ ctRows'[r].type = "reserve"
         /\ ctRows'[r].status \in {"SETTLED", "RELEASED"}
         /\ ctRows'[r].metric = ctRows[r].metric /\ ctRows'[r].at = ctRows[r].at
         /\ ctRows'[r].cum = ctRows[r].cum]_ctVars

\* What one request settles for stays within the limit over the baseline it was
\* admitted on, also when the actual amount is larger than the reserved one, and a call
\* count is never given back.
SettledOverBaseline ==
    \A r \in RecordIds : ctRows[r].type = "reserve" =>
      /\ ctRows[r].cum + ctRows[r].amount <= LimitMax[ctRows[r].metric]
      /\ ctRows[r].status = "SETTLED" /\ ~ Counts(ctRows[r].metric) =>
           ctRows[r].cum + ctRows[r].settled <= LimitMax[ctRows[r].metric]
      /\ Counts(ctRows[r].metric) => ctRows[r].status \in {"PENDING", "SETTLED"}

\* "preventing concurrent requests from reading the same baseline and over-admitting
\* simultaneously" (postgres-cumulative-tracker.ts): pending reservations stay within
\* the limit.
NoOverAdmission == \A m \in Metrics, w \in Windows : LiveWithinLimit(m, w)

\* checkAndReserve "checks for overrun, and writes a PENDING reservation row"
\* (scope-evaluator.ts) for every limit: no more pending requests than max have passed
\* a call-count limit.
EveryLimitIsEnforced ==
    Cardinality({r \in RecordIds : "api_call_count" \in passed[r] /\ ctRows[r].type = "reserve"
                                     /\ ctRows[r].status = "PENDING"}) <= LimitMax["api_call_count"]
=============================================================================
