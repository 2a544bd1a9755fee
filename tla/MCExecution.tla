----------------------------- MODULE MCExecution -----------------------------
(***************************************************************************)
(* A request from its limits to its settlement, for TLC: what a delegated  *)
(* token permits (ScopeAttenuation), the cumulative limits                 *)
(* (CumulativeTracker), the orchestrator that runs the request             *)
(* (Orchestrator), the ledger that leases its envelope (EnvelopeLedger),   *)
(* the retries of its settlement and the dispute about it (Settlement).    *)
(* They share no state, so a behaviour runs one of them, which `part`      *)
(* names.                                                                  *)
(***************************************************************************)
EXTENDS EnvelopeLedger, CumulativeTracker, Settlement, Orchestrator, ScopeAttenuation, TLC

CONSTANT Parts   \* the parts that are run

VARIABLE part

ExecutionInit ==
    /\ part \in Parts
    /\ SaInit /\ CtInit /\ OrInit /\ Init /\ SrInit /\ ArbInit

ExecutionNext ==
    /\ \/ part = "scopes" /\ SaNext /\ UNCHANGED <<ctVars, orVars, vars, srVars, arbVars>>
       \/ part = "limits" /\ CtNext /\ UNCHANGED <<saVars, orVars, vars, srVars, arbVars>>
       \/ part = "orchestrator" /\ OrNext /\ UNCHANGED <<saVars, ctVars, vars, srVars, arbVars>>
       \/ part = "envelope" /\ Next /\ UNCHANGED <<saVars, ctVars, orVars, srVars, arbVars>>
       \/ part = "retry" /\ SrNext /\ UNCHANGED <<saVars, ctVars, orVars, vars, arbVars>>
       \/ part = "dispute" /\ ArbNext /\ UNCHANGED <<saVars, ctVars, orVars, vars, srVars>>
    /\ UNCHANGED part

ExecutionSpec ==
    ExecutionInit /\ [][ExecutionNext]_<<part, saVars, ctVars, orVars, vars, srVars, arbVars>>

-----------------------------------------------------------------------------
(* What is put to the parts.                                               *)

\* weekly windows of days of four minutes, one of them in another time zone
Weekly ==
    {RecurringWindow(from, to, days, 0) : from \in 0..3, to \in 0..3, days \in {{}, {{0}}, {{0, 1}}}}
      \cup {RecurringWindow(1, 2, {{0}}, 1)}

GrantedScopes ==
    {AllowlistScope(values) : values \in {{}, {"ax"}, {"*x"}, {"ax", "*x"}}}
      \cup {NumericLimitScope(max) : max \in 0..1}
      \cup {TemporalScope(from, to, {}) : from \in 0..1, to \in {11, 12}}
      \cup {TemporalScope(0, 12, {window}) : window \in Weekly}
      \cup {CumulativeLimitScope("action_record", "count", window, 1, "none") : window \in {"day", "month"}}
      \cup {CumulativeLimitScope("action_record", "amount", "day", max, "usd") : max \in 0..1}
      \cup {CumulativeLimitScope("external_witness", "count", "day", 1, "none")}

Read(scope) == [action |-> "read", scope |-> scope]
Grants == {{Read(scope)} : scope \in GrantedScopes}
            \cup {{Read(NumericLimitScope(max)), Read(AllowlistScope({"ax"}))} : max \in 0..1}

Requests ==
    [action : {"read", "write"}, target : {"ax", "bx", NoTarget}, amount : {Absent} \cup 0..2, used : {0}, at : {4}]
      \cup [action : {"read"}, target : {"ax"}, amount : {1}, used : 0..1, at : 0..11]

\* one limit of the tracker on amounts, and two of which the second is on calls
OneLimit == {<<"transaction_amount">>}
TwoLimits == {<<"transaction_amount", "api_call_count">>}
MaxTwo == [m \in Metrics |-> 2]
MaxOneCall == [m \in Metrics |-> IF m = "api_call_count" THEN 1 ELSE 3]

\* two limits of the orchestrator: one counts successes only
SuccessesAndAll == <<"SUCCESS", "*">>

TrackerSymmetry == Permutations(Calls) \cup Permutations(RecordIds)
ExecutionSymmetry == Permutations(Clients) \cup Permutations(Claimers) \cup TrackerSymmetry

-----------------------------------------------------------------------------
\* The provider is asked to settle again only after a success that a crash or a failing
\* audit write kept from the record, however stale the copy a worker retries from
\* (settlement-retry.ts), and however two filings race a dispute has one decision and the
\* audit events of its stored state (state-machine.ts).
SettlementIsSound == SrTypeOK /\ SettledOnce /\ ArbTypeOK /\ DecidedOnce

\* The quota of the sender agrees with what was run for it, and a reply, also one out of the
\* cache, with what was recorded (orchestrator.ts).
OrchestratorIsSound == OrTypeOK /\ QuotaFollowsBusiness /\ RepliesAreTrue

\* In the order of their stamps reservations never exceed a limit, and a settled amount keeps
\* to it as of reserve time (checkAndReserve, doSettle).
LimitsAreKept == CtTypeOK /\ NoOverAdmissionInOrder /\ SettledOverBaseline

\* A delegated token permits nothing its principal's token does not, but for the early
\* hours of another day when a window across midnight was narrowed (validateAttenuation).
DelegatedScopesAreWithin == SaTypeOK /\ LeafWithinRootButForMidnight
=============================================================================
