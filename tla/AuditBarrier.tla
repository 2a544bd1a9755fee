---------------------------- MODULE AuditBarrier ----------------------------
(***************************************************************************)
(* AuditBarrier: an ACTION_INTENT record is written before an action is    *)
(* executed, an ACTION_RESULT record after it, and a receipt is signed     *)
(* only once the result is recorded.  The barrier's queue and intent       *)
(* states live in one process and are lost when it restarts; a record()    *)
(* in flight is decided by the database whether or not its caller is still *)
(* waiting for it.                                                         *)
(***************************************************************************)
EXTENDS Integers, Sequences, FiniteSets

CONSTANTS
    Intents,        \* beforeExecute calls, named by their auditIntentId
    AbAgents,
    AgentOf,        \* AgentOf[i]: record.agentDid
    None,
    MaxAfter,       \* bound: afterExecute calls for one intent
    MaxRestarts     \* bound: restarts of the process

ASSUME BarrierAssumption ==
    /\ AgentOf \in [Intents -> AbAgents]
    /\ None \notin Intents
    /\ MaxAfter \in Nat
    /\ MaxRestarts \in Nat

VARIABLES
    pc,         \* the beforeExecute call
    previous,   \* the call it queues behind
    tail,       \* happensBefore: the last call of each agent's queue
    write,      \* the record() of the ACTION_INTENT
    lifecycle,  \* intentStates
    afters,     \* afterExecute calls: made, writing, written but not returned
    log,        \* the barrier's records in policy.action_records, in commit order
    executed,   \* intents whose action was executed
    signed,     \* intents whose receipt beforeReceiptSign let pass
    restarts

abVars == <<pc, previous, tail, write, lifecycle, afters, log, executed, signed, restarts>>

Entry == {"INTENT", "RESULT"} \X Intents

\* The queue, the intent states and the ledger have their types (audit-barrier.ts
\* IntentState and happensBefore).
AbTypeOK ==
    /\ pc \in [Intents -> {"new", "queued", "writing", "returned", "timeout", "failed", "lost"}]
    /\ previous \in [Intents -> Intents \cup {None}]
    /\ tail \in [AbAgents -> Intents \cup {None}]
    /\ write \in [Intents -> {"none", "inflight", "done", "failed"}]
    /\ lifecycle \in [Intents -> {"none", "INTENT_WRITTEN", "RESULT_WRITTEN"}]
    /\ afters \in [Intents -> [made : Nat, writing : Nat, written : Nat]]
    /\ log \in Seq(Entry)
    /\ executed \subseteq Intents
    /\ signed \subseteq Intents
    /\ restarts \in Nat

AbInit ==
    /\ pc = [i \in Intents |-> "new"]
    /\ previous = [i \in Intents |-> None]
    /\ tail = [a \in AbAgents |-> None]
    /\ write = [i \in Intents |-> "none"]
    /\ lifecycle = [i \in Intents |-> "none"]
    /\ afters = [i \in Intents |-> [made |-> 0, writing |-> 0, written |-> 0]]
    /\ log = <<>>
    /\ executed = {}
    /\ signed = {}
    /\ restarts = 0

Logged(type, i) == \E n \in 1..Len(log) : log[n] = <<type, i>>

-----------------------------------------------------------------------------
(* beforeExecute.                                                          *)

\* the call takes its place behind the last one of its agent
BeforeExecute(i) ==
    /\ pc[i] = "new"
    /\ pc' = [pc EXCEPT ![i] = "queued"]
    /\ previous' = [previous EXCEPT ![i] = tail[AgentOf[i]]]
    /\ tail' = [tail EXCEPT ![AgentOf[i]] = i]
    /\ UNCHANGED <<write, lifecycle, afters, log, executed, signed, restarts>>

\* mutant: resolveLock() only after a successful write
Released_OnSuccess(i) == i # None => pc[i] = "returned"

\* mutant: previous is not awaited
Released_Always(i) == TRUE

\* finally { resolveLock() }
Released(i) == i # None => pc[i] \in {"returned", "timeout", "failed"}

\* await previous, then record() and the timer start
StartWrite(i) ==
    /\ pc[i] = "queued" /\ Released(previous[i])
    /\ pc' = [pc EXCEPT ![i] = "writing"]
    /\ write' = [write EXCEPT ![i] = "inflight"]
    /\ UNCHANGED <<previous, tail, lifecycle, afters, log, executed, signed, restarts>>

\* record() commits, or fails
IntentCommits(i) ==
    /\ write[i] = "inflight"
    /\ write' = [write EXCEPT ![i] = "done"]
    /\ log' = Append(log, <<"INTENT", i>>)
    /\ UNCHANGED <<pc, previous, tail, lifecycle, afters, executed, signed, restarts>>

IntentFails(i) ==
    /\ write[i] = "inflight"
    /\ write' = [write EXCEPT ![i] = "failed"]
    /\ UNCHANGED <<pc, previous, tail, lifecycle, afters, log, executed, signed, restarts>>

\* mutant: a failed write registers the intent all the same
Returns_Unchecked(i) ==
    /\ pc[i] = "writing" /\ write[i] \in {"done", "failed"}
    /\ pc' = [pc EXCEPT ![i] = "returned"]
    /\ lifecycle' = [lifecycle EXCEPT ![i] = "INTENT_WRITTEN"]
    /\ UNCHANGED <<previous, tail, write, afters, log, executed, signed, restarts>>

\* the auditIntentId is returned
Returns(i) ==
    /\ pc[i] = "writing" /\ write[i] = "done"
    /\ pc' = [pc EXCEPT ![i] = "returned"]
    /\ lifecycle' = [lifecycle EXCEPT ![i] = "INTENT_WRITTEN"]
    /\ UNCHANGED <<previous, tail, write, afters, log, executed, signed, restarts>>

\* AUDIT_INTENT_PERSIST_FAILED
Throws(i) ==
    /\ pc[i] = "writing" /\ write[i] = "failed"
    /\ pc' = [pc EXCEPT ![i] = "failed"]
    /\ UNCHANGED <<previous, tail, write, lifecycle, afters, log, executed, signed, restarts>>

\* AUDIT_INTENT_TIMEOUT: the timer wins the race, the write goes on
Timeout(i) ==
    /\ pc[i] = "writing"
    /\ pc' = [pc EXCEPT ![i] = "timeout"]
    /\ UNCHANGED <<previous, tail, write, lifecycle, afters, log, executed, signed, restarts>>

-----------------------------------------------------------------------------
(* The caller, afterExecute and beforeReceiptSign.                         *)

\* the caller executes once beforeExecute has returned
Execute(i) ==
    /\ pc[i] = "returned" /\ i \notin executed
    /\ executed' = executed \cup {i}
    /\ UNCHANGED <<pc, previous, tail, write, lifecycle, afters, log, signed, restarts>>

\* an unknown intent throws and a finished one returns at once: neither changes anything
AfterExecute(i) ==
    /\ pc[i] = "returned" /\ afters[i].made < MaxAfter
    /\ lifecycle[i] = "INTENT_WRITTEN"
    /\ afters' = [afters EXCEPT ![i] = [made |-> afters[i].made + 1,
                                        writing |-> afters[i].writing + 1,
                                        written |-> afters[i].written]]
    /\ UNCHANGED <<pc, previous, tail, write, lifecycle, log, executed, signed, restarts>>

ResultCommits(i) ==
    /\ afters[i].writing > 0
    /\ afters' = [afters EXCEPT ![i] = [made |-> afters[i].made,
                                        writing |-> afters[i].writing - 1,
                                        written |-> afters[i].written + 1]]
    /\ log' = Append(log, <<"RESULT", i>>)
    /\ UNCHANGED <<pc, previous, tail, write, lifecycle, executed, signed, restarts>>

\* mutant: the catch does not rethrow
ResultFails_Swallowed(i) ==
    /\ afters[i].writing > 0
    /\ afters' = [afters EXCEPT ![i] = [made |-> afters[i].made,
                                        writing |-> afters[i].writing - 1,
                                        written |-> afters[i].written + 1]]
    /\ UNCHANGED <<pc, previous, tail, write, lifecycle, log, executed, signed, restarts>>

\* AUDIT_RECORD_UPDATE_FAILED
ResultFails(i) ==
    /\ afters[i].writing > 0
    /\ afters' = [afters EXCEPT ![i] = [@ EXCEPT !.writing = afters[i].writing - 1]]
    /\ UNCHANGED <<pc, previous, tail, write, lifecycle, log, executed, signed, restarts>>

\* the lifecycle advances when the write returns to a process that still waits for it
ResultReturns(i) ==
    /\ pc[i] = "returned" /\ afters[i].written > 0
    /\ afters' = [afters EXCEPT ![i] = [@ EXCEPT !.written = afters[i].written - 1]]
    /\ lifecycle' = [lifecycle EXCEPT ![i] = "RESULT_WRITTEN"]
    /\ UNCHANGED <<pc, previous, tail, write, log, executed, signed, restarts>>

BeforeReceiptSign(i) ==
    /\ lifecycle[i] = "RESULT_WRITTEN" /\ i \notin signed
    /\ signed' = signed \cup {i}
    /\ UNCHANGED <<pc, previous, tail, write, lifecycle, afters, log, executed, restarts>>

\* both maps are empty again; nobody waits for the writes in flight
Restart ==
    /\ restarts < MaxRestarts
    /\ restarts' = restarts + 1
    /\ pc' = [i \in Intents |-> IF pc[i] = "new" THEN "new" ELSE "lost"]
    /\ tail' = [a \in AbAgents |-> None]
    /\ lifecycle' = [i \in Intents |-> "none"]
    /\ UNCHANGED <<previous, write, afters, log, executed, signed>>

AbNext ==
    \/ \E i \in Intents :
         \/ BeforeExecute(i) \/ StartWrite(i) \/ IntentCommits(i) \/ IntentFails(i)
         \/ Returns(i) \/ Throws(i) \/ Timeout(i)
         \/ Execute(i) \/ AfterExecute(i) \/ ResultCommits(i) \/ ResultFails(i)
         \/ ResultReturns(i) \/ BeforeReceiptSign(i)
    \/ Restart

AbSpec == AbInit /\ [][AbNext]_abVars

\* a resolved promise is acted upon and an armed timer fires; the database may never answer
AbFairness == \A i \in Intents : WF_abVars(StartWrite(i)) /\ WF_abVars(Timeout(i))

AbFairSpec == AbSpec /\ AbFairness

-----------------------------------------------------------------------------
(* Properties.                                                             *)

\* An action is executed only when its intent is in the ledger, also when writes are
\* lost, late or cut off by a restart (beforeExecute).
ExecutedIsRecorded == \A i \in executed : Logged("INTENT", i)

\* A receipt is signed only when the ledger has the intent and, behind it, the result
\* (beforeReceiptSign).
ReceiptIsAudited ==
    \A i \in signed : \E m, n \in 1..Len(log) :
      m < n /\ log[m] = <<"INTENT", i>> /\ log[n] = <<"RESULT", i>>

\* Of two calls of one agent of which the later queued right behind the earlier, both
\* returned, the earlier one's intent comes first in the ledger (happens-before queue).
ReturnedInOrder ==
    \A i, j \in Intents :
      pc[i] = "returned" /\ pc[j] = "returned" /\ previous[j] = i =>
        \A m, n \in 1..Len(log) : log[m] = <<"INTENT", i>> /\ log[n] = <<"INTENT", j>> => m < n

\* An executed action has its intent in the ledger, a signed receipt its result as well, and
\* calls that queued one behind the other return in that order (AuditBarrier).
BarrierIsSound == AbTypeOK /\ ExecutedIsRecorded /\ ReceiptIsAudited /\ ReturnedInOrder

\* A call never waits for ever: failed and timed-out calls let their successors go.
QueueDrains == \A i \in Intents : pc[i] = "queued" ~> pc[i] # "queued"
=============================================================================
