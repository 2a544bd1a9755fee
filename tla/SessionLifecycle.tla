-------------------------- MODULE SessionLifecycle --------------------------
(***************************************************************************)
(* What the interface SessionStore (communication/src/session/types.ts)    *)
(* promises its callers, whichever store is behind it: the life of a       *)
(* session and the revision every change of it raises, on which the fence  *)
(* of markAuthorized rests.                                                *)
(***************************************************************************)
EXTENDS Integers

CONSTANT LcSessions  \* session ids

VARIABLE lifecycle   \* session -> its state and revision

LcLive == {"CREATED", "ACTIVE", "IDLE"}
LcEntry == [state : LcLive \cup {"none", "CLOSED"}, rev : Nat]

LcInit == lifecycle = [s \in LcSessions |-> [state |-> "none", rev |-> 0]]

\* the states a live session may go to; a change of anything else leaves the state as it is
LcEdges == {<<st, st>> : st \in LcLive} \cup {<<st, "CLOSED">> : st \in LcLive} \cup
           {<<"CREATED", "ACTIVE">>, <<"ACTIVE", "IDLE">>, <<"IDLE", "ACTIVE">>}

LcSame(s) == lifecycle'[s] = lifecycle[s]

LcCreated(s) ==
    /\ lifecycle[s].state = "none"
    /\ lifecycle'[s].state \in {"CREATED", "ACTIVE"} /\ lifecycle'[s].rev = 1

LcMoved(s) ==
    /\ <<lifecycle[s].state, lifecycle'[s].state>> \in LcEdges
    /\ lifecycle'[s].rev = lifecycle[s].rev + 1

\* create, and supersedeAndCreate, which closes the session it replaces in the same step
LcCreate(s) ==
    /\ LcCreated(s)
    /\ \E old \in LcSessions :
          \A t \in LcSessions \ {s} :
             LcSame(t) \/ (t = old /\ LcMoved(t) /\ lifecycle'[t].state = "CLOSED")

\* one session is updated, claimed, authorized or resumed; a cascade or the sweep changes several
LcChange == \A s \in LcSessions : LcSame(s) \/ LcMoved(s)

LcNext ==
    /\ lifecycle' \in [LcSessions -> LcEntry]
    /\ LcChange \/ \E s \in LcSessions : LcCreate(s)

LcSpec == LcInit /\ [][LcNext]_lifecycle
=============================================================================
