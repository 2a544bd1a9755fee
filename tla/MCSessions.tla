------------------------------ MODULE MCSessions ------------------------------
(***************************************************************************)
(* The two stores behind SessionManager, for TLC: the Postgres table       *)
(* (SessionStore) and the in-memory map beside it.  Both implement         *)
(* SessionLifecycle.  They share no state, so a behaviour runs one of them,*)
(* which `part` names.                                                     *)
(***************************************************************************)
EXTENDS SessionStore

CONSTANTS
    Parts,       \* the parts that are run
    s1, s2, s3   \* two sessions of one pair of DIDs, and one of another pair

VARIABLE part

\* one of the pair's sessions is without a token
Pair == [s \in Sessions |-> IF s = s3 THEN "q" ELSE "p"]
Token == [s \in Sessions |-> IF s = s2 THEN None ELSE "t"]
Principal == [s \in Sessions |-> "principal"]

MemToken == [s \in MemSessions |-> s]
MemPrincipal == [s \in MemSessions |-> "principal"]

SessionsInit == part \in Parts /\ Init /\ MemInit

SessionsNext ==
    /\ \/ part = "table" /\ Next /\ UNCHANGED memVars
       \/ part = "memory" /\ MemNext /\ UNCHANGED vars
    /\ UNCHANGED part

\* what is fair of the table is disabled as long as it is empty
SessionsSpec == SessionsInit /\ [][SessionsNext]_<<part, vars, memVars>> /\ Fairness
=============================================================================
