---------------------------- MODULE MCConnections ----------------------------
(***************************************************************************)
(* How a session comes about, for TLC: the three messages of the handshake *)
(* (Handshake) and the sockets that carry envelopes (WebSocketTransport).  *)
(* They share no state, so a behaviour runs one of them, which `part`      *)
(* names.                                                                  *)
(***************************************************************************)
EXTENDS Handshake, WebSocketTransport

CONSTANTS
    Parts,   \* the parts that are run
    did      \* the initiator

VARIABLE part

\* calls of one initiator; a responder with every preference and a validator, and one without
OneInitiator == {did}
SameInitiator == [c \in Calls |-> did]
AnyServer == [pref : Prefs, validates : {TRUE}] \cup [pref : {"REQUIRED"}, validates : {FALSE}]

\* a behaviour of the sockets needs no choice of preferences
Untold ==
    /\ pref = [d \in Dids |-> "OFF"] /\ token = [c \in Calls |-> NoToken]
    /\ server = [pref |-> "OFF", validates |-> TRUE]

ConnectionsInit ==
    /\ part \in Parts
    /\ Init /\ (part = "transport" => Untold)
    /\ WsInit

ConnectionsNext ==
    /\ \/ part = "handshake" /\ Next /\ UNCHANGED wsVars
       \/ part = "transport" /\ WsNext /\ UNCHANGED vars
    /\ UNCHANGED part

\* no timer of a part is armed before the part has begun
ConnectionsSpec ==
    /\ ConnectionsInit /\ [][ConnectionsNext]_<<part, vars, wsVars>>
    /\ InitiatorFairness /\ WsFairness

\* the persistent connection as the event loop runs it
PersistentSpec ==
    /\ ConnectionsInit /\ [][ConnectionsNext]_<<part, vars, wsVars>>
    /\ PersistentFairness
=============================================================================
