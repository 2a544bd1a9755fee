------------------------- MODULE WebSocketTransport -------------------------
(***************************************************************************)
(* WebSocketTransport (communication/src/transport/websocket.ts): one      *)
(* socket per request with framed messages, the listening side with its    *)
(* frame buffers and heartbeats, and the connection kept open by           *)
(* connectPersistent.                                                      *)
(*                                                                         *)
(* A socket delivers frames in order until it is closed or its link is     *)
(* silently cut.  A request, and a reply, is WsFrames frames long (one     *)
(* frame stands for a message below the framing threshold).                *)
(***************************************************************************)
EXTENDS Integers, Sequences, FiniteSets

CONSTANTS
    WsRequests,      \* requests, one socket each
    WsFrames,        \* frames of a message
    MaxMissed,       \* heartbeatMaxMissed
    MaxAttempts,     \* reconnectMaxAttempts
    MaxConnections   \* bound: sockets the persistent connection opens

ASSUME WsAssumption ==
    /\ WsFrames \in Nat \ {0} /\ MaxMissed \in Nat
    /\ MaxAttempts \in Nat /\ MaxConnections \in Nat

VARIABLES
    listening,   \* the server accepts connections
    request,     \* request -> [pc, outcome] of send
    socket,      \* request -> "none", "open" or "closed", as the server sees it
    cut,         \* requests whose link has been cut silently
    up, down,    \* request -> frames under way to the server, to the client
    got,         \* request -> frames in the server's buffer (socketFrameBuffers)
    back,        \* request -> frames in the client's buffer
    handling,    \* requests whose envelope the handler has
    replied,     \* requests the handler replied to
    missed,      \* request -> missedCount of its socket
    pinged,      \* requests whose ping has not been answered
    persistent   \* connectPersistent: [pc, stopped, failures, opened]

sendVars == <<request, back>>
serverVars == <<socket, got, handling, replied, missed, pinged>>
wireVars == <<cut, up, down>>
wsVars == <<listening, sendVars, serverVars, wireVars, persistent>>

WsTypeOK ==
    /\ listening \in BOOLEAN
    /\ \A r \in WsRequests :
          /\ request[r].pc \in {"idle", "connecting", "open", "done"}
          /\ request[r].outcome \in {"none", "answer", "null", "timeout", "error"}
          /\ socket[r] \in {"none", "open", "closed"}
          /\ got[r] \subseteq 1..WsFrames /\ back[r] \subseteq 1..WsFrames
          /\ missed[r] \in 0..MaxMissed
    /\ persistent.failures \in 0..MaxAttempts /\ persistent.opened \in 0..MaxConnections

WsInit ==
    /\ listening = FALSE
    /\ request = [r \in WsRequests |-> [pc |-> "idle", outcome |-> "none"]]
    /\ socket = [r \in WsRequests |-> "none"]
    /\ cut = {} /\ up = [r \in WsRequests |-> << >>] /\ down = [r \in WsRequests |-> << >>]
    /\ got = [r \in WsRequests |-> {}] /\ back = [r \in WsRequests |-> {}]
    /\ handling = {} /\ replied = {}
    /\ missed = [r \in WsRequests |-> 0] /\ pinged = {}
    /\ persistent = [pc |-> "none", stopped |-> FALSE, failures |-> 0, opened |-> 0]

-----------------------------------------------------------------------------
(* send *)

SplitIntoFrames == [i \in 1..WsFrames |-> i]
Settle(r, outcome) == request' = [request EXCEPT ![r] = [pc |-> "done", outcome |-> outcome]]

StartSend(r) ==
    /\ request[r].pc = "idle"
    /\ request' = [request EXCEPT ![r].pc = "connecting"]
    /\ UNCHANGED <<listening, back, serverVars, wireVars, persistent>>

\* 'open' on one side, 'connection' on the other; the envelope is sent at once
Connect(r) ==
    /\ request[r].pc = "connecting" /\ listening
    /\ request' = [request EXCEPT ![r].pc = "open"]
    /\ socket' = [socket EXCEPT ![r] = "open"]
    /\ up' = [up EXCEPT ![r] = SplitIntoFrames]
    /\ UNCHANGED <<listening, back, got, handling, replied, missed, pinged, cut, down, persistent>>

ConnectError(r) ==
    /\ request[r].pc = "connecting" /\ ~listening
    /\ Settle(r, "error")
    /\ UNCHANGED <<listening, back, serverVars, wireVars, persistent>>

\* mutant: a message counts as complete with its first frame
Complete_First(frames) == frames # {}

\* A frame is stored; a complete set is the envelope.
Complete(frames) == Cardinality(frames) = WsFrames
\* onMessage; the client closes the socket when it has the answer
ClientReceive(r) ==
    LET frames == back[r] \cup {Head(down[r])}
    IN  /\ request[r].pc = "open" /\ down[r] # << >> /\ r \notin cut
        /\ down' = [down EXCEPT ![r] = Tail(@)]
        /\ IF Complete(frames) THEN back' = [back EXCEPT ![r] = {}] /\ Settle(r, "answer")
           ELSE back' = [back EXCEPT ![r] = frames] /\ UNCHANGED request
        /\ UNCHANGED <<listening, serverVars, cut, up, persistent>>

\* the server closed the socket and everything it sent has arrived
ClientSeesClose(r) ==
    /\ request[r].pc = "open" /\ socket[r] = "closed" /\ down[r] = << >> /\ r \notin cut
    /\ Settle(r, "null")
    /\ UNCHANGED <<listening, back, serverVars, wireVars, persistent>>

SendTimeout(r) ==
    /\ request[r].pc \in {"connecting", "open"}
    /\ Settle(r, "timeout")
    /\ UNCHANGED <<listening, back, serverVars, wireVars, persistent>>

-----------------------------------------------------------------------------
(* listen *)

\* 'close' of a socket: the timer, the buffers and the client are dropped
DropSocket(r) ==
    /\ socket' = [socket EXCEPT ![r] = "closed"]
    /\ got' = [got EXCEPT ![r] = {}]
    /\ pinged' = pinged \ {r}
    /\ up' = [up EXCEPT ![r] = << >>]

ServerReceive(r) ==
    LET frames == got[r] \cup {Head(up[r])}
    IN  /\ socket[r] = "open" /\ up[r] # << >> /\ r \notin cut
        /\ up' = [up EXCEPT ![r] = Tail(@)]
        /\ IF Complete(frames) THEN got' = [got EXCEPT ![r] = {}] /\ handling' = handling \cup {r}
           ELSE got' = [got EXCEPT ![r] = frames] /\ UNCHANGED handling
        /\ UNCHANGED <<listening, sendVars, socket, replied, missed, pinged, cut, down, persistent>>

\* the handler answers, has nothing to say, or throws; then the socket is closed.  A socket that
\* was closed meanwhile swallows the reply.
HandlerEnds(r, reply) ==
    /\ r \in handling
    /\ handling' = handling \ {r}
    /\ replied' = IF reply THEN replied \cup {r} ELSE replied
    /\ IF socket[r] = "open"
       THEN DropSocket(r) /\ down' = [down EXCEPT ![r] = IF reply THEN SplitIntoFrames ELSE << >>]
       ELSE UNCHANGED <<socket, got, pinged, up, down>>
    /\ UNCHANGED <<listening, sendVars, missed, cut, persistent>>

\* The client has closed or terminated the socket.
ServerSeesClose(r) ==
    /\ socket[r] = "open" /\ request[r].pc = "done" /\ r \notin cut
    /\ DropSocket(r)
    /\ UNCHANGED <<listening, sendVars, handling, replied, missed, cut, down, persistent>>

\* mutant: missed pongs are not counted
TooManyMissed_Never(r) == FALSE

\* The heartbeat interval: too many pings without a pong and the socket is terminated.
TooManyMissed(r) == missed[r] >= MaxMissed
Heartbeat(r) ==
    /\ socket[r] = "open"
    /\ IF TooManyMissed(r)
       THEN DropSocket(r) /\ UNCHANGED missed
       ELSE /\ missed' = [missed EXCEPT ![r] = IF @ < MaxMissed THEN @ + 1 ELSE @]
            /\ pinged' = pinged \cup {r}
            /\ UNCHANGED <<socket, got, up>>
    /\ UNCHANGED <<listening, sendVars, handling, replied, cut, down, persistent>>

Pong(r) ==
    /\ r \in pinged /\ request[r].pc = "open" /\ r \notin cut
    /\ pinged' = pinged \ {r}
    /\ missed' = [missed EXCEPT ![r] = 0]
    /\ UNCHANGED <<listening, sendVars, socket, got, handling, replied, wireVars, persistent>>

\* the network drops a link without telling either side
CutLink(r) ==
    /\ request[r].pc = "open" /\ socket[r] = "open" /\ r \notin cut
    /\ cut' = cut \cup {r}
    /\ UNCHANGED <<listening, sendVars, serverVars, up, down, persistent>>

Listen ==
    /\ ~listening /\ listening' = TRUE
    /\ UNCHANGED <<sendVars, serverVars, wireVars, persistent>>

\* close: every client is terminated, frames under way are lost
CloseServer ==
    /\ listening /\ listening' = FALSE
    /\ socket' = [r \in WsRequests |-> IF socket[r] = "open" THEN "closed" ELSE socket[r]]
    /\ got' = [r \in WsRequests |-> {}] /\ pinged' = {}
    /\ up' = [r \in WsRequests |-> << >>]
    /\ UNCHANGED <<sendVars, handling, replied, missed, cut, down, persistent>>

-----------------------------------------------------------------------------
(* connectPersistent *)

PersistentAt(pc) == persistent.pc = pc
PersistentGoes(pc) == persistent' = [persistent EXCEPT !.pc = pc]

\* schedule: not after stop, nor after too many failures in a row; then the module is awaited
Schedule(from) ==
    /\ PersistentAt(from)
    /\ PersistentGoes(IF persistent.stopped \/ persistent.failures >= MaxAttempts THEN "ended" ELSE "loading")
    /\ UNCHANGED <<listening, sendVars, serverVars, wireVars>>

\* the socket is made without another look at stopped
OpenSocket ==
    /\ PersistentAt("loading") /\ persistent.opened < MaxConnections
    /\ persistent' = [persistent EXCEPT !.pc = "connecting", !.opened = @ + 1]
    /\ UNCHANGED <<listening, sendVars, serverVars, wireVars>>

FailuresAfter(connected) == IF connected THEN 0 ELSE persistent.failures + 1
PersistentConnected ==
    /\ PersistentAt("connecting") /\ listening
    /\ persistent' = [persistent EXCEPT !.pc = "connected", !.failures = FailuresAfter(TRUE)]
    /\ UNCHANGED <<listening, sendVars, serverVars, wireVars>>

\* A failed attempt emits 'error' and 'close' in one go, and the listener for 'close' is attached
\* only when the wait for 'open' or 'error' is over: "failed" waits for a 'close' that has been.
PersistentFails ==
    /\ PersistentAt("connecting")
    /\ persistent' = [persistent EXCEPT !.pc = "failed", !.failures = FailuresAfter(FALSE)]
    /\ UNCHANGED <<listening, sendVars, serverVars, wireVars>>

\* 'close' of a connection that was there: the peer may end it at any time; then the delay
PersistentCloses ==
    /\ PersistentAt("closing") \/ PersistentAt("connected")
    /\ PersistentGoes(IF persistent.stopped \/ persistent.failures >= MaxAttempts THEN "ended" ELSE "delay")
    /\ UNCHANGED <<listening, sendVars, serverVars, wireVars>>

\* stop terminates the socket there is: of a connection, 'close' follows; an attempt under way
\* fails (PersistentFails)
Stop ==
    /\ ~persistent.stopped /\ ~PersistentAt("none")
    /\ persistent' = [persistent EXCEPT !.stopped = TRUE,
                         !.pc = IF @ = "connected" THEN "closing" ELSE @]
    /\ UNCHANGED <<listening, sendVars, serverVars, wireVars>>

-----------------------------------------------------------------------------
WsNext ==
    \/ \E r \in WsRequests :
          \/ StartSend(r) \/ Connect(r) \/ ConnectError(r) \/ ClientReceive(r) \/ ClientSeesClose(r)
          \/ SendTimeout(r) \/ ServerReceive(r) \/ ServerSeesClose(r) \/ Heartbeat(r) \/ Pong(r) \/ CutLink(r)
          \/ \E reply \in BOOLEAN : HandlerEnds(r, reply)
    \/ Listen \/ CloseServer
    \/ Schedule("none") \/ Schedule("delay") \/ OpenSocket
    \/ PersistentConnected \/ PersistentFails \/ PersistentCloses \/ Stop

\* the event loop of the persistent connection: what it awaits and has been told of is resumed
PersistentFairness ==
    /\ WF_wsVars(Schedule("none")) /\ WF_wsVars(Schedule("delay")) /\ WF_wsVars(OpenSocket)
    /\ WF_wsVars(PersistentAt("closing") /\ PersistentCloses)

\* timers fire: the heartbeat of an open socket
WsFairness == \A r \in WsRequests : WF_wsVars(Heartbeat(r))

WsSpec == WsInit /\ [][WsNext]_wsVars /\ WsFairness

-----------------------------------------------------------------------------
\* The handler sees whole envelopes only, and a send that resolves with an envelope has the whole
\* of its own reply.
SendsResolveTruly ==
    \A r \in WsRequests : /\ r \in handling \cup replied => up[r] = << >>
                          /\ request[r].outcome = "answer" => r \in replied /\ down[r] = << >>

\* No buffer outlives its socket.
NoBufferLeaks == \A r \in WsRequests : got[r] # {} => socket[r] = "open"

\* An answer is the whole reply to the request it answers, reassembled from its own frames, and
\* no buffer outlives its socket (websocket.ts send, listen and its heartbeat).
TransportIsSound == WsTypeOK /\ SendsResolveTruly /\ NoBufferLeaks

\* "auto-reconnect" of connectPersistent: while attempts are left and nobody calls stop(), a failed
\* attempt is followed by another one.
FailuresAreRetried ==
    persistent.failures \in 1..(MaxAttempts - 1) ~> PersistentAt("loading") \/ persistent.stopped

\* A socket whose link was cut does not stay open for ever: the heartbeats end it.
DeadPeersAreDropped == \A r \in WsRequests : r \in cut ~> socket[r] # "open"
=============================================================================
