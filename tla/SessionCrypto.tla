---------------------------- MODULE SessionCrypto ----------------------------
(***************************************************************************)
(* The encrypted session: SessionRegistryImpl of both ends                 *)
(* (communication/src/session-registry.ts), the handles it keeps           *)
(* (session/crypto-state.ts), and the sealing and opening of message       *)
(* bodies (encryptEnvelopeBody, decryptEnvelopeBody of envelope.ts) with   *)
(* the key schedule of crypto/src/encryption.ts.                           *)
(*                                                                         *)
(* A key is [root, gen]: root names the handshake the generation comes     *)
(* from, gen the generation; two keys are equal exactly when both ends     *)
(* derived them from the same handshake by the same number of rekeys, and  *)
(* a keyId stands for the key and its generation.  Every call is one       *)
(* synchronous step.  The network may lose, repeat and reorder bodies.     *)
(***************************************************************************)
EXTENDS Integers, Sequences, FiniteSets

CONSTANTS
    ScTokens,     \* capability tokens a session may be authorized by
    ScWindow,     \* dualKeyFallbackMs
    MaxRoots,     \* bound: handshakes
    MaxGen,       \* bound: generations of one handshake
    MaxSealed,    \* bound: bodies sealed
    MaxScTime     \* bound: age of a timer

ASSUME ScAssumption == {ScWindow, MaxRoots, MaxGen, MaxSealed, MaxScTime} \subseteq Nat

VARIABLES
    agreed,    \* root -> the token its handshake authorized, in the order of the handshakes
    handles,   \* end -> the handles it has ever made, as objects
    entry,     \* end -> its registry entry: positions of the two handles
    timers,    \* end -> ages of the pending dual-key timers
    swapped,   \* end -> time since the swap of the window that is open
    seen,      \* end -> [peer key -> the highest number opened], _replayTracker
    sealed,    \* bodies sealed, in order
    opened     \* end -> bodies opened, in order

scVars == <<agreed, handles, entry, timers, swapped, seen, sealed, opened>>

ScEnds == {"initiator", "responder"}
ScPeer(e) == CHOOSE f \in ScEnds : f # e
NullToken == "null"
NoKeyEntry == [current |-> 0, previous |-> 0]
Registered(e) == entry[e].current # 0
Current(e) == handles[e][entry[e].current]
Previous(e) == handles[e][entry[e].previous]

\* The registry's positions are those of handles, and the handles, timers and bodies keep their types.
ScTypeOK ==
    /\ \A e \in ScEnds :
          /\ entry[e].current \in 0..Len(handles[e]) /\ entry[e].previous \in 0..Len(handles[e])
          /\ \A i \in 1..Len(handles[e]) :
                handles[e][i].state \in {"ACTIVE", "PENDING_REKEY", "CLOSED"} /\ handles[e][i].next \in 0..MaxSealed
          /\ timers[e] \subseteq 0..MaxScTime /\ swapped[e] \in 0..MaxScTime
    /\ Len(sealed) <= MaxSealed

ScInit ==
    /\ agreed = << >>
    /\ handles = [e \in ScEnds |-> << >>]
    /\ entry = [e \in ScEnds |-> NoKeyEntry]
    /\ timers = [e \in ScEnds |-> {}]
    /\ swapped = [e \in ScEnds |-> 0]
    /\ seen = [e \in ScEnds |-> << >>]
    /\ sealed = << >>
    /\ opened = [e \in ScEnds |-> << >>]

-----------------------------------------------------------------------------
\* A handshake ends: both ends can derive its keys.
Handshake(t) ==
    /\ Len(agreed) < MaxRoots
    /\ agreed' = Append(agreed, t)
    /\ UNCHANGED <<handles, entry, timers, swapped, seen, sealed, opened>>

NewHandle(key, t, st) == [key |-> key, token |-> t, state |-> st, next |-> 0, zeroized |-> FALSE]

\* A root this end has not derived keys from yet
Underived(e, r) == \A i \in 1..Len(handles[e]) : handles[e][i].key.root # r

\* createSession: refused while the id is registered
CreateSession(e, r) ==
    /\ ~Registered(e) /\ Underived(e, r)
    /\ handles' = [handles EXCEPT ![e] = Append(@, NewHandle([root |-> r, gen |-> 0], agreed[r], "ACTIVE"))]
    /\ entry' = [entry EXCEPT ![e] = [current |-> Len(handles[e]) + 1, previous |-> 0]]
    /\ UNCHANGED <<agreed, timers, swapped, seen, sealed, opened>>

\* swapForDualKey: nothing happens while the window of an earlier swap is open
MaySwap(e) == Current(e).state # "PENDING_REKEY"
SwapForDualKey(e, key) ==
    /\ Registered(e) /\ MaySwap(e)
    /\ handles' = [handles EXCEPT ![e] = Append(@, NewHandle(key, Current(e).token, "PENDING_REKEY"))]
    /\ entry' = [entry EXCEPT ![e] = [current |-> Len(handles[e]) + 1, previous |-> @.current]]
    /\ timers' = [timers EXCEPT ![e] = @ \cup {0}]
    /\ swapped' = [swapped EXCEPT ![e] = 0]
    /\ UNCHANGED <<agreed, seen, sealed, opened>>

\* swapForDualKeyChainMode: deriveChainKeyRekeyKeys of the current chain key
ChainRekey(e) ==
    /\ Registered(e) /\ Current(e).key.gen < MaxGen
    /\ SwapForDualKey(e, [Current(e).key EXCEPT !.gen = @ + 1])

\* a new handshake for the session, whose keys the caller hands over
FullRekey(e, r) ==
    /\ Registered(e) /\ Underived(e, r) /\ Current(e).key.gen < MaxGen
    /\ SwapForDualKey(e, [root |-> r, gen |-> Current(e).key.gen + 1])

\* zeroize
Zeroized(h) == [h EXCEPT !.zeroized = TRUE, !.state = "CLOSED"]

\* mutant: the previous key is kept past its window
DropPrevious_Kept(e, hs) == hs

\* _expireDualKeyWindow, by the timer of the window
DropPrevious(e, hs) ==
    IF entry[e].previous = 0 THEN hs ELSE [hs EXCEPT ![entry[e].previous] = Zeroized(@)]
SettleCurrent(e, hs) ==
    [hs EXCEPT ![entry[e].current].state = IF @ = "PENDING_REKEY" THEN "ACTIVE" ELSE @]
ExpireDualKeyWindow(e, a) ==
    /\ a >= ScWindow
    /\ timers' = [timers EXCEPT ![e] = @ \ {a}]
    /\ IF ~Registered(e) THEN UNCHANGED <<handles, entry>>
       ELSE /\ handles' = [handles EXCEPT ![e] = SettleCurrent(e, DropPrevious(e, @))]
            /\ entry' = [entry EXCEPT ![e].previous = 0]
    /\ UNCHANGED <<agreed, swapped, seen, sealed, opened>>

\* mutant: the timer survives the entry it was set for
ClearTimer_Kept(e) == timers[e]

\* closeSession: the timer, both handles, the entry
ClearTimer(e) == {}
CloseSession(e) ==
    /\ Registered(e)
    /\ timers' = [timers EXCEPT ![e] = ClearTimer(e)]
    /\ handles' = [handles EXCEPT ![e] =
          [i \in 1..Len(@) |-> IF i \in {entry[e].current, entry[e].previous} THEN Zeroized(@[i]) ELSE @[i]]]
    /\ entry' = [entry EXCEPT ![e] = NoKeyEntry]
    /\ UNCHANGED <<agreed, swapped, seen, sealed, opened>>

-----------------------------------------------------------------------------
\* encrypt takes the next number of the handle
NextNumber(h) == h.next + 1
\* encryptEnvelopeBody: under the current handle only, for the token of the session, never without one
Seal(e, ref) ==
    LET h == Current(e)
    IN  /\ Registered(e) /\ Len(sealed) < MaxSealed
        /\ h.token = ref /\ h.state # "CLOSED" /\ h.token # NullToken
        /\ sealed' = Append(sealed, [from |-> e, key |-> h.key, seq |-> h.next, token |-> h.token])
        /\ handles' = [handles EXCEPT ![e][entry[e].current].next = NextNumber(h)]
        /\ UNCHANGED <<agreed, entry, timers, swapped, seen, opened>>

\* buildAeadNonce: under one key, two bodies share a nonce when direction and number are the same
AeadNonce(body) == <<body.from, body.key, body.seq>>

\* lookupHandleForDecrypt: by the keyId of the body, no trial
HandleFor(e, key) ==
    IF Current(e).key = key THEN entry[e].current
    ELSE IF entry[e].previous # 0 /\ Previous(e).key = key THEN entry[e].previous ELSE 0

MaxSeen(e, key) == IF key \in DOMAIN seen[e] THEN seen[e][key] ELSE -1

\* mutant: >= instead of > in the test of the number
FreshNumber_Equal(e, m) == m.seq >= MaxSeen(e, m.key)

\* the replay check of decryptEnvelopeBody, per keyId and direction
FreshNumber(e, m) == m.seq > MaxSeen(e, m.key)
\* the associated data bind the token of the handle; the token of the envelope is compared afterwards
DecryptsUnder(h, m) == h.state # "CLOSED" /\ h.token = m.token

\* decryptEnvelopeBody; the number is noted once the body has been opened
OpenBody(e, i, ref) ==
    LET m == sealed[i]
        p == HandleFor(e, m.key)
    IN  /\ Registered(e) /\ m.from = ScPeer(e)
        /\ FreshNumber(e, m) /\ p # 0
        /\ DecryptsUnder(handles[e][p], m) /\ handles[e][p].token = ref
        /\ seen' = [seen EXCEPT ![e] = [k \in DOMAIN @ \cup {m.key} |-> IF k = m.key THEN m.seq ELSE @[k]]]
        /\ opened' = [opened EXCEPT ![e] = Append(@, i)]
        /\ UNCHANGED <<agreed, handles, entry, timers, swapped, sealed>>

-----------------------------------------------------------------------------
ScTick ==
    /\ \A e \in ScEnds : \A a \in timers[e] : a < MaxScTime
    /\ \E e \in ScEnds : timers[e] # {}
    /\ timers' = [e \in ScEnds |-> {a + 1 : a \in timers[e]}]
    /\ swapped' = [e \in ScEnds |-> IF swapped[e] < MaxScTime THEN swapped[e] + 1 ELSE MaxScTime]
    /\ UNCHANGED <<agreed, handles, entry, seen, sealed, opened>>

ScNext ==
    \/ \E t \in ScTokens \cup {NullToken} : Handshake(t)
    \/ \E e \in ScEnds :
          \/ \E r \in 1..Len(agreed) : CreateSession(e, r) \/ FullRekey(e, r)
          \/ ChainRekey(e) \/ CloseSession(e)
          \/ \E a \in timers[e] : ExpireDualKeyWindow(e, a)
          \/ \E t \in ScTokens : Seal(e, t) \/ \E i \in 1..Len(sealed) : OpenBody(e, i, t)
    \/ ScTick

ScSpec == ScInit /\ [][ScNext]_scVars

-----------------------------------------------------------------------------
\* No two bodies are sealed under the same key with the same number (a key's nonces never repeat).
NoncesAreUnique ==
    \A i, j \in 1..Len(sealed) : i # j => AeadNonce(sealed[i]) # AeadNonce(sealed[j])

\* No body is opened twice, and those of one key are opened in the order they were sealed in.
OpenedOnceInOrder ==
    \A e \in ScEnds : \A i, j \in 1..Len(opened[e]) :
        i < j /\ sealed[opened[e][i]].key = sealed[opened[e][j]].key => opened[e][i] < opened[e][j]

\* Keys the registry has let go of are wiped; those it holds are not.
KeysAreWiped ==
    \A e \in ScEnds : \A i \in 1..Len(handles[e]) :
        handles[e][i].zeroized <=> i \notin {entry[e].current, entry[e].previous}

\* A rekeyed session keeps the previous key for the whole window: a timer of an earlier window, of
\* this session or of a closed one under the same id, never cuts it short.
WindowIsWhole ==
    \A e \in ScEnds : Registered(e) /\ Current(e).state = "ACTIVE" /\ Current(e).key.gen > 0
        => swapped[e] >= ScWindow

\* Whatever rekeys, closings, timers and deliveries race at the two ends, sealing is sound:
\* nonces are never reused, replays never opened, dropped keys wiped, dual-key windows whole.
SealingIsSound == ScTypeOK /\ NoncesAreUnique /\ OpenedOnceInOrder /\ KeysAreWiped /\ WindowIsWhole

=============================================================================
