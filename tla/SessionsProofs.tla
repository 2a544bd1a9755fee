--------------------------- MODULE SessionsProofs ---------------------------
(***************************************************************************)
(* Proofs about the two stores of sessions.  A step of either store is     *)
(* first reduced to what it does to each row (RowStep, MemRowsStep) and to *)
(* the calls (CallSteps); the parts of the inductive invariants, and the   *)
(* refinements, follow from those facts.                                   *)
(***************************************************************************)
EXTENDS SessionStore, TLAPS

\* Row locks: who holds one is in a transaction, on a live row, alone.
Locks ==
    \A c \in Clients :
      /\ call[c].holds => InTransaction(c) /\ call[c].sid \in Sessions /\ Live(call[c].sid)
      /\ call[c].pc \in {"resuming", "expiring"} => call[c].holds
      /\ \A d \in Clients \ {c} : call[c].holds /\ call[d].holds => call[c].sid # call[d].sid

\* Open calls name rows that exist, and supersedes new ids that do not, each its own.
Superseding(c) == call[c].pc \in {"superseding", "inserted"}
Named ==
    \A c \in Clients :
      /\ call[c].pc # "idle" => call[c].sid \in Sessions /\ Exists(call[c].sid)
      /\ Superseding(c) =>
           /\ call[c].new \in Sessions /\ ~ Exists(call[c].new)
           /\ call[c].holds \/ rows[call[c].sid].state = "CLOSED"
           /\ \A d \in Clients \ {c} : Superseding(d) => call[c].new # call[d].new

\* An uncommitted insert has its pair for itself, up to the row it closes.
Pending ==
    \A c \in Clients : call[c].pc = "inserted" =>
      /\ \A s \in Sessions : Live(s) /\ PairOf[s] = PairOf[call[c].new] =>
                               call[c].holds /\ call[c].sid = s
      /\ \A d \in Clients \ {c} : call[d].pc = "inserted" => PairOf[call[c].new] # PairOf[call[d].new]

\* A row with the revision of a claim is the row that was claimed, up to its age.
SameButAge(r, q) == r.state = q.state /\ r.supersedes = q.supersedes /\ r.by = q.by
Claims ==
    \A c \in Clients : call[c].pc = "claimed" =>
      /\ call[c].seen.rev =< rows[call[c].sid].rev
      /\ call[c].seen.rev = rows[call[c].sid].rev => SameButAge(rows[call[c].sid], call[c].seen)

Blank == \A s \in Sessions : ~ Exists(s) => rows[s] = NoRow

IInv == TypeOK /\ Locks /\ Named /\ Pending /\ Claims /\ Blank /\ OneLivePerPair /\ SupersedeIsAtomic

-----------------------------------------------------------------------------
(* What a step does to a row and to the calls.                             *)

Kept(s) == rows'[s] = rows[s]
Aged(s) == Live(s) /\ SameButAge(rows'[s], rows[s]) /\ rows'[s].rev = rows[s].rev
\* The states a change of a live row may lead to.
Follows(from, to) == to \in {from, "ACTIVE", "CLOSED"} \/ (from = "ACTIVE" /\ to = "IDLE")
Moved(s) ==
    /\ Live(s) /\ rows'[s].state \in LiveStates \cup {"CLOSED"} /\ Follows(rows[s].state, rows'[s].state)
    /\ rows'[s].rev = rows[s].rev + 1 /\ rows'[s].supersedes = rows[s].supersedes
    /\ rows'[s].state = "CLOSED" <=> rows'[s].by # "none"
    /\ \A d \in Clients : call[d].holds /\ call[d].sid = s => call'[d] = NoCall
Made(s) ==
    /\ ~ Exists(s) /\ rows'[s].state \in {"CREATED", "ACTIVE"}
    /\ rows'[s].rev = 1 /\ rows'[s].by = "none"

RowStep(s) == rows'[s] \in Row /\ (Kept(s) \/ Aged(s) \/ Moved(s) \/ Made(s))
RowSteps == rows' \in [Sessions -> Row] /\ \A s \in Sessions : RowStep(s)

\* A changed row has the type of a row.
LEMMA ChangedType ==
    ASSUME NEW row \in Row, NEW state \in LiveStates \cup {"CLOSED"}, NEW age \in Nat,
           NEW by \in {"none", "close", "revoked", "timeout", "supersede"}
    PROVE  /\ Changed(row, state, age, by) \in Row
           /\ Changed(row, state, age, by).state = state
           /\ Changed(row, state, age, by).rev = row.rev + 1
           /\ Changed(row, state, age, by).by = by
           /\ Changed(row, state, age, by).supersedes = row.supersedes
BY DEF Changed, Row

\* An inserted row has the type of a row.
LEMMA InsertedType ==
    ASSUME NEW state \in {"CREATED", "ACTIVE"}, NEW age \in Nat, NEW old \in Sessions \cup {None}
    PROVE  /\ Inserted(state, age, old) \in Row
           /\ Inserted(state, age, old).state = state
           /\ Inserted(state, age, old).by = "none"
           /\ Inserted(state, age, old).supersedes = old
BY DEF Inserted, Row, LiveStates

\* A call's record has the type of a call.
LEMMA CallingType ==
    ASSUME NEW pc \in {"idle", "touch", "close", "claimed", "authorized", "resuming", "expiring",
                       "superseding", "inserted"},
           NEW sid \in Sessions \cup {None}, NEW new \in Sessions \cup {None},
           NEW as \in {"CREATED", "ACTIVE"}, NEW seen \in Row, NEW holds \in BOOLEAN
    PROVE  /\ Calling(pc, sid, new, as, seen, holds) \in Call
           /\ Calling(pc, sid, new, as, seen, holds).pc = pc
           /\ Calling(pc, sid, new, as, seen, holds).sid = sid
           /\ Calling(pc, sid, new, as, seen, holds).new = new
           /\ Calling(pc, sid, new, as, seen, holds).as = as
           /\ Calling(pc, sid, new, as, seen, holds).seen = seen
           /\ Calling(pc, sid, new, as, seen, holds).holds = holds
BY DEF Calling, Call

\* The idle call holds nothing.
LEMMA NoCallType == NoCall \in Call /\ NoCall.pc = "idle" /\ ~ NoCall.holds /\ NoRow \in Row
<1>1. NoRow \in Row
  BY DEF NoRow, Row
<1> QED
  BY <1>1 DEF NoCall, Calling, Call

\* Changing one live row that no other client has locked is a step of the rows.
LEMMA MoveOne ==
    ASSUME TypeOK, Locks, NEW s \in Sessions, Live(s),
           NEW state \in LiveStates \cup {"CLOSED"}, Follows(rows[s].state, state), NEW age \in Nat,
           NEW by \in {"none", "close", "revoked", "timeout", "supersede"},
           state = "CLOSED" <=> by # "none",
           rows' = [rows EXCEPT ![s] = Changed(rows[s], state, age, by)],
           \A d \in Clients : call[d].holds /\ call[d].sid = s => call'[d] = NoCall
    PROVE  RowSteps
<1>1. rows[s] \in Row
  BY DEF TypeOK
<1>2. rows'[s] = Changed(rows[s], state, age, by)
  BY DEF TypeOK
<1>3. rows' \in [Sessions -> Row]
  <2>1. Changed(rows[s], state, age, by) \in Row
    BY <1>1, ChangedType
  <2> QED
    BY <2>1 DEF TypeOK
<1>4. Moved(s)
  <2>1. /\ rows'[s].state = state /\ rows'[s].by = by
        /\ rows'[s].rev = rows[s].rev + 1 /\ rows'[s].supersedes = rows[s].supersedes
    BY <1>2 DEF Changed
  <2> QED
    BY <2>1 DEF Moved
<1>5. \A r \in Sessions \ {s} : Kept(r)
  BY DEF TypeOK, Kept
<1> QED
  BY <1>3, <1>4, <1>5 DEF RowSteps, RowStep

\* Leaving the rows alone is a step of the rows.
LEMMA KeepAll == TypeOK /\ rows' = rows => RowSteps
BY DEF RowSteps, RowStep, Kept, TypeOK

\* What an idle client holds, and what it means to hold nothing.
LEMMA IdleHoldsNothing ==
    ASSUME Locks, NEW c \in Clients, ~ InTransaction(c)
    PROVE  ~ call[c].holds
BY DEF Locks

\* An insert, with or without closing a row, is a step of the rows.
LEMMA RowStepCreate ==
    ASSUME IInv, NEW c \in Clients, NEW s \in Sessions, NEW state \in {"CREATED", "ACTIVE"},
           Create(c, s, state)
    PROVE  RowSteps
<1>1. 0 \in Nat /\ None \in Sessions \cup {None} /\ Inserted(state, 0, None) \in Row
  BY InsertedType
<1>2. rows' \in [Sessions -> Row] /\ rows'[s] = Inserted(state, 0, None)
  BY <1>1 DEF Create, IInv, TypeOK
<1>3. Made(s)
  BY <1>2 DEF Made, Create, IdFree, Inserted, LiveStates
<1>4. \A r \in Sessions \ {s} : Kept(r)
  BY DEF Create, IInv, TypeOK, Kept
<1> QED
  BY <1>2, <1>3, <1>4 DEF RowSteps, RowStep

\* The calls of one statement change live rows that nobody else has locked.
LEMMA RowStepStatement ==
    ASSUME IInv, NEW c \in Clients, NEW s \in Sessions,
           Activate(c, s) \/ TouchGet(c, s) \/ CloseGet(c, s) \/ ClaimForDispatch(c, s)
    PROVE  RowSteps
<1> USE DEF IInv
<1>1. CASE Activate(c, s)
  <2>1. ~ call[c].holds
    BY <1>1, IdleHoldsNothing DEF Activate, Begin, InTransaction
  <2>2. Live(s) /\ "ACTIVE" \in LiveStates \cup {"CLOSED"} /\ rows[s].age \in Nat
    BY <1>1 DEF Activate, Live, LiveStates, TypeOK, Row
  <2>3. rows' = [rows EXCEPT ![s] = Changed(rows[s], "ACTIVE", rows[s].age, "none")]
    BY <1>1 DEF Activate
  <2>4. \A d \in Clients : ~ (call[d].holds /\ call[d].sid = s)
    BY <1>1, <2>1 DEF Activate, Unlocked
  <2> QED
    BY <2>2, <2>3, <2>4, MoveOne DEF Follows
<1>2. CASE ClaimForDispatch(c, s)
  <2>1. ~ call[c].holds
    BY <1>2, IdleHoldsNothing DEF ClaimForDispatch, Begin, InTransaction
  <2>2. Live(s) /\ "ACTIVE" \in LiveStates \cup {"CLOSED"} /\ rows[s].age \in Nat
    BY <1>2 DEF ClaimForDispatch, Live, LiveStates, TypeOK, Row
  <2>3. rows' = [rows EXCEPT ![s] = Changed(rows[s], "ACTIVE", rows[s].age, "none")]
    BY <1>2 DEF ClaimForDispatch
  <2>4. \A d \in Clients : ~ (call[d].holds /\ call[d].sid = s)
    BY <1>2, <2>1 DEF ClaimForDispatch, Unlocked
  <2> QED
    BY <2>2, <2>3, <2>4, MoveOne DEF Follows
<1>3. CASE TouchGet(c, s) \/ CloseGet(c, s)
  BY <1>3, KeepAll DEF TouchGet, CloseGet
<1> QED
  BY <1>1, <1>2, <1>3

\* The revocation calls close live rows that nobody else has locked.
LEMMA RowStepCloseAll ==
    ASSUME IInv, NEW c \in Clients, NEW S \in SUBSET Sessions, CloseAll(c, S)
    PROVE  RowSteps
<1> USE DEF IInv
<1>1. ~ call[c].holds
  BY IdleHoldsNothing DEF CloseAll, Begin, InTransaction
<1>2. \A s \in Sessions : rows[s] \in Row
  BY DEF TypeOK
<1>3. \A s \in Sessions : Changed(rows[s], "CLOSED", 0, "revoked") \in Row
  BY <1>2, ChangedType
<1>4. rows' \in [Sessions -> Row]
  BY <1>2, <1>3 DEF CloseAll
<1>5. ASSUME NEW s \in Sessions PROVE Kept(s) \/ Moved(s)
  <2>1. CASE s \in S /\ Live(s)
    <3>1. rows'[s] = Changed(rows[s], "CLOSED", 0, "revoked")
      BY <2>1 DEF CloseAll
    <3>2. \A d \in Clients : ~ (call[d].holds /\ call[d].sid = s)
      BY <2>1, <1>1 DEF CloseAll, Unlocked
    <3> QED
      BY <2>1, <3>1, <3>2 DEF Moved, Changed, Follows
  <2>2. CASE ~ (s \in S /\ Live(s))
    BY <2>2 DEF CloseAll, Kept
  <2> QED
    BY <2>1, <2>2
<1> QED
  BY <1>4, <1>5 DEF RowSteps, RowStep

\* The second statements of touch, close and dispatch, which hold no lock themselves.
LEMMA RowStepUpdate ==
    ASSUME IInv, NEW c \in Clients,
           TouchUpdate(c) \/ CloseUpdate(c) \/ MarkAuthorized(c) \/ EndDispatch(c)
    PROVE  RowSteps
<1> USE DEF IInv
<1>1. CASE EndDispatch(c)
  BY <1>1, KeepAll DEF EndDispatch
<1>2. CASE TouchUpdate(c) \/ CloseUpdate(c) \/ MarkAuthorized(c)
  <2> DEFINE s == call[c].sid
  <2>1. ~ call[c].holds
    BY <1>2, IdleHoldsNothing DEF TouchUpdate, CloseUpdate, MarkAuthorized, InTransaction
  <2>2. s \in Sessions /\ Exists(s)
    BY <1>2 DEF TouchUpdate, CloseUpdate, MarkAuthorized, Named
  <2>3. \A d \in Clients : ~ (call[d].holds /\ call[d].sid = s)
    BY <1>2, <2>1 DEF TouchUpdate, CloseUpdate, MarkAuthorized, Unlocked
  <2>4. /\ rows[s].age \in Nat /\ rows[s].state \in LiveStates \cup {"none", "CLOSED"}
        /\ rows[s].by \in {"none", "close", "revoked", "timeout", "supersede"}
        /\ (rows[s].state = "CLOSED" <=> rows[s].by # "none")
    BY <2>2 DEF TypeOK, Row, ClosedHasReason
  <2> HIDE DEF s
  <2>5. CASE TouchUpdate(c)
    <3>1. CASE Updatable(s)
      <4>1. Live(s)
        BY <3>1, <2>2, <2>4 DEF Updatable, Live, Exists
      <4>2. rows' = [rows EXCEPT ![s] = Changed(rows[s], rows[s].state, rows[s].age, rows[s].by)]
        BY <2>5, <3>1 DEF TouchUpdate, s
      <4>3. rows[s].state \in LiveStates \cup {"CLOSED"}
        BY <4>1 DEF Live
      <4> QED
        BY <2>2, <2>3, <2>4, <4>1, <4>2, <4>3, MoveOne DEF Follows
    <3>2. CASE ~ Updatable(s)
      <4>1. rows' = rows
        BY <2>5, <3>2 DEF TouchUpdate, s, TypeOK
      <4> QED
        BY <4>1, KeepAll
    <3> QED
      BY <3>1, <3>2
  <2>6. CASE CloseUpdate(c)
    <3>1. CASE rows[s].state \in {"CREATED", "ACTIVE"}
      <4>1. Live(s)
        BY <3>1 DEF Live, LiveStates
      <4>2. rows' = [rows EXCEPT ![s] = Changed(rows[s], "CLOSED", 0, "close")]
        BY <2>6, <3>1 DEF CloseUpdate, s
      <4> QED
        BY <2>2, <2>3, <4>1, <4>2, MoveOne DEF Follows
    <3>2. CASE rows[s].state \notin {"CREATED", "ACTIVE"}
      <4>1. rows' = rows
        BY <2>6, <3>2 DEF CloseUpdate, s, TypeOK
      <4> QED
        BY <4>1, KeepAll
    <3> QED
      BY <3>1, <3>2
  <2>7. CASE MarkAuthorized(c)
    <3>1. rows[s].state = "ACTIVE"
      BY <2>7 DEF MarkAuthorized, Fence, s
    <3>2. Live(s) /\ "ACTIVE" \in LiveStates \cup {"CLOSED"}
      BY <3>1 DEF Live, LiveStates
    <3>3. rows' = [rows EXCEPT ![s] = Changed(rows[s], "ACTIVE", 0, "none")]
      BY <2>7 DEF MarkAuthorized, s
    <3> QED
      BY <2>2, <2>3, <3>2, <3>3, MoveOne DEF Follows
  <2> QED
    BY <1>2, <2>5, <2>6, <2>7
<1> QED
  BY <1>1, <1>2

\* The statements of the transactions change the row they hold.
LEMMA RowStepTransaction ==
    ASSUME IInv, NEW c \in Clients, Transaction(c) \/ Rollback(c)
    PROVE  RowSteps
<1> USE DEF IInv
<1> DEFINE s == call[c].sid
<1>1. call[c] \in Call /\ call[c].since \in Nat /\ call[c].as \in {"CREATED", "ACTIVE"}
  BY DEF TypeOK, Call
<1>2. CASE SupersedeInsert(c) \/ SupersedeConflict(c) \/ Rollback(c)
  BY <1>2, KeepAll DEF SupersedeInsert, SupersedeConflict, Rollback
<1>3. ASSUME InTransaction(c), call[c].holds
      PROVE  s \in Sessions /\ Live(s) /\ \A d \in Clients \ {c} : ~ (call[d].holds /\ call[d].sid = s)
  BY <1>3 DEF Locks
<1> HIDE DEF s
<1>4. CASE ResumeUpdate(c)
  <2>1. InTransaction(c) /\ call[c].holds
    BY <1>4 DEF ResumeUpdate, InTransaction, Locks
  <2>2. rows' = [rows EXCEPT ![s] = Changed(rows[s], "ACTIVE", call[c].since, "none")]
    BY <1>4 DEF ResumeUpdate, s
  <2>3. call'[c] = NoCall
    BY <1>4 DEF ResumeUpdate, TypeOK
  <2>4. "ACTIVE" \in LiveStates \cup {"CLOSED"}
    BY DEF LiveStates
  <2> QED
    BY <1>1, <1>3, <2>1, <2>2, <2>3, <2>4, MoveOne DEF Follows
<1>5. CASE ResumeExpire(c)
  <2>1. InTransaction(c) /\ call[c].holds
    BY <1>5 DEF ResumeExpire, InTransaction, Locks
  <2>2. rows' = [rows EXCEPT ![s] = Changed(rows[s], "CLOSED", 0, "timeout")]
    BY <1>5 DEF ResumeExpire, s
  <2>3. call'[c] = NoCall
    BY <1>5 DEF ResumeExpire, TypeOK
  <2> QED
    BY <1>3, <2>1, <2>2, <2>3, MoveOne DEF Follows
<1>6. CASE SupersedeCommit(c)
  <2> DEFINE new == call[c].new
             row == Inserted(call[c].as, call[c].since, s)
             old == IF call[c].holds THEN Changed(rows[s], "CLOSED", 0, "supersede") ELSE rows[s]
  <2>1. InTransaction(c) /\ Superseding(c)
    BY <1>6 DEF SupersedeCommit, InTransaction, Superseding
  <2>2. s \in Sessions /\ new \in Sessions /\ Exists(s) /\ ~ Exists(new) /\ s # new
    BY <2>1 DEF Named, InTransaction, s, Exists
  <2>3. rows' = [rows EXCEPT ![s] = old, ![new] = row]
    BY <1>6 DEF SupersedeCommit, s
  <2>4. rows[s] \in Row /\ old \in Row /\ row \in Row
    BY <1>1, <2>2, ChangedType, InsertedType DEF TypeOK
  <2>5. call'[c] = NoCall
    BY <1>6 DEF SupersedeCommit, TypeOK
  <2>6. Made(new)
    <3>1. rows'[new] = row
      BY <2>2, <2>3 DEF TypeOK
    <3> QED
      BY <1>1, <2>2, <3>1 DEF Made, Inserted, LiveStates
  <2>7. Kept(s) \/ Moved(s)
    <3>1. rows'[s] = old
      BY <2>2, <2>3 DEF TypeOK
    <3>2. CASE call[c].holds
      BY <1>3, <2>1, <2>5, <3>1, <3>2 DEF Moved, Changed, Follows
    <3>3. CASE ~ call[c].holds
      BY <3>1, <3>3 DEF Kept
    <3> QED
      BY <3>2, <3>3
  <2>8. \A r \in Sessions \ {s, new} : Kept(r)
    BY <2>3 DEF TypeOK, Kept
  <2>9. rows' \in [Sessions -> Row]
    BY <2>3, <2>4 DEF TypeOK
  <2> QED
    BY <2>6, <2>7, <2>8, <2>9 DEF RowSteps, RowStep
<1> QED
  BY <1>2, <1>4, <1>5, <1>6 DEF Transaction

\* Time ages live rows; the sweep changes live rows that nobody has locked.
LEMMA RowStepTime ==
    ASSUME IInv, Tick \/ CleanExpired
    PROVE  RowSteps
<1> USE DEF IInv
<1>1. \A s \in Sessions : rows[s] \in Row
  BY DEF TypeOK
<1>2. CASE Tick
  <2>1. ASSUME NEW s \in Sessions PROVE rows'[s] \in Row /\ (Kept(s) \/ Aged(s))
    <3>1. CASE Ageing(s)
      <4>1. rows'[s] = [rows[s] EXCEPT !.age = rows[s].age + 1]
        BY <1>2, <3>1 DEF Tick
      <4> QED
        <5>1. rows'[s] \in Row
          BY <1>1, <4>1 DEF Row
        <5>2. SameButAge(rows'[s], rows[s]) /\ rows'[s].rev = rows[s].rev
          BY <1>1, <4>1 DEF SameButAge, Row
        <5> QED
          BY <3>1, <5>1, <5>2 DEF Aged, Ageing
    <3>2. CASE ~ Ageing(s)
      BY <1>1, <1>2, <3>2 DEF Tick, Kept
    <3> QED
      BY <3>1, <3>2
  <2>2. rows' \in [Sessions -> Row]
    <3>1. rows' = [s \in Sessions |-> rows'[s]]
      BY <1>2 DEF Tick
    <3> QED
      BY <2>1, <3>1
  <2> QED
    BY <2>1, <2>2 DEF RowSteps, RowStep
<1>3. CASE CleanExpired
  <2>1. ASSUME NEW s \in Sessions PROVE rows'[s] \in Row /\ (Kept(s) \/ Moved(s))
    <3>1. rows'[s] = Swept(s)
      BY <1>3 DEF CleanExpired
    <3>2. CASE rows'[s] = rows[s]
      BY <1>1, <3>2 DEF Kept
    <3>3. CASE rows'[s] # rows[s]
      <4>1. \A d \in Clients : ~ (call[d].holds /\ call[d].sid = s)
        BY <1>3, <3>1, <3>3 DEF CleanExpired
      <4>2. /\ Live(s)
            /\ \/ rows'[s] = Changed(rows[s], "CLOSED", 0, "timeout")
               \/ rows[s].state = "ACTIVE" /\ rows'[s] = Changed(rows[s], "IDLE", 0, "none")
        BY <3>1, <3>3 DEF Swept, Live, LiveStates
      <4>3. rows'[s] \in Row
        <5>1. /\ Changed(rows[s], "CLOSED", 0, "timeout") \in Row
              /\ Changed(rows[s], "IDLE", 0, "none") \in Row
          BY <1>1 DEF Changed, Row, LiveStates
        <5> QED
          BY <4>2, <5>1
      <4>4. Moved(s)
        BY <4>1, <4>2 DEF Moved, Changed, LiveStates, Follows
      <4> QED
        BY <4>3, <4>4
    <3> QED
      BY <3>2, <3>3
  <2>2. rows' \in [Sessions -> Row]
    <3>1. rows' = [s \in Sessions |-> rows'[s]]
      BY <1>3 DEF CleanExpired
    <3> QED
      BY <2>1, <3>1
  <2> QED
    BY <2>1, <2>2 DEF RowSteps, RowStep
<1> QED
  BY <1>2, <1>3

\* Every step of the store is one of these for every row.
LEMMA RowStepNext ==
    ASSUME IInv, [Next]_vars
    PROVE  RowSteps
<1> USE DEF IInv
<1>1. ASSUME NEW c \in Clients, NEW s \in Sessions, CloseByToken(c, TokenOf[s]) \/ CloseByPrincipal(c, PrincipalOf[s])
      PROVE  RowSteps
  BY <1>1, RowStepCloseAll DEF CloseByToken, CloseByPrincipal
<1>2. ASSUME NEW c \in Clients, NEW s \in Sessions, NEW new \in Sessions, NEW state \in {"CREATED", "ACTIVE"},
             ResumeSelect(c, s) \/ SupersedeUpdate(c, s, new, state)
      PROVE  RowSteps
  BY <1>2, KeepAll DEF ResumeSelect, SupersedeUpdate
<1>3. CASE UNCHANGED vars
  BY <1>3, KeepAll DEF vars
<1> QED
  BY <1>1, <1>2, <1>3, RowStepCreate, RowStepStatement, RowStepUpdate, RowStepTransaction, RowStepTime
     DEF Next

-----------------------------------------------------------------------------
(* What a step does to the calls.                                          *)

Same(c) == call'[c] = call[c]
Later(c) ==
    /\ call'[c].pc = call[c].pc /\ call'[c].sid = call[c].sid /\ call'[c].new = call[c].new
    /\ call'[c].holds = call[c].holds /\ call'[c].seen = call[c].seen
Ended(c) == call'[c] = NoCall
Opened(c) ==
    \E s \in Sessions :
      Exists(s) /\ call'[c].pc \in {"touch", "close"} /\ call'[c].sid = s /\ ~ call'[c].holds
Claimed(c) ==
    \E s \in Sessions :
      /\ Exists(s) /\ call'[c].pc = "claimed" /\ call'[c].sid = s
      /\ call'[c].seen = rows'[s] /\ ~ call'[c].holds
Resumed(c) ==
    \E s \in Sessions :
      /\ rows' = rows /\ Live(s) /\ Unlocked(c, s)
      /\ call'[c].pc \in {"resuming", "expiring"} /\ call'[c].sid = s /\ call'[c].holds
Supersedes(c) ==
    \E s, new \in Sessions :
      /\ rows' = rows /\ Exists(s) /\ IdFree(c, new) /\ Unlocked(c, s)
      /\ call'[c].pc = "superseding" /\ call'[c].sid = s /\ call'[c].new = new
      /\ call'[c].holds = Live(s)
Inserts(c) ==
    /\ rows' = rows /\ call[c].pc = "superseding"
    /\ ~ PairUndecided(c, PairOf[call[c].new]) /\ PairFree(c, PairOf[call[c].new])
    /\ call'[c].pc = "inserted" /\ call'[c].sid = call[c].sid /\ call'[c].new = call[c].new
    /\ call'[c].holds = call[c].holds
Authorizes(c) ==
    /\ call[c].pc = "claimed" /\ Fence(c)
    /\ call'[c].pc = "authorized" /\ call'[c].sid = call[c].sid /\ call'[c].holds = call[c].holds

OneCall(c) ==
    \/ Ended(c) \/ Opened(c) \/ Claimed(c) \/ Resumed(c) \/ Supersedes(c) \/ Inserts(c)
    \/ Authorizes(c)
CallSteps ==
    /\ call' \in [Clients -> Call]
    /\ \/ \A d \in Clients : Same(d) \/ Later(d)
       \/ \E c \in Clients : OneCall(c) /\ \A d \in Clients \ {c} : Same(d)

\* Giving one client a call and leaving the others alone.
LEMMA SetCall ==
    ASSUME TypeOK, NEW c \in Clients, NEW k \in Call, call' = [call EXCEPT ![c] = k]
    PROVE  /\ call' \in [Clients -> Call]
           /\ call'[c] = k
           /\ \A d \in Clients \ {c} : Same(d)
BY DEF TypeOK, Same

\* The calls that end.
LEMMA CallStepEnds ==
    ASSUME IInv, NEW c \in Clients, call' = [call EXCEPT ![c] = NoCall]
    PROVE  CallSteps
BY SetCall, NoCallType DEF IInv, CallSteps, OneCall, Ended

\* The calls that begin.
LEMMA CallStepBegins ==
    ASSUME IInv, NEW c \in Clients, NEW s \in Sessions,
           \/ TouchGet(c, s) \/ CloseGet(c, s) \/ ClaimForDispatch(c, s) \/ ResumeSelect(c, s)
           \/ \E new \in Sessions, state \in {"CREATED", "ACTIVE"} : SupersedeUpdate(c, s, new, state)
    PROVE  CallSteps
<1> USE DEF IInv
<1>1. NoRow \in Row /\ rows[s] \in Row
  BY NoCallType DEF TypeOK
<1>2. CASE TouchGet(c, s) \/ CloseGet(c, s)
  <2>1. PICK pc \in {"touch", "close"} :
          call' = [call EXCEPT ![c] = Calling(pc, s, None, "CREATED", NoRow, FALSE)]
    BY <1>2 DEF TouchGet, CloseGet
  <2>2. /\ Calling(pc, s, None, "CREATED", NoRow, FALSE) \in Call
        /\ Calling(pc, s, None, "CREATED", NoRow, FALSE).pc = pc
        /\ Calling(pc, s, None, "CREATED", NoRow, FALSE).sid = s
        /\ ~ Calling(pc, s, None, "CREATED", NoRow, FALSE).holds
    BY <1>1 DEF Calling, Call
  <2>3. Exists(s)
    BY <1>2 DEF TouchGet, CloseGet, Exists, Live, LiveStates
  <2> QED
    BY <2>1, <2>2, <2>3, SetCall DEF CallSteps, OneCall, Opened
<1>3. CASE ClaimForDispatch(c, s)
  <2>1. rows'[s] = Changed(rows[s], "ACTIVE", rows[s].age, "none")
    BY <1>3 DEF ClaimForDispatch, TypeOK
  <2>2. rows'[s] \in Row
    BY <1>1, <2>1 DEF Changed, Row, LiveStates
  <2>3. call' = [call EXCEPT ![c] = Calling("claimed", s, None, "CREATED", rows'[s], FALSE)]
    BY <1>3, <2>1 DEF ClaimForDispatch
  <2>4. PICK r \in Row : r = rows'[s]
    BY <2>2
  <2>5. /\ Calling("claimed", s, None, "CREATED", r, FALSE) \in Call
        /\ Calling("claimed", s, None, "CREATED", r, FALSE).pc = "claimed"
        /\ Calling("claimed", s, None, "CREATED", r, FALSE).sid = s
        /\ Calling("claimed", s, None, "CREATED", r, FALSE).seen = r
        /\ ~ Calling("claimed", s, None, "CREATED", r, FALSE).holds
    BY DEF Calling, Call
  <2>6. call' = [call EXCEPT ![c] = Calling("claimed", s, None, "CREATED", r, FALSE)]
    BY <2>3, <2>4
  <2>7. Exists(s)
    BY <1>3 DEF ClaimForDispatch, Exists
  <2>8. /\ call' \in [Clients -> Call] /\ \A d \in Clients \ {c} : Same(d)
        /\ call'[c] = Calling("claimed", s, None, "CREATED", r, FALSE)
    BY <2>5, <2>6, SetCall
  <2>9. Claimed(c)
    BY <2>4, <2>5, <2>7, <2>8 DEF Claimed
  <2> QED
    BY <2>8, <2>9 DEF CallSteps, OneCall
<1>4. CASE ResumeSelect(c, s)
  <2>1. PICK pc \in {"resuming", "expiring"} :
          call' = [call EXCEPT ![c] = Calling(pc, s, None, "CREATED", NoRow, TRUE)]
    BY <1>4 DEF ResumeSelect
  <2>2. /\ Calling(pc, s, None, "CREATED", NoRow, TRUE) \in Call
        /\ Calling(pc, s, None, "CREATED", NoRow, TRUE).pc = pc
        /\ Calling(pc, s, None, "CREATED", NoRow, TRUE).sid = s
        /\ Calling(pc, s, None, "CREATED", NoRow, TRUE).holds
    BY <1>1 DEF Calling, Call
  <2>3. Live(s) /\ Unlocked(c, s) /\ rows' = rows
    BY <1>4 DEF ResumeSelect, Live, LiveStates
  <2> QED
    BY <2>1, <2>2, <2>3, SetCall DEF CallSteps, OneCall, Resumed
<1>5. CASE \E new \in Sessions, state \in {"CREATED", "ACTIVE"} : SupersedeUpdate(c, s, new, state)
  <2>1. PICK new \in Sessions, state \in {"CREATED", "ACTIVE"} : SupersedeUpdate(c, s, new, state)
    BY <1>5
  <2>2. PICK k : k = Calling("superseding", s, new, state, NoRow, Live(s))
    OBVIOUS
  <2>3. k \in Call /\ k.pc = "superseding" /\ k.sid = s /\ k.new = new /\ k.holds = Live(s)
    BY <1>1, <2>2 DEF Calling, Call, Live
  <2>4. call' = [call EXCEPT ![c] = k]
    BY <2>1, <2>2 DEF SupersedeUpdate
  <2>5. call' \in [Clients -> Call] /\ call'[c] = k /\ \A d \in Clients \ {c} : Same(d)
    BY <2>3, <2>4, SetCall
  <2>6. Supersedes(c)
    BY <2>1, <2>3, <2>5 DEF Supersedes, SupersedeUpdate
  <2> QED
    BY <2>5, <2>6 DEF CallSteps, OneCall
<1> QED
  BY <1>2, <1>3, <1>4, <1>5

\* The calls that go on.
LEMMA CallStepContinues ==
    ASSUME IInv, NEW c \in Clients, SupersedeInsert(c) \/ MarkAuthorized(c)
    PROVE  CallSteps
<1> USE DEF IInv
<1>1. call[c] \in Call
  BY DEF TypeOK
<1>2. PICK pc \in {"inserted", "authorized"} : call' = [call EXCEPT ![c] = [call[c] EXCEPT !.pc = pc]]
  BY DEF SupersedeInsert, MarkAuthorized
<1>3. PICK k : k = [call[c] EXCEPT !.pc = pc]
  OBVIOUS
<1>4. k \in Call /\ k.pc = pc /\ k.sid = call[c].sid /\ k.new = call[c].new /\ k.holds = call[c].holds
  BY <1>1, <1>3 DEF Call
<1>5. call' \in [Clients -> Call] /\ call'[c] = k /\ \A d \in Clients \ {c} : Same(d)
  BY <1>2, <1>3, <1>4, SetCall
<1>6. CASE SupersedeInsert(c)
  <2>1. call'[c].pc = "inserted"
    BY <1>1, <1>6 DEF SupersedeInsert, Call, TypeOK
  <2>2. Inserts(c)
    BY <1>4, <1>5, <1>6, <2>1 DEF Inserts, SupersedeInsert
  <2> QED
    BY <1>5, <2>2 DEF CallSteps, OneCall
<1>7. CASE MarkAuthorized(c)
  <2>1. call'[c].pc = "authorized"
    BY <1>1, <1>7 DEF MarkAuthorized, Call, TypeOK
  <2>2. Authorizes(c)
    BY <1>4, <1>5, <1>7, <2>1 DEF Authorizes, MarkAuthorized
  <2> QED
    BY <1>5, <2>2 DEF CallSteps, OneCall
<1> QED
  BY <1>6, <1>7

\* Time passes for the transactions only.
LEMMA CallStepTick ==
    ASSUME IInv, Tick
    PROVE  CallSteps
<1>1. ASSUME NEW c \in Clients PROVE call'[c] \in Call /\ (Same(c) \/ Later(c))
  <2>1. call[c] \in Call
    BY DEF IInv, TypeOK
  <2>2. CASE Waiting(c)
    <3>1. call'[c] = [call[c] EXCEPT !.since = call[c].since + 1]
      BY <2>2 DEF Tick
    <3>2. call'[c] \in Call
      BY <2>1, <3>1 DEF Call
    <3>3. Later(c)
      BY <2>1, <3>1 DEF Call, Later
    <3> QED
      BY <3>2, <3>3
  <2>3. CASE ~ Waiting(c)
    BY <2>1, <2>3 DEF Tick, Same
  <2> QED
    BY <2>2, <2>3
<1>2. call' = [c \in Clients |-> call'[c]]
  BY DEF Tick
<1>3. call' \in [Clients -> Call]
  BY <1>1, <1>2
<1> QED
  BY <1>1, <1>3 DEF CallSteps

\* Every step of the store is one of these.
LEMMA CallStepNext ==
    ASSUME IInv, [Next]_vars
    PROVE  CallSteps
<1>1. ASSUME call' = call PROVE CallSteps
  BY <1>1 DEF CallSteps, Same, IInv, TypeOK
<1>2. CASE UNCHANGED vars \/ CleanExpired
  BY <1>1, <1>2 DEF vars, CleanExpired
<1>3. ASSUME NEW c \in Clients, NEW s \in Sessions,
             \/ \E state \in {"CREATED", "ACTIVE"} : Create(c, s, state)
             \/ Activate(c, s) \/ CloseByToken(c, TokenOf[s]) \/ CloseByPrincipal(c, PrincipalOf[s])
      PROVE  CallSteps
  BY <1>1, <1>3 DEF Create, Activate, CloseByToken, CloseByPrincipal, CloseAll
<1>4. ASSUME NEW c \in Clients,
             \/ TouchUpdate(c) \/ CloseUpdate(c) \/ EndDispatch(c) \/ Rollback(c)
             \/ ResumeUpdate(c) \/ ResumeExpire(c) \/ SupersedeConflict(c) \/ SupersedeCommit(c)
      PROVE  CallSteps
  BY <1>4, CallStepEnds DEF TouchUpdate, CloseUpdate, EndDispatch, Rollback, ResumeUpdate,
                            ResumeExpire, SupersedeConflict, SupersedeCommit
<1> QED
  BY <1>2, <1>3, <1>4, CallStepBegins, CallStepContinues, CallStepTick DEF Next, Transaction

-----------------------------------------------------------------------------
(* Which rows a step makes.                                                *)

NoneMade ==
    \A s \in Sessions : /\ ~ Exists(s) => rows'[s] = rows[s]
                        /\ rows'[s].by = "supersede" => rows[s].by = "supersede"
CreatedOne ==
    \E c \in Clients, s \in Sessions :
      /\ call[c].pc = "idle" /\ call' = call
      /\ IdFree(c, s) /\ ~ PairUndecided(c, PairOf[s]) /\ PairFree(c, PairOf[s])
      /\ rows'[s].supersedes = None /\ rows'[s].by = "none"
      /\ \A r \in Sessions \ {s} : rows'[r] = rows[r]
SupersededOne ==
    \E c \in Clients :
      /\ call[c].pc = "inserted" /\ call'[c] = NoCall /\ \A d \in Clients \ {c} : Same(d)
      /\ rows'[call[c].new].supersedes = call[c].sid /\ rows'[call[c].new].by = "none"
      /\ rows'[call[c].sid].state = "CLOSED"
      /\ rows'[call[c].sid].supersedes = rows[call[c].sid].supersedes
      /\ \A r \in Sessions \ {call[c].sid, call[c].new} : rows'[r] = rows[r]

\* A commit of a supersede closes the old row and makes the new one.
LEMMA CommitMakes ==
    ASSUME IInv, NEW c \in Clients, SupersedeCommit(c)
    PROVE  SupersededOne
<1> USE DEF IInv
<1> DEFINE s == call[c].sid
           new == call[c].new
<1>1. call[c].pc = "inserted" /\ Superseding(c) /\ call[c].as \in {"CREATED", "ACTIVE"}
  BY DEF SupersedeCommit, Superseding, TypeOK, Call
<1>2. s \in Sessions /\ new \in Sessions /\ s # new
  BY <1>1 DEF Named, Exists
<1>3. /\ rows'[s] = IF call[c].holds THEN Changed(rows[s], "CLOSED", 0, "supersede") ELSE rows[s]
      /\ rows'[new] = Inserted(call[c].as, call[c].since, s)
      /\ \A r \in Sessions \ {s, new} : rows'[r] = rows[r]
  BY <1>2 DEF SupersedeCommit, TypeOK
<1>4. call'[c] = NoCall /\ \A d \in Clients \ {c} : Same(d)
  BY DEF SupersedeCommit, TypeOK, Same
<1>5. rows'[s].state = "CLOSED" /\ rows'[s].supersedes = rows[s].supersedes
  BY <1>1, <1>3 DEF Changed, Named
<1>6. rows'[new].supersedes = s /\ rows'[new].by = "none"
  BY <1>3 DEF Inserted
<1> QED
  BY <1>1, <1>3, <1>4, <1>5, <1>6 DEF SupersededOne

\* Only create and supersedeAndCreate make rows, and only the latter closes as superseded.
LEMMA MakeNext ==
    ASSUME IInv, [Next]_vars
    PROVE  NoneMade \/ CreatedOne \/ SupersededOne
<1> USE DEF IInv
<1>0. rows \in [Sessions -> Row]
  BY DEF TypeOK
<1>1. ASSUME rows' = rows PROVE NoneMade
  BY <1>1 DEF NoneMade
<1>2. ASSUME NEW s \in Sessions, Exists(s),
             rows'[s].by # "supersede" \/ rows'[s].by = rows[s].by,
             \A r \in Sessions \ {s} : rows'[r] = rows[r]
      PROVE  NoneMade
  BY <1>2 DEF NoneMade
<1>3. ASSUME NEW c \in Clients, NEW s \in Sessions, NEW state \in {"CREATED", "ACTIVE"}, Create(c, s, state)
      PROVE  CreatedOne
  <2>1. rows'[s] = Inserted(state, 0, None) /\ \A r \in Sessions \ {s} : rows'[r] = rows[r]
    BY <1>0, <1>3 DEF Create
  <2> QED
    BY <1>3, <2>1 DEF CreatedOne, Create, Begin, Inserted
<1>4. ASSUME NEW c \in Clients, NEW s \in Sessions, Activate(c, s) \/ ClaimForDispatch(c, s)
      PROVE  NoneMade
  <2>1. Exists(s) /\ rows' = [rows EXCEPT ![s] = Changed(rows[s], "ACTIVE", rows[s].age, "none")]
    BY <1>4 DEF Activate, ClaimForDispatch, Exists
  <2>2. rows'[s].by = "none" /\ \A r \in Sessions \ {s} : rows'[r] = rows[r]
    BY <1>0, <2>1 DEF Changed
  <2> QED
    BY <1>2, <2>1, <2>2
<1>5. ASSUME NEW c \in Clients, NEW S \in SUBSET Sessions, CloseAll(c, S)
      PROVE  NoneMade
  BY <1>5 DEF CloseAll, NoneMade, Changed, Live, Exists, LiveStates
<1>6. ASSUME NEW c \in Clients, TouchUpdate(c) \/ CloseUpdate(c) \/ MarkAuthorized(c)
      PROVE  NoneMade
  <2>1. call[c].sid \in Sessions /\ Exists(call[c].sid)
    BY <1>6 DEF TouchUpdate, CloseUpdate, MarkAuthorized, Named
  <2>2. PICK s \in Sessions : s = call[c].sid
    BY <2>1
  <2>3. \/ rows' = rows
        \/ rows' = [rows EXCEPT ![s] = Changed(rows[s], rows[s].state, rows[s].age, rows[s].by)]
        \/ rows' = [rows EXCEPT ![s] = Changed(rows[s], "CLOSED", 0, "close")]
        \/ rows' = [rows EXCEPT ![s] = Changed(rows[s], "ACTIVE", 0, "none")]
    BY <1>0, <1>6, <2>2 DEF TouchUpdate, CloseUpdate, MarkAuthorized
  <2>4. /\ rows'[s].by # "supersede" \/ rows'[s].by = rows[s].by
        /\ \A r \in Sessions \ {s} : rows'[r] = rows[r]
    BY <1>0, <2>3 DEF Changed
  <2> QED
    BY <1>2, <2>1, <2>2, <2>4
<1>7. ASSUME NEW c \in Clients, ResumeUpdate(c) \/ ResumeExpire(c)
      PROVE  NoneMade
  <2>1. call[c].sid \in Sessions /\ Exists(call[c].sid)
    BY <1>7 DEF ResumeUpdate, ResumeExpire, Named
  <2>2. PICK s \in Sessions : s = call[c].sid
    BY <2>1
  <2>3. \/ rows' = [rows EXCEPT ![s] = Changed(rows[s], "ACTIVE", call[c].since, "none")]
        \/ rows' = [rows EXCEPT ![s] = Changed(rows[s], "CLOSED", 0, "timeout")]
    BY <1>7, <2>2 DEF ResumeUpdate, ResumeExpire
  <2>4. rows'[s].by # "supersede" /\ \A r \in Sessions \ {s} : rows'[r] = rows[r]
    BY <1>0, <2>3 DEF Changed
  <2> QED
    BY <1>2, <2>1, <2>2, <2>4
<1>8. CASE Tick
  <2>1. ASSUME NEW s \in Sessions, Ageing(s) PROVE Exists(s) /\ rows'[s].by = rows[s].by
    <3>1. rows'[s] = [rows[s] EXCEPT !.age = rows[s].age + 1]
      BY <1>8, <2>1 DEF Tick
    <3>2. rows[s] \in Row
      BY <1>0
    <3> QED
      BY <2>1, <3>1, <3>2 DEF Row, Ageing, Live, LiveStates, Exists
  <2>2. ASSUME NEW s \in Sessions, ~ Ageing(s) PROVE rows'[s] = rows[s]
    BY <1>8, <2>2 DEF Tick
  <2> QED
    BY <2>1, <2>2 DEF NoneMade
<1>9. CASE CleanExpired
  BY <1>9 DEF CleanExpired, Swept, NoneMade, Exists, Changed
<1>10. ASSUME NEW c \in Clients,
              EndDispatch(c) \/ SupersedeInsert(c) \/ SupersedeConflict(c) \/ Rollback(c)
       PROVE  NoneMade
  BY <1>1, <1>10 DEF EndDispatch, SupersedeInsert, SupersedeConflict, Rollback
<1>11. ASSUME NEW c \in Clients, NEW s \in Sessions,
              \/ TouchGet(c, s) \/ CloseGet(c, s) \/ ResumeSelect(c, s)
              \/ \E new \in Sessions, state \in {"CREATED", "ACTIVE"} : SupersedeUpdate(c, s, new, state)
       PROVE  NoneMade
  BY <1>1, <1>11 DEF TouchGet, CloseGet, ResumeSelect, SupersedeUpdate
<1>12. ASSUME NEW c \in Clients, NEW s \in Sessions,
              CloseByToken(c, TokenOf[s]) \/ CloseByPrincipal(c, PrincipalOf[s])
       PROVE  NoneMade
  BY <1>5, <1>12 DEF CloseByToken, CloseByPrincipal
<1>13. CASE UNCHANGED vars
  BY <1>1, <1>13 DEF vars
<1> QED
  BY <1>3, <1>4, <1>6, <1>7, <1>8, <1>9, <1>10, <1>11, <1>12, <1>13, CommitMakes
     DEF Next, Transaction

-----------------------------------------------------------------------------
(* The parts of the invariant.                                             *)

\* A row never stops to exist, and a closed one stays.
LEMMA RowsStay ==
    ASSUME TypeOK, RowSteps, NEW s \in Sessions
    PROVE  /\ Exists(s) => Exists(s)'
           /\ rows[s].state = "CLOSED" => rows'[s] = rows[s]
           /\ Live(s)' => Live(s) \/ ~ Exists(s)
BY DEF RowSteps, RowStep, Kept, Aged, Moved, Made, SameButAge, Exists, Live, LiveStates, TypeOK, Row

\* A held row stays live while it is held.
LEMMA HeldStaysLive ==
    ASSUME IInv, RowSteps, NEW d \in Clients, call[d].holds, call'[d].holds
    PROVE  rows'[call[d].sid].state \in LiveStates
<1>1. call[d].sid \in Sessions /\ Live(call[d].sid)
  BY DEF IInv, Locks
<1>2. ~ Moved(call[d].sid)
  BY <1>1, NoCallType DEF Moved
<1>3. Kept(call[d].sid) \/ Aged(call[d].sid)
  BY <1>1, <1>2 DEF RowSteps, RowStep, Made, Exists, Live, LiveStates
<1> QED
  BY <1>1, <1>3 DEF Kept, Aged, SameButAge, Live

\* Locks is kept.
LEMMA LocksStep ==
    ASSUME IInv, RowSteps, CallSteps
    PROVE  Locks'
<1> USE DEF IInv
<1>1. CASE \A d \in Clients : Same(d) \/ Later(d)
  <2>1. \A d \in Clients : /\ call'[d].pc = call[d].pc /\ call'[d].sid = call[d].sid
                           /\ call'[d].holds = call[d].holds
    BY <1>1 DEF Same, Later
  <2> QED
    BY <2>1, HeldStaysLive DEF Locks, InTransaction, Live
<1>2. ASSUME NEW c \in Clients, OneCall(c), \A d \in Clients \ {c} : Same(d)
      PROVE  Locks'
  <2>1. \A d \in Clients \ {c} : call'[d] = call[d]
    BY <1>2 DEF Same
  <2>2. \A d \in Clients \ {c} : call[d].holds => rows'[call[d].sid].state \in LiveStates
    BY <2>1, HeldStaysLive
  <2>3. CASE ~ call'[c].holds /\ call'[c].pc \notin {"resuming", "expiring"}
    BY <2>1, <2>2, <2>3 DEF Locks, InTransaction, Live
  <2>4. CASE Resumed(c)
    <3>1. PICK s \in Sessions :
            /\ rows' = rows /\ Live(s) /\ Unlocked(c, s)
            /\ call'[c].pc \in {"resuming", "expiring"} /\ call'[c].sid = s /\ call'[c].holds
      BY <2>4 DEF Resumed
    <3> QED
      BY <2>1, <2>2, <3>1 DEF Locks, InTransaction, Unlocked, Live
  <2>5. CASE Supersedes(c)
    <3>1. PICK s \in Sessions :
            /\ rows' = rows /\ Unlocked(c, s)
            /\ call'[c].pc = "superseding" /\ call'[c].sid = s /\ call'[c].holds = Live(s)
      BY <2>5 DEF Supersedes
    <3>2. CASE ~ Live(s)
      BY <2>3, <3>1, <3>2
    <3>3. CASE Live(s)
      <4>1. call'[c].holds /\ rows'[s].state \in LiveStates
        BY <3>1, <3>3 DEF Live
      <4> QED
        BY <2>1, <2>2, <3>1, <4>1 DEF Locks, InTransaction, Unlocked, Live
    <3> QED
      BY <3>2, <3>3
  <2>6. CASE Inserts(c)
    BY <2>1, <2>2, <2>6 DEF Inserts, Locks, InTransaction, Live
  <2>7. CASE Ended(c) \/ Opened(c) \/ Claimed(c) \/ Authorizes(c)
    <3>1. ~ call'[c].holds /\ call'[c].pc \notin {"resuming", "expiring"}
      BY <2>7, NoCallType, IdleHoldsNothing
         DEF Ended, Opened, Claimed, Authorizes, InTransaction
    <3> QED
      BY <3>1, <2>3
  <2> QED
    BY <1>2, <2>4, <2>5, <2>6, <2>7 DEF OneCall
<1> QED
  BY <1>1, <1>2 DEF CallSteps

\* An id that a supersede has chosen stays free for it.
LEMMA NewStaysFree ==
    ASSUME IInv, NoneMade \/ CreatedOne \/ SupersededOne,
           NEW d \in Clients, Superseding(d), call'[d].pc # "idle"
    PROVE  rows'[call[d].new] = rows[call[d].new]
<1> USE DEF IInv
<1>1. call[d].new \in Sessions /\ ~ Exists(call[d].new)
  BY DEF Named
<1>2. CASE NoneMade
  BY <1>1, <1>2 DEF NoneMade
<1>3. CASE CreatedOne
  BY <1>1, <1>3 DEF CreatedOne, IdFree, Superseding
<1>4. CASE SupersededOne
  <2>1. PICK c \in Clients :
          /\ call[c].pc = "inserted" /\ call'[c] = NoCall
          /\ \A r \in Sessions \ {call[c].sid, call[c].new} : rows'[r] = rows[r]
    BY <1>4 DEF SupersededOne
  <2>2. c # d /\ Superseding(c)
    BY <2>1, NoCallType DEF Superseding
  <2>3. call[c].new # call[d].new /\ Exists(call[c].sid)
    BY <2>1, <2>2 DEF Named
  <2> QED
    BY <1>1, <2>1, <2>3
<1> QED
  BY <1>2, <1>3, <1>4

\* Named is kept.
LEMMA NamedStep ==
    ASSUME IInv, RowSteps, CallSteps, NoneMade \/ CreatedOne \/ SupersededOne
    PROVE  Named'
<1> USE DEF IInv
<1>1. \A s \in Sessions : /\ rows[s].state # "none" => rows'[s].state # "none"
                          /\ rows[s].state = "CLOSED" => rows'[s].state = "CLOSED"
  BY RowsStay DEF Exists
<1>2. ASSUME NEW d \in Clients, Same(d) \/ Later(d)
      PROVE  /\ call'[d].pc = call[d].pc /\ call'[d].sid = call[d].sid /\ call'[d].new = call[d].new
             /\ call'[d].holds = call[d].holds
             /\ call'[d].pc # "idle" => call'[d].sid \in Sessions /\ rows'[call'[d].sid].state # "none"
             /\ call'[d].pc \in {"superseding", "inserted"} =>
                  /\ call'[d].new \in Sessions /\ rows'[call'[d].new].state = "none"
                  /\ call'[d].holds \/ rows'[call'[d].sid].state = "CLOSED"
  <2>1. /\ call'[d].pc = call[d].pc /\ call'[d].sid = call[d].sid /\ call'[d].new = call[d].new
        /\ call'[d].holds = call[d].holds
    BY <1>2 DEF Same, Later
  <2>2. call[d].pc # "idle" => call[d].sid \in Sessions /\ rows'[call[d].sid].state # "none"
    BY <1>1 DEF Named, Exists
  <2>3. CASE Superseding(d)
    <3>1. call[d].new \in Sessions /\ rows'[call[d].new].state = "none"
      BY <2>1, <2>3, NewStaysFree DEF Named, Exists, Superseding
    <3>2. call[d].holds \/ rows'[call[d].sid].state = "CLOSED"
      BY <1>1, <2>3 DEF Named, Superseding
    <3> QED
      BY <2>1, <2>2, <3>1, <3>2
  <2>4. CASE ~ Superseding(d)
    BY <2>1, <2>2, <2>4 DEF Superseding
  <2> QED
    BY <2>3, <2>4
<1>3. CASE \A d \in Clients : Same(d) \/ Later(d)
  BY <1>2, <1>3 DEF Named, Superseding, Exists
<1>4. ASSUME NEW c \in Clients, OneCall(c), \A d \in Clients \ {c} : Same(d)
      PROVE  Named'
  <2>1. CASE /\ call'[c].pc \notin {"superseding", "inserted"}
             /\ call'[c].pc # "idle" => call'[c].sid \in Sessions /\ rows'[call'[c].sid].state # "none"
    BY <1>2, <1>4, <2>1 DEF Named, Superseding, Exists
  <2>2. CASE Ended(c)
    BY <2>1, <2>2, NoCallType DEF Ended
  <2>3. CASE Opened(c) \/ Claimed(c) \/ Resumed(c)
    BY <1>1, <2>1, <2>3 DEF Opened, Claimed, Resumed, Exists, Live, LiveStates
  <2>4. CASE Authorizes(c)
    <3>1. call[c].sid \in Sessions /\ Exists(call[c].sid)
      BY <2>4 DEF Authorizes, Named
    <3> QED
      BY <1>1, <2>1, <2>4, <3>1 DEF Authorizes, Exists
  <2>5. CASE Supersedes(c)
    <3>1. PICK s \in Sessions, new \in Sessions :
            /\ rows' = rows /\ Exists(s) /\ IdFree(c, new)
            /\ call'[c].pc = "superseding" /\ call'[c].sid = s /\ call'[c].new = new
            /\ call'[c].holds = Live(s)
      BY <2>5 DEF Supersedes
    <3>2. call'[c].holds \/ rows'[s].state = "CLOSED"
      BY <3>1 DEF Live, Exists, TypeOK, Row
    <3>3. /\ rows'[new].state = "none" /\ rows'[s].state # "none"
          /\ \A d \in Clients \ {c} : call[d].pc \in {"superseding", "inserted"} => call[d].new # new
      BY <3>1 DEF IdFree, Exists
    <3> QED
      BY <1>2, <1>4, <3>1, <3>2, <3>3 DEF Named, Superseding, Exists
  <2>6. CASE Inserts(c)
    <3>1. Superseding(c)
      BY <2>6 DEF Inserts, Superseding
    <3>2. /\ call[c].sid \in Sessions /\ rows'[call[c].sid].state # "none"
          /\ call[c].new \in Sessions /\ rows'[call[c].new].state = "none"
          /\ call[c].holds \/ rows'[call[c].sid].state = "CLOSED"
          /\ \A d \in Clients \ {c} : Superseding(d) => call[c].new # call[d].new
      BY <2>6, <3>1 DEF Inserts, Named, Exists, Superseding
    <3> QED
      BY <1>2, <1>4, <2>6, <3>2 DEF Inserts, Named, Superseding, Exists
  <2> QED
    BY <1>4, <2>2, <2>3, <2>4, <2>5, <2>6 DEF OneCall
<1> QED
  BY <1>3, <1>4 DEF CallSteps

\* A row that becomes live is not of the pair of an insert that stays uncommitted.
LEMMA PairStays ==
    ASSUME IInv, RowSteps, NoneMade \/ CreatedOne \/ SupersededOne,
           NEW d \in Clients, call[d].pc = "inserted", call'[d].pc = "inserted",
           NEW s \in Sessions, rows'[s].state \in LiveStates, PairOf[s] = PairOf[call[d].new]
    PROVE  Live(s)
<1> USE DEF IInv
<1>1. Live(s) \/ ~ Exists(s)
  BY RowsStay DEF Live
<1>2. CASE NoneMade
  BY <1>1, <1>2 DEF NoneMade, Live
<1>3. CASE CreatedOne
  <2>1. PICK c \in Clients, r \in Sessions :
          /\ call[c].pc = "idle" /\ ~ PairUndecided(c, PairOf[r])
          /\ \A q \in Sessions \ {r} : rows'[q] = rows[q]
    BY <1>3 DEF CreatedOne
  <2>2. PairOf[call[d].new] # PairOf[r]
    BY <2>1 DEF PairUndecided
  <2> QED
    BY <2>1, <2>2 DEF Live
<1>4. CASE SupersededOne
  <2>1. PICK c \in Clients :
          /\ call[c].pc = "inserted" /\ call'[c] = NoCall
          /\ rows'[call[c].sid].state = "CLOSED"
          /\ \A r \in Sessions \ {call[c].sid, call[c].new} : rows'[r] = rows[r]
    BY <1>4 DEF SupersededOne
  <2>2. c # d
    BY <2>1, NoCallType
  <2>3. PairOf[call[c].new] # PairOf[call[d].new]
    BY <2>1, <2>2 DEF Pending
  <2>4. s # call[c].sid
    BY <2>1 DEF LiveStates
  <2> QED
    BY <2>1, <2>3, <2>4 DEF Live
<1> QED
  BY <1>2, <1>3, <1>4

\* Pending is kept.
LEMMA PendingStep ==
    ASSUME IInv, RowSteps, CallSteps, NoneMade \/ CreatedOne \/ SupersededOne
    PROVE  Pending'
<1> USE DEF IInv
<1>1. ASSUME NEW d \in Clients, Same(d) \/ Later(d)
      PROVE  /\ call'[d].pc = call[d].pc /\ call'[d].new = call[d].new
             /\ call'[d].pc = "inserted" =>
                  \A s \in Sessions : rows'[s].state \in LiveStates /\ PairOf[s] = PairOf[call'[d].new] =>
                                        call'[d].holds /\ call'[d].sid = s
  <2>1. /\ call'[d].pc = call[d].pc /\ call'[d].sid = call[d].sid /\ call'[d].new = call[d].new
        /\ call'[d].holds = call[d].holds
    BY <1>1 DEF Same, Later
  <2>2. CASE call[d].pc = "inserted"
    BY <2>1, <2>2, PairStays DEF Pending
  <2> QED
    BY <2>1, <2>2
<1>2. CASE \A d \in Clients : Same(d) \/ Later(d)
  BY <1>1, <1>2 DEF Pending, Live
<1>3. ASSUME NEW c \in Clients, OneCall(c), \A d \in Clients \ {c} : Same(d)
      PROVE  Pending'
  <2>1. CASE call'[c].pc # "inserted"
    BY <1>1, <1>3, <2>1 DEF Pending, Live
  <2>2. CASE Inserts(c)
    <3>1. /\ rows' = rows /\ call[c].pc = "superseding" /\ call'[c].pc = "inserted"
          /\ call'[c].sid = call[c].sid /\ call'[c].new = call[c].new /\ call'[c].holds = call[c].holds
      BY <2>2 DEF Inserts
    <3>2. \A s \in Sessions : rows'[s].state \in LiveStates /\ PairOf[s] = PairOf[call'[c].new] =>
                                call'[c].holds /\ call'[c].sid = s
      BY <2>2, <3>1 DEF Inserts, PairFree, Live
    <3>3. \A d \in Clients \ {c} : call[d].pc = "inserted" => PairOf[call[c].new] # PairOf[call[d].new]
      BY <2>2 DEF Inserts, PairUndecided
    <3> QED
      BY <1>1, <1>3, <3>1, <3>2, <3>3 DEF Pending, Live
  <2>3. CASE \/ Ended(c) \/ Opened(c) \/ Claimed(c) \/ Resumed(c) \/ Supersedes(c) \/ Authorizes(c)
    <3>1. call'[c].pc # "inserted"
      BY <2>3, NoCallType DEF Ended, Opened, Claimed, Resumed, Supersedes, Authorizes
    <3> QED
      BY <3>1, <2>1
  <2> QED
    BY <1>3, <2>2, <2>3 DEF OneCall
<1> QED
  BY <1>2, <1>3 DEF CallSteps

\* Claims is kept.
LEMMA ClaimsStep ==
    ASSUME IInv, RowSteps, CallSteps
    PROVE  Claims'
<1> USE DEF IInv
<1>1. ASSUME NEW d \in Clients, call[d].pc = "claimed", call'[d].pc = "claimed",
             call'[d].sid = call[d].sid, call'[d].seen = call[d].seen
      PROVE  /\ call'[d].seen.rev =< rows'[call'[d].sid].rev
             /\ call'[d].seen.rev = rows'[call'[d].sid].rev =>
                  SameButAge(rows'[call'[d].sid], call'[d].seen)
  <2>1. PICK s \in Sessions : s = call[d].sid /\ Exists(s)
    BY <1>1 DEF Named
  <2>2. PICK q \in Row : q = call[d].seen
    BY DEF TypeOK, Call
  <2>3. /\ rows[s].rev \in Nat /\ q.rev \in Nat /\ q.rev =< rows[s].rev
        /\ q.rev = rows[s].rev => SameButAge(rows[s], q)
    BY <1>1, <2>1, <2>2 DEF Claims, TypeOK, Row
  <2>4. /\ q.rev =< rows'[s].rev
        /\ q.rev = rows'[s].rev => SameButAge(rows'[s], q)
    BY <2>1, <2>3 DEF RowSteps, RowStep, Kept, Aged, Moved, Made, SameButAge
  <2> QED
    BY <1>1, <2>1, <2>2, <2>4
<1>2. ASSUME NEW d \in Clients, Same(d) \/ Later(d), call'[d].pc = "claimed"
      PROVE  /\ call'[d].seen.rev =< rows'[call'[d].sid].rev
             /\ call'[d].seen.rev = rows'[call'[d].sid].rev =>
                  SameButAge(rows'[call'[d].sid], call'[d].seen)
  BY <1>1, <1>2 DEF Same, Later
<1>3. CASE \A d \in Clients : Same(d) \/ Later(d)
  BY <1>2, <1>3 DEF Claims, SameButAge
<1>4. ASSUME NEW c \in Clients, OneCall(c), \A d \in Clients \ {c} : Same(d)
      PROVE  Claims'
  <2>1. CASE Claimed(c)
    <3>1. PICK s \in Sessions : call'[c].pc = "claimed" /\ call'[c].sid = s /\ call'[c].seen = rows'[s]
      BY <2>1 DEF Claimed
    <3>2. rows'[s].rev \in Nat
      BY DEF RowSteps, Row
    <3> QED
      BY <1>2, <1>4, <3>1, <3>2 DEF Claims, SameButAge
  <2>2. CASE \/ Ended(c) \/ Opened(c) \/ Resumed(c) \/ Supersedes(c) \/ Inserts(c) \/ Authorizes(c)
    <3>1. call'[c].pc # "claimed"
      BY <2>2, NoCallType DEF Ended, Opened, Resumed, Supersedes, Inserts, Authorizes
    <3> QED
      BY <1>2, <1>4, <3>1 DEF Claims, SameButAge
  <2> QED
    BY <1>4, <2>1, <2>2 DEF OneCall
<1> QED
  BY <1>3, <1>4 DEF CallSteps

\* No step makes a second live row of a pair.
LEMMA OneLiveStep ==
    ASSUME IInv, RowSteps, NoneMade \/ CreatedOne \/ SupersededOne
    PROVE  OneLivePerPair'
<1> USE DEF IInv
<1>1. \A s \in Sessions : rows'[s].state \in LiveStates => Live(s) \/ ~ Exists(s)
  BY RowsStay DEF Live
<1>2. CASE NoneMade
  <2>1. \A s \in Sessions : rows'[s].state \in LiveStates => Live(s)
    BY <1>1, <1>2 DEF NoneMade, Live
  <2> QED
    BY <2>1 DEF OneLivePerPair, Live
<1>3. CASE CreatedOne
  <2>1. PICK c \in Clients, r \in Sessions :
          /\ call[c].pc = "idle" /\ PairFree(c, PairOf[r])
          /\ \A q \in Sessions \ {r} : rows'[q] = rows[q]
    BY <1>3 DEF CreatedOne
  <2>2. \A q \in Sessions : Live(q) => PairOf[q] # PairOf[r]
    BY <2>1 DEF PairFree
  <2> QED
    BY <2>1, <2>2 DEF OneLivePerPair, Live
<1>4. CASE SupersededOne
  <2>1. PICK c \in Clients :
          /\ call[c].pc = "inserted" /\ rows'[call[c].sid].state = "CLOSED"
          /\ \A r \in Sessions \ {call[c].sid, call[c].new} : rows'[r] = rows[r]
    BY <1>4 DEF SupersededOne
  <2>2. \A q \in Sessions : Live(q) /\ PairOf[q] = PairOf[call[c].new] => q = call[c].sid
    BY <2>1 DEF Pending
  <2>3. \A q \in Sessions \ {call[c].new} :
          rows'[q].state \in LiveStates => Live(q) /\ PairOf[q] # PairOf[call[c].new]
    BY <2>1, <2>2 DEF Live, LiveStates
  <2> QED
    BY <2>3 DEF OneLivePerPair, Live
<1> QED
  BY <1>2, <1>3, <1>4

\* No step supersedes by halves.
LEMMA AtomicStep ==
    ASSUME IInv, RowSteps, NoneMade \/ CreatedOne \/ SupersededOne
    PROVE  SupersedeIsAtomic'
<1> USE DEF IInv
<1>1. \A s \in Sessions : /\ rows[s].state = "CLOSED" => rows'[s].state = "CLOSED"
                          /\ Exists(s) => rows'[s].supersedes = rows[s].supersedes
  BY RowsStay DEF RowSteps, RowStep, Kept, Aged, Moved, Made, SameButAge
<1>2. \A s \in Sessions : rows[s].supersedes \in Sessions \cup {None}
  BY DEF TypeOK, Row
<1>3. \A s \in Sessions : ~ Exists(s) => rows[s].supersedes = None /\ rows[s].by = "none"
  BY DEF Blank, NoRow
<1>4. None \notin Sessions
  BY StoreAssumption
<1>5. CASE NoneMade
  <2>1. \A s \in Sessions : rows'[s].supersedes = rows[s].supersedes
    BY <1>1, <1>5 DEF NoneMade
  <2>2. \A s \in Sessions : rows'[s].by = "supersede" => rows[s].by = "supersede"
    BY <1>5 DEF NoneMade
  <2> QED
    BY <1>1, <1>2, <2>1, <2>2 DEF SupersedeIsAtomic
<1>6. CASE CreatedOne
  <2>1. PICK r \in Sessions :
          /\ ~ Exists(r) /\ rows'[r].supersedes = None /\ rows'[r].by = "none"
          /\ \A q \in Sessions \ {r} : rows'[q] = rows[q]
    BY <1>6 DEF CreatedOne, IdFree
  <2>2. \A s \in Sessions : rows'[s].supersedes = rows[s].supersedes /\ rows'[s].by = rows[s].by
    BY <1>3, <2>1
  <2> QED
    BY <1>1, <1>2, <2>2 DEF SupersedeIsAtomic
<1>7. CASE SupersededOne
  <2>1. PICK c \in Clients :
          /\ call[c].pc = "inserted"
          /\ rows'[call[c].new].supersedes = call[c].sid /\ rows'[call[c].new].by = "none"
          /\ rows'[call[c].sid].state = "CLOSED"
          /\ rows'[call[c].sid].supersedes = rows[call[c].sid].supersedes
          /\ \A r \in Sessions \ {call[c].sid, call[c].new} : rows'[r] = rows[r]
    BY <1>7 DEF SupersededOne
  <2>2. /\ call[c].sid \in Sessions /\ call[c].new \in Sessions /\ ~ Exists(call[c].new)
        /\ Exists(call[c].sid)
    BY <2>1 DEF Named, Superseding
  <2>3. PICK old \in Sessions, new \in Sessions : old = call[c].sid /\ new = call[c].new
    BY <2>2
  <2>4. /\ rows'[new].supersedes = old /\ rows'[new].by = "none" /\ rows'[old].state = "CLOSED"
        /\ \A r \in Sessions \ {new} : rows'[r].supersedes = rows[r].supersedes
        /\ \A r \in Sessions \ {old, new} : rows'[r] = rows[r]
        /\ rows[new].supersedes = None
    BY <1>3, <2>1, <2>2, <2>3
  <2>5. ASSUME NEW s \in Sessions, rows'[s].supersedes # None
        PROVE  rows'[rows'[s].supersedes].state = "CLOSED"
    <3>1. CASE s = new
      BY <2>4, <3>1
    <3>2. CASE s # new
      BY <1>1, <1>2, <2>4, <2>5, <3>2 DEF SupersedeIsAtomic
    <3> QED
      BY <3>1, <3>2
  <2>6. ASSUME NEW s \in Sessions, rows'[s].by = "supersede"
        PROVE  \E q \in Sessions : rows'[q].supersedes = s
    <3>1. CASE s = old
      BY <2>4, <3>1
    <3>2. CASE s # old
      <4>1. rows[s].by = "supersede"
        BY <2>4, <2>6, <3>2
      <4>2. PICK q \in Sessions : rows[q].supersedes = s
        BY <4>1 DEF SupersedeIsAtomic
      <4>3. q # new
        BY <1>4, <2>4, <4>2
      <4> QED
        BY <2>4, <4>2, <4>3
    <3> QED
      BY <3>1, <3>2
  <2> QED
    BY <2>5, <2>6 DEF SupersedeIsAtomic
<1> QED
  BY <1>5, <1>6, <1>7

\* The types and the CHECK constraint are kept.
LEMMA TypeStep ==
    ASSUME IInv, [Next]_vars, RowSteps, CallSteps
    PROVE  TypeOK' /\ Blank'
<1> USE DEF IInv
<1>1. calls' \in Nat
  <2>0. calls \in Nat
    BY DEF TypeOK
  <2>1. ASSUME NEW c \in Clients, Begin(c) PROVE calls' \in Nat
    BY <2>0, <2>1 DEF Begin
  <2>2. ASSUME NEW c \in Clients, NEW s \in Sessions,
               \/ \E state \in {"CREATED", "ACTIVE"} : Create(c, s, state)
               \/ Activate(c, s) \/ TouchGet(c, s) \/ CloseGet(c, s) \/ ClaimForDispatch(c, s)
               \/ CloseByToken(c, TokenOf[s]) \/ CloseByPrincipal(c, PrincipalOf[s])
               \/ ResumeSelect(c, s)
               \/ \E new \in Sessions, state \in {"CREATED", "ACTIVE"} : SupersedeUpdate(c, s, new, state)
        PROVE  Begin(c)
    BY <2>2 DEF Create, Activate, TouchGet, CloseGet, ClaimForDispatch, CloseByToken, CloseByPrincipal,
                CloseAll, ResumeSelect, SupersedeUpdate
  <2>3. ASSUME NEW c \in Clients,
               \/ TouchUpdate(c) \/ CloseUpdate(c) \/ MarkAuthorized(c) \/ EndDispatch(c)
               \/ Transaction(c) \/ Rollback(c)
        PROVE  calls' = calls
    BY <2>3 DEF TouchUpdate, CloseUpdate, MarkAuthorized, EndDispatch, Transaction, ResumeUpdate,
                ResumeExpire, SupersedeInsert, SupersedeConflict, SupersedeCommit, Rollback
  <2>4. CASE Tick \/ CleanExpired \/ UNCHANGED vars
    BY <2>0, <2>4 DEF Tick, CleanExpired, vars
  <2> QED
    BY <2>0, <2>1, <2>2, <2>3, <2>4 DEF Next
<1>2. rows' \in [Sessions -> Row] /\ call' \in [Clients -> Call]
  BY DEF RowSteps, CallSteps
<1>3. ClosedHasReason'
  <2> SUFFICES ASSUME NEW s \in Sessions PROVE rows'[s].state = "CLOSED" <=> rows'[s].by # "none"
    BY DEF ClosedHasReason
  <2>1. rows[s].state = "CLOSED" <=> rows[s].by # "none"
    BY DEF TypeOK, ClosedHasReason
  <2>2. CASE Kept(s) \/ Aged(s)
    BY <2>1, <2>2 DEF Kept, Aged, SameButAge
  <2>3. CASE Moved(s)
    BY <2>3 DEF Moved
  <2>4. CASE Made(s)
    BY <2>4 DEF Made, LiveStates
  <2> QED
    BY <2>2, <2>3, <2>4 DEF RowSteps, RowStep
<1>4. Blank'
  BY DEF RowSteps, RowStep, Kept, Aged, Moved, Made, SameButAge, Blank, Exists, LiveStates, Live
<1> QED
  BY <1>1, <1>2, <1>3, <1>4 DEF TypeOK

\* The invariant holds at first.
LEMMA InitInv == Init => IInv
<1> SUFFICES ASSUME Init PROVE IInv
  OBVIOUS
<1>1. \A s \in Sessions : rows[s] = NoRow /\ rows[s].state = "none" /\ rows[s].by = "none" /\ rows[s].supersedes = None
  BY DEF Init, NoRow
<1>2. \A c \in Clients : call[c] = NoCall /\ call[c].pc = "idle" /\ ~ call[c].holds
  BY NoCallType DEF Init
<1>3. TypeOK
  <2>1. rows \in [Sessions -> Row] /\ call \in [Clients -> Call] /\ calls \in Nat
    BY NoCallType DEF Init
  <2> QED
    BY <1>1, <2>1 DEF TypeOK, ClosedHasReason
<1>4. Locks /\ Named /\ Pending /\ Claims
  BY <1>2 DEF Locks, Named, Superseding, Pending, Claims
<1>5. Blank /\ OneLivePerPair /\ SupersedeIsAtomic
  BY <1>1 DEF Blank, OneLivePerPair, Live, LiveStates, SupersedeIsAtomic
<1> QED
  BY <1>3, <1>4, <1>5 DEF IInv

\* Every step keeps the invariant.
LEMMA NextInv == IInv /\ [Next]_vars => IInv'
<1> SUFFICES ASSUME IInv, [Next]_vars PROVE IInv'
  OBVIOUS
<1>1. RowSteps /\ CallSteps /\ (NoneMade \/ CreatedOne \/ SupersededOne)
  BY RowStepNext, CallStepNext, MakeNext
<1>2. Locks' /\ Named'
  BY <1>1, LocksStep, NamedStep
<1>3. Pending' /\ Claims'
  BY <1>1, PendingStep, ClaimsStep
<1>4. OneLivePerPair' /\ SupersedeIsAtomic' /\ TypeOK' /\ Blank'
  BY <1>1, OneLiveStep, AtomicStep, TypeStep
<1> QED
  BY <1>2, <1>3, <1>4 DEF IInv

\* The invariant holds throughout.
LEMMA Inductive == Spec => []IInv
BY InitInv, NextInv, PTL DEF Spec

-----------------------------------------------------------------------------
(* The theorems.                                                           *)

\* The table keeps its CHECK constraints and the calls their types, for any number of
\* sessions and clients.
THEOREM TypeCorrect == Spec => []TypeOK
<1>1. IInv => TypeOK
  BY DEF IInv
<1> QED
  BY <1>1, Inductive, PTL

\* Whatever creates and supersedes race each other, a pair of DIDs has at most one live
\* session (uniq_sessions_live_per_pair with the locks of supersedeAndCreate).
THEOREM LivePairsAreUnique == Spec => []OneLivePerPair
<1>1. IInv => OneLivePerPair
  BY DEF IInv
<1> QED
  BY <1>1, Inductive, PTL

\* supersedeAndCreate is all or nothing: a superseded session is closed, and one closed
\* to be superseded has its successor.
THEOREM SupersedesAreAtomic == Spec => []SupersedeIsAtomic
<1>1. IInv => SupersedeIsAtomic
  BY DEF IInv
<1> QED
  BY <1>1, Inductive, PTL

\* No late touch, resume, close or sweep changes a closed session.
THEOREM ClosedStaysClosed == Spec => ClosedIsFinal
<1>1. IInv /\ [Next]_vars => [\A s \in Sessions : rows[s].state = "CLOSED" => rows'[s] = rows[s]]_vars
  BY RowStepNext, RowsStay DEF IInv
<1> QED
  BY <1>1, Inductive, PTL DEF Spec, ClosedIsFinal

\* The revision fence of markAuthorized: a message is authorized only on the session as it
\* was claimed, whatever happened in between.
THEOREM AuthorizationIsFenced == Spec => AuthorizedAsClaimed
<1> DEFINE Claim == \A c \in Clients : call[c].pc = "claimed" /\ call'[c].pc = "authorized" =>
                      [rows[call[c].sid] EXCEPT !.age = 0] = [call[c].seen EXCEPT !.age = 0]
<1>1. IInv /\ [Next]_vars => Claim
  <2> SUFFICES ASSUME IInv, [Next]_vars, NEW c \in Clients,
                      call[c].pc = "claimed", call'[c].pc = "authorized"
               PROVE  [rows[call[c].sid] EXCEPT !.age = 0] = [call[c].seen EXCEPT !.age = 0]
    OBVIOUS
  <2>1. CallSteps
    BY CallStepNext
  <2>2. ~ Same(c) /\ ~ Later(c)
    BY DEF Same, Later
  <2>3. OneCall(c)
    BY <2>1, <2>2 DEF CallSteps
  <2>4. Fence(c)
    BY <2>3, NoCallType
       DEF OneCall, Ended, Opened, Claimed, Resumed, Supersedes, Inserts, Authorizes
  <2>5. PICK r \in Row, q \in Row : r = rows[call[c].sid] /\ q = call[c].seen
    BY DEF IInv, Named, TypeOK, Call
  <2>6. r.rev = q.rev /\ SameButAge(r, q)
    BY <2>4, <2>5 DEF IInv, Claims, Fence
  <2>7. [r EXCEPT !.age = 0] = [q EXCEPT !.age = 0]
    BY <2>6 DEF Row, SameButAge
  <2> QED
    BY <2>5, <2>7
<1>2. IInv /\ [Next]_vars => [Claim]_vars
  BY <1>1
<1> QED
  BY <1>2, Inductive, PTL DEF Spec, AuthorizedAsClaimed

\* Seen through the refinement mapping, a step of the rows changes a session as the
\* lifecycle allows.
LEMMA ShownStep ==
    ASSUME TypeOK, RowSteps, Blank, NEW s \in Sessions
    PROVE  /\ Shown(rows[s])' \in Lifecycle!LcEntry
           /\ \/ Shown(rows[s])' = Shown(rows[s])
              \/ /\ <<rows[s].state, rows'[s].state>> \in Lifecycle!LcEdges
                 /\ rows'[s].rev = rows[s].rev + 1
              \/ Made(s)
<1>1. rows[s] \in Row /\ rows'[s] \in Row
  BY DEF TypeOK, RowSteps
<1>2. Shown(rows[s])' \in Lifecycle!LcEntry
  BY <1>1 DEF Shown, Row, LiveStates, Lifecycle!LcEntry, Lifecycle!LcLive
<1>3. CASE Kept(s)
  BY <1>2, <1>3 DEF Kept, Shown
<1>4. CASE Aged(s)
  BY <1>2, <1>4 DEF Aged, SameButAge, Shown
<1>5. CASE Moved(s)
  <2>1. <<rows[s].state, rows'[s].state>> \in Lifecycle!LcEdges
    BY <1>5 DEF Moved, Follows, Live, LiveStates, Lifecycle!LcEdges, Lifecycle!LcLive
  <2> QED
    BY <1>2, <1>5, <2>1 DEF Moved
<1> QED
  BY <1>2, <1>3, <1>4, <1>5 DEF RowSteps, RowStep

\* A step of the store is a step of the lifecycle.
LEMMA LifecycleStep == IInv /\ [Next]_vars => Lifecycle!LcNext
<1> SUFFICES ASSUME IInv, [Next]_vars PROVE Lifecycle!LcNext
  OBVIOUS
<1> DEFINE Step(s) == <<rows[s].state, rows'[s].state>> \in Lifecycle!LcEdges /\ rows'[s].rev = rows[s].rev + 1
<1>1. RowSteps /\ (NoneMade \/ CreatedOne \/ SupersededOne)
  BY RowStepNext, MakeNext
<1>2. ASSUME NEW s \in Sessions
      PROVE  /\ ShownRows[s] = Shown(rows[s]) /\ ShownRows'[s] = Shown(rows[s])'
             /\ ShownRows[s].state = rows[s].state /\ ShownRows'[s].state = rows'[s].state
             /\ ShownRows[s].rev = rows[s].rev /\ ShownRows'[s].rev = rows'[s].rev
  BY DEF ShownRows, Shown
<1>3. ASSUME NEW s \in Sessions
      PROVE  Shown(rows[s])' \in Lifecycle!LcEntry /\ (Shown(rows[s])' = Shown(rows[s]) \/ Step(s) \/ Made(s))
  BY <1>1, ShownStep DEF IInv
<1>4. ShownRows' \in [Sessions -> Lifecycle!LcEntry]
  BY <1>3 DEF ShownRows
<1>5. ASSUME NEW s \in Sessions, Step(s) PROVE Lifecycle!LcMoved(s)
  BY <1>2, <1>5 DEF Lifecycle!LcMoved
<1>6. ASSUME NEW s \in Sessions, rows'[s] = rows[s] PROVE Lifecycle!LcSame(s)
  BY <1>2, <1>6 DEF Lifecycle!LcSame, Shown
<1>7. ASSUME NEW s \in Sessions, Shown(rows[s])' = Shown(rows[s]) PROVE Lifecycle!LcSame(s)
  BY <1>2, <1>7 DEF Lifecycle!LcSame
<1>8. ASSUME NEW s \in Sessions, Made(s) PROVE Lifecycle!LcCreated(s)
  BY <1>2, <1>8 DEF Made, Exists, Lifecycle!LcCreated
<1> HIDE DEF Step
<1>9. ASSUME \A s \in Sessions : ~ Made(s) PROVE Lifecycle!LcChange
  BY <1>3, <1>5, <1>7, <1>9 DEF Lifecycle!LcChange
<1>10. CASE NoneMade
  <2>1. \A s \in Sessions : ~ Made(s)
    BY <1>10 DEF NoneMade, Made, Exists
  <2> QED
    BY <1>4, <1>9, <2>1 DEF Lifecycle!LcNext
<1>11. CASE CreatedOne
  <2>1. PICK s \in Sessions : \A r \in Sessions \ {s} : rows'[r] = rows[r]
    BY <1>11 DEF CreatedOne
  <2>2. CASE Made(s)
    <3>1. Lifecycle!LcCreate(s)
      BY <1>6, <1>8, <2>1, <2>2 DEF Lifecycle!LcCreate
    <3> QED
      BY <1>4, <3>1 DEF Lifecycle!LcNext
  <2>3. CASE ~ Made(s)
    <3>1. \A r \in Sessions : ~ Made(r)
      BY <2>1, <2>3 DEF Made, Exists
    <3> QED
      BY <1>4, <1>9, <3>1 DEF Lifecycle!LcNext
  <2> QED
    BY <2>2, <2>3
<1>12. CASE SupersededOne
  <2>1. PICK c \in Clients :
          /\ call[c].pc = "inserted"
          /\ rows'[call[c].sid].state = "CLOSED"
          /\ \A r \in Sessions \ {call[c].sid, call[c].new} : rows'[r] = rows[r]
    BY <1>12 DEF SupersededOne
  <2>2. PICK old \in Sessions, new \in Sessions : old = call[c].sid /\ new = call[c].new
    BY <2>1 DEF IInv, Named, Superseding
  <2>3. ~ Made(old)
    BY <2>1, <2>2 DEF Made
  <2>4. Lifecycle!LcSame(old) \/ (Lifecycle!LcMoved(old) /\ ShownRows'[old].state = "CLOSED")
    BY <1>2, <1>3, <1>5, <1>7, <2>1, <2>2, <2>3
  <2>5. CASE Made(new)
    <3>1. Lifecycle!LcCreate(new)
      BY <1>6, <1>8, <2>1, <2>2, <2>4, <2>5 DEF Lifecycle!LcCreate
    <3> QED
      BY <1>4, <3>1 DEF Lifecycle!LcNext
  <2>6. CASE ~ Made(new)
    <3>1. \A r \in Sessions : ~ Made(r)
      BY <2>1, <2>2, <2>3, <2>6 DEF Made, Exists
    <3> QED
      BY <1>4, <1>9, <3>1 DEF Lifecycle!LcNext
  <2> QED
    BY <2>5, <2>6
<1> QED
  BY <1>1, <1>10, <1>11, <1>12

\* The PostgreSQL store implements the lifecycle its interface promises, for any number of
\* sessions and clients.
THEOREM StoreRefinesLifecycle == Spec => StoreImplementsLifecycle
<1>1. Init => Lifecycle!LcInit
  BY DEF Init, Lifecycle!LcInit, ShownRows, Shown, NoRow
<1>2. IInv /\ [Next]_vars => [Lifecycle!LcNext]_ShownRows
  BY LifecycleStep
<1> QED
  BY <1>1, <1>2, Inductive, PTL DEF Spec, StoreImplementsLifecycle, Lifecycle!LcSpec

(* The table keeps its CHECK constraints and supersedes all or nothing.    *)
THEOREM StoreHolds == Spec => []StoreIsSound
<1>1. TypeOK /\ SupersedeIsAtomic => StoreIsSound
  BY DEF StoreIsSound
<1> QED
  BY <1>1, TypeCorrect, SupersedesAreAtomic, PTL

-----------------------------------------------------------------------------
(* In memory: the same interface over a map.                               *)

MemStates == {"none", "CREATED", "ACTIVE", "IDLE", "CLOSED"}
MemRow == [state : MemStates, rev : Nat, authAge : 0..MemAgeCap, idleAge : 0..MemAgeCap]

\* The map's sessions and the calls under way, which name a session of the map.
MemInv ==
    /\ memCalls \in 0..MaxMemCalls
    /\ memSessions \in [MemSessions -> MemRow]
    /\ memCall \in [MemClients -> [pc : {"idle", "touch", "close", "claimed"},
                                   sid : MemSessions \cup {NoSession}, rev : Nat]]
    /\ \A c \in MemClients : memCall[c].pc # "idle" => memCall[c].sid \in MemSessions

\* What a step does to one session, as the interface allows it: new and old row.
MemKept(r, q) == q.state = r.state /\ q.rev = r.rev
MemMoved(r, q) == <<r.state, q.state>> \in MemLifecycle!LcEdges /\ q.rev = r.rev + 1
MemMade(r, q) == r.state = "none" /\ q.state \in {"CREATED", "ACTIVE"} /\ q.rev = 1

\* What a step does to the map.
MemRowsStep ==
    /\ memSessions' \in [MemSessions -> MemRow]
    /\ \/ \A s \in MemSessions : \/ MemKept(memSessions[s], memSessions'[s])
                                 \/ MemMoved(memSessions[s], memSessions'[s])
       \/ \E s, old \in MemSessions :
             /\ MemMade(memSessions[s], memSessions'[s])
             /\ \A t \in MemSessions \ {s} :
                   \/ MemKept(memSessions[t], memSessions'[t])
                   \/ /\ t = old /\ memSessions'[t].state = "CLOSED"
                      /\ MemMoved(memSessions[t], memSessions'[t])

MemEdge(a, b) == a \in {"CREATED", "ACTIVE", "IDLE"} /\
                 (b = a \/ b = "CLOSED" \/ <<a, b>> \in {<<"CREATED", "ACTIVE">>, <<"ACTIVE", "IDLE">>, <<"IDLE", "ACTIVE">>})

LEMMA MemEdges ==
    ASSUME NEW a, NEW b, MemEdge(a, b)
    PROVE  <<a, b>> \in MemLifecycle!LcEdges
BY Zenon DEF MemEdge, MemLifecycle!LcEdges, MemLifecycle!LcLive

\* One field of a row is replaced.
LEMMA MemPut ==
    ASSUME NEW r \in MemRow
    PROVE  /\ \A v \in MemStates : /\ [r EXCEPT !.state = v] \in MemRow /\ [r EXCEPT !.state = v].state = v
                                    /\ [r EXCEPT !.state = v].rev = r.rev
           /\ \A v \in Nat : /\ [r EXCEPT !.rev = v] \in MemRow /\ [r EXCEPT !.rev = v].rev = v
                              /\ [r EXCEPT !.rev = v].state = r.state
           /\ [r EXCEPT !.authAge = 0] \in MemRow /\ [r EXCEPT !.authAge = 0].rev = r.rev
           /\ [r EXCEPT !.authAge = 0].state = r.state
           /\ [r EXCEPT !.idleAge = 0] \in MemRow /\ [r EXCEPT !.idleAge = 0].rev = r.rev
           /\ [r EXCEPT !.idleAge = 0].state = r.state
BY MemAssumption DEF MemRow, MemAgeCap

\* A patched or closed row is a row whose state moved.
LEMMA MemChangedRow ==
    ASSUME NEW r \in MemRow, NEW st \in MemStates, MemEdge(r.state, st)
    PROVE  /\ MemChanged(r, st) \in MemRow
           /\ MemMoved(r, MemChanged(r, st))
           /\ MemChanged(r, st).state = st
<1>1. <<r.state, st>> \in MemLifecycle!LcEdges
  BY MemEdges
<1>2. /\ MemChanged(r, st) \in MemRow /\ MemChanged(r, st).state = st
      /\ MemChanged(r, st).rev = r.rev + 1
  <2>1. PICK a \in MemRow : a = [r EXCEPT !.state = st] /\ a.state = st /\ a.rev = r.rev
    BY MemPut
  <2>2. PICK n \in Nat : n = r.rev + 1
    BY DEF MemRow
  <2>3. MemChanged(r, st) = [a EXCEPT !.rev = n]
    BY <2>1, <2>2 DEF MemChanged, BumpRevision
  <2>4. /\ [a EXCEPT !.rev = n] \in MemRow /\ [a EXCEPT !.rev = n].rev = n
        /\ [a EXCEPT !.rev = n].state = a.state
    BY MemPut
  <2> QED BY <2>1, <2>2, <2>3, <2>4
<1> QED BY <1>1, <1>2 DEF MemMoved

LEMMA MemClosedRow ==
    ASSUME NEW r \in MemRow, r.state \in {"CREATED", "ACTIVE", "IDLE"}
    PROVE  /\ Closed(r) \in MemRow
           /\ MemMoved(r, Closed(r))
           /\ Closed(r).state = "CLOSED"
<1>1. <<r.state, "CLOSED">> \in MemLifecycle!LcEdges
  BY MemEdges DEF MemEdge
<1>2. /\ Closed(r) \in MemRow /\ Closed(r).state = "CLOSED" /\ Closed(r).rev = r.rev + 1
  <2>1. PICK b \in MemRow : b = MemChanged(r, "CLOSED") /\ b.state = "CLOSED" /\ b.rev = r.rev + 1
    BY MemChangedRow DEF MemEdge, MemStates, MemMoved
  <2>2. Closed(r) = [b EXCEPT !.idleAge = 0]
    BY <2>1 DEF Closed
  <2> QED BY <2>1, <2>2, MemPut
<1> QED BY <1>1, <1>2 DEF MemMoved

\* A step that writes one row.
LEMMA MemSetStep ==
    ASSUME memSessions \in [MemSessions -> MemRow], NEW s \in MemSessions, NEW q \in MemRow,
           MemSet(s, q),
           MemKept(memSessions[s], q) \/ MemMoved(memSessions[s], q) \/ MemMade(memSessions[s], q)
    PROVE  MemRowsStep
<1>1. /\ memSessions' \in [MemSessions -> MemRow] /\ memSessions'[s] = q
      /\ \A t \in MemSessions \ {s} : memSessions'[t] = memSessions[t]
  BY DEF MemSet
<1>2. \A t \in MemSessions \ {s} : MemKept(memSessions[t], memSessions'[t])
  BY <1>1 DEF MemKept
<1> QED BY <1>1, <1>2 DEF MemRowsStep

LEMMA MemSameStep ==
    ASSUME memSessions \in [MemSessions -> MemRow], UNCHANGED memSessions
    PROVE  MemRowsStep
BY DEF MemRowsStep, MemKept

LEMMA MemNewRow ==
    ASSUME NEW st \in {"CREATED", "ACTIVE"}
    PROVE  LET q == [NoSession EXCEPT !.state = st, !.rev = 1]
           IN  q \in MemRow /\ q.state = st /\ q.rev = 1
<1>1. NoSession \in MemRow /\ st \in MemStates
  BY MemAssumption DEF NoSession, MemRow, MemStates, MemAgeCap
<1>2. PICK r \in MemRow : r = NoSession
  BY <1>1
<1>3. PICK a \in MemRow : a = [r EXCEPT !.state = st] /\ a.state = st
  BY <1>1, MemPut
<1>4. [NoSession EXCEPT !.state = st, !.rev = 1] = [a EXCEPT !.rev = 1]
  BY <1>2, <1>3
<1>5. [a EXCEPT !.rev = 1] \in MemRow /\ [a EXCEPT !.rev = 1].rev = 1 /\ [a EXCEPT !.rev = 1].state = a.state
  BY MemPut
<1> QED BY <1>3, <1>4, <1>5

\* A row that was resumed, and one whose message was authorized.
LEMMA MemRefreshedRow ==
    ASSUME NEW r \in MemRow, r.state \in {"IDLE", "ACTIVE"}
    PROVE  LET q == [MemChanged(r, "ACTIVE") EXCEPT !.authAge = 0]
               u == [MemChanged(r, "ACTIVE") EXCEPT !.authAge = 0, !.idleAge = 0]
           IN  q \in MemRow /\ MemMoved(r, q) /\ u \in MemRow /\ MemMoved(r, u)
<1>1. PICK b \in MemRow : /\ b = MemChanged(r, "ACTIVE") /\ b.rev = r.rev + 1
                          /\ <<r.state, b.state>> \in MemLifecycle!LcEdges
  BY MemChangedRow DEF MemEdge, MemStates, MemMoved
<1>2. PICK a \in MemRow : a = [b EXCEPT !.authAge = 0] /\ a.state = b.state /\ a.rev = b.rev
  BY MemPut
<1>3. [MemChanged(r, "ACTIVE") EXCEPT !.authAge = 0] = a
  BY <1>1, <1>2
<1>4. [MemChanged(r, "ACTIVE") EXCEPT !.authAge = 0, !.idleAge = 0] = [a EXCEPT !.idleAge = 0]
  BY <1>1, <1>2
<1> QED BY <1>1, <1>2, <1>3, <1>4, MemPut DEF MemMoved

\* The sweep moves a row along the lifecycle or leaves it.
LEMMA MemSweptRow ==
    ASSUME NEW r \in MemRow
    PROVE  MemSwept(r) \in MemRow /\ (MemKept(r, MemSwept(r)) \/ MemMoved(r, MemSwept(r)))
<1>1. CASE r.state = "CREATED" /\ r.authAge > MemTimeout
  <2>1. MemSwept(r) = MemChanged(r, "CLOSED")
    BY <1>1 DEF MemSwept
  <2> QED BY <1>1, <2>1, MemChangedRow DEF MemEdge, MemStates
<1>2. CASE r.state = "ACTIVE" /\ r.authAge > MemTimeout
  <2> DEFINE q == [MemChanged(r, "IDLE") EXCEPT !.idleAge = 0]
  <2>1. MemSwept(r) = q
    BY <1>2 DEF MemSwept
  <2>2. q \in MemRow /\ q.state = "IDLE" /\ q.rev = r.rev + 1
    <3>1. PICK b \in MemRow : b = MemChanged(r, "IDLE") /\ b.state = "IDLE" /\ b.rev = r.rev + 1
      BY <1>2, MemChangedRow DEF MemEdge, MemStates, MemMoved
    <3> QED BY <3>1, MemPut
  <2>3. <<r.state, "IDLE">> \in MemLifecycle!LcEdges
    BY <1>2, MemEdges DEF MemEdge
  <2> QED BY <2>1, <2>2, <2>3 DEF MemMoved
<1>3. CASE r.state = "IDLE" /\ r.idleAge > MemTimeout
  <2>1. MemSwept(r) = Closed(r)
    BY <1>3 DEF MemSwept
  <2> QED BY <1>3, <2>1, MemClosedRow
<1>4. CASE ~(r.state = "CREATED" /\ r.authAge > MemTimeout) /\ ~(r.state = "ACTIVE" /\ r.authAge > MemTimeout)
           /\ ~(r.state = "IDLE" /\ r.idleAge > MemTimeout)
  <2>1. MemSwept(r) = r
    BY <1>4 DEF MemSwept
  <2> QED BY <2>1 DEF MemKept
<1> QED BY <1>1, <1>2, <1>3, <1>4

\* A call that ends, and one that has read a session.
LEMMA MemCallEnds ==
    ASSUME MemInv, NEW c \in MemClients, memCall' = [memCall EXCEPT ![c] = NoMemCall],
           memSessions' \in [MemSessions -> MemRow], memCalls' \in 0..MaxMemCalls
    PROVE  MemInv'
<1>1. NoMemCall \in [pc : {"idle", "touch", "close", "claimed"}, sid : MemSessions \cup {NoSession}, rev : Nat]
      /\ NoMemCall.pc = "idle"
  BY DEF NoMemCall
<1>2. \A d \in MemClients : memCall'[d] = IF d = c THEN NoMemCall ELSE memCall[d]
  BY DEF MemInv
<1> HIDE DEF NoMemCall
<1> QED BY <1>1, <1>2 DEF MemInv

LEMMA MemCallReads ==
    ASSUME MemInv, NEW c \in MemClients, NEW op \in {"touch", "close", "claimed"}, NEW s \in MemSessions,
           NEW n \in Nat, memCall' = [memCall EXCEPT ![c] = [pc |-> op, sid |-> s, rev |-> n]],
           memSessions' \in [MemSessions -> MemRow], memCalls' \in 0..MaxMemCalls
    PROVE  MemInv'
<1> DEFINE k == [pc |-> op, sid |-> s, rev |-> n]
<1>1. k \in [pc : {"idle", "touch", "close", "claimed"}, sid : MemSessions \cup {NoSession}, rev : Nat]
      /\ k.pc = op /\ k.sid = s
  OBVIOUS
<1>2. \A d \in MemClients : memCall'[d] = IF d = c THEN k ELSE memCall[d]
  BY DEF MemInv
<1>3. memCall' = [memCall EXCEPT ![c] = k]
  OBVIOUS
<1> HIDE DEF k
<1> QED BY <1>1, <1>2, <1>3 DEF MemInv

LEMMA MemCallStays ==
    ASSUME MemInv, UNCHANGED memCall,
           memSessions' \in [MemSessions -> MemRow], memCalls' \in 0..MaxMemCalls
    PROVE  MemInv'
BY DEF MemInv

LEMMA MemBegun ==
    ASSUME MemInv, NEW c \in MemClients, MemBegin(c)
    PROVE  memCalls' \in 0..MaxMemCalls
BY MemAssumption DEF MemInv, MemBegin

LEMMA MemStep == MemInv /\ [MemNext]_memVars => MemInv' /\ MemRowsStep
<1> SUFFICES ASSUME MemInv, [MemNext]_memVars
             PROVE  MemInv' /\ MemRowsStep
  OBVIOUS
<1> USE DEF MemInv
<1>0. memSessions \in [MemSessions -> MemRow]
  OBVIOUS
<1>z. MemRowsStep => memSessions' \in [MemSessions -> MemRow]
  BY DEF MemRowsStep
<1>y. \A s \in MemSessions : memSessions[s] \in MemRow
  OBVIOUS
<1> HIDE DEF MemInv
<1>1. ASSUME NEW c \in MemClients, NEW s \in MemSessions, NEW st \in {"CREATED", "ACTIVE"}, MemCreate(c, s, st)
      PROVE  MemInv' /\ MemRowsStep
  <2> DEFINE q == [NoSession EXCEPT !.state = st, !.rev = 1]
  <2>1. q \in MemRow /\ MemMade(memSessions[s], q)
    BY <1>1, MemNewRow DEF MemMade, MemCreate
  <2>2. MemSet(s, q) /\ MemBegin(c) /\ UNCHANGED memCall
    BY <1>1 DEF MemCreate
  <2> HIDE DEF q
  <2>3. MemRowsStep
    BY <2>1, <2>2, <1>0, MemSetStep
  <2> QED BY <2>2, <2>3, <1>z, MemBegun, MemCallStays
<1>2. ASSUME NEW c \in MemClients, NEW new \in MemSessions, NEW old \in MemSessions, NEW st \in {"CREATED", "ACTIVE"},
             MemSupersede(c, old, new, st)
      PROVE  MemInv' /\ MemRowsStep
  <2> DEFINE q == [NoSession EXCEPT !.state = st, !.rev = 1]
             x == IF memSessions[old].state = "CLOSED" THEN memSessions[old] ELSE Closed(memSessions[old])
             y == IF memSessions[new].state = "none" THEN q ELSE memSessions[new]
  <2>1. q \in MemRow /\ (memSessions[new].state = "none" => MemMade(memSessions[new], q))
    BY MemNewRow DEF MemMade
  <2>2. memSessions[old].state # "none" /\ old # new /\ MemBegin(c) /\ UNCHANGED memCall
    BY <1>2 DEF MemSupersede
  <2>3. memSessions' = [memSessions EXCEPT ![old] = x, ![new] = y]
    BY <1>2 DEF MemSupersede
  <2>4. x \in MemRow /\ x.state = "CLOSED" /\ (MemKept(memSessions[old], x) \/ MemMoved(memSessions[old], x))
    BY <1>y, <2>2, MemClosedRow DEF MemKept, MemRow, MemStates
  <2>5. y \in MemRow /\ (MemMade(memSessions[new], y) \/ MemKept(memSessions[new], y))
    BY <1>y, <2>1 DEF MemKept
  <2> HIDE DEF q, x, y
  <2>6. /\ memSessions' \in [MemSessions -> MemRow] /\ memSessions'[old] = x /\ memSessions'[new] = y
        /\ \A t \in MemSessions \ {old, new} : memSessions'[t] = memSessions[t]
    BY <1>0, <2>2, <2>3, <2>4, <2>5
  <2>7. \A t \in MemSessions \ {old, new} : MemKept(memSessions[t], memSessions'[t])
    BY <2>6 DEF MemKept
  <2>8. MemRowsStep
    BY <2>4, <2>5, <2>6, <2>7 DEF MemRowsStep
  <2> QED BY <2>2, <2>8, <1>z, MemBegun, MemCallStays
<1>3. ASSUME NEW c \in MemClients, NEW s \in MemSessions, MemActivate(c, s)
      PROVE  MemInv' /\ MemRowsStep
  <2>1. MemSet(s, MemChanged(memSessions[s], "ACTIVE")) /\ MemBegin(c) /\ UNCHANGED memCall
    BY <1>3 DEF MemActivate
  <2>2. MemEdge(memSessions[s].state, "ACTIVE")
    BY <1>3, <1>y DEF MemActivate, MemUpdatable, MemRow, MemStates, MemEdge
  <2>3. MemRowsStep
    BY <2>1, <2>2, <1>0, <1>y, MemSetStep, MemChangedRow DEF MemStates
  <2> QED BY <2>1, <2>3, <1>z, MemBegun, MemCallStays
<1>4. ASSUME NEW c \in MemClients, NEW s \in MemSessions, MemResume(c, s)
      PROVE  MemInv' /\ MemRowsStep
  <2>1. /\ MemSet(s, IF memSessions[s].idleAge > MemTimeout THEN Closed(memSessions[s])
                     ELSE [MemChanged(memSessions[s], "ACTIVE") EXCEPT !.authAge = 0, !.idleAge = 0])
        /\ MemBegin(c) /\ UNCHANGED memCall /\ memSessions[s].state = "IDLE"
    BY <1>4 DEF MemResume
  <2>2. MemRowsStep
    <3>1. CASE memSessions[s].idleAge > MemTimeout
      <4>1. MemSet(s, Closed(memSessions[s]))
        BY <2>1, <3>1
      <4> QED BY <4>1, <2>1, <1>0, <1>y, MemSetStep, MemClosedRow
    <3>2. CASE ~(memSessions[s].idleAge > MemTimeout)
      <4> DEFINE q == [MemChanged(memSessions[s], "ACTIVE") EXCEPT !.authAge = 0, !.idleAge = 0]
      <4>1. MemSet(s, q)
        BY <2>1, <3>2
      <4>2. q \in MemRow /\ MemMoved(memSessions[s], q)
        BY <2>1, <1>y, MemRefreshedRow
      <4> HIDE DEF q
      <4> QED BY <4>1, <4>2, <1>0, MemSetStep
    <3> QED BY <3>1, <3>2
  <2> QED BY <2>1, <2>2, <1>z, MemBegun, MemCallStays
<1>5. ASSUME NEW c \in MemClients, NEW s \in MemSessions, MemClaim(c, s)
      PROVE  MemInv' /\ MemRowsStep
  <2>1. /\ MemSet(s, MemChanged(memSessions[s], "ACTIVE")) /\ MemBegin(c) /\ memSessions[s].state = "ACTIVE"
        /\ memCall' = [memCall EXCEPT ![c] = [pc |-> "claimed", sid |-> s, rev |-> BumpRevision(memSessions[s])]]
    BY <1>5 DEF MemClaim
  <2>2. MemEdge(memSessions[s].state, "ACTIVE") /\ BumpRevision(memSessions[s]) \in Nat
    BY <2>1, <1>y DEF MemEdge, BumpRevision, MemRow
  <2>3. MemRowsStep
    BY <2>1, <2>2, <1>0, <1>y, MemSetStep, MemChangedRow DEF MemStates
  <2> QED BY <2>1, <2>2, <2>3, <1>z, MemBegun, MemCallReads
<1>6. ASSUME NEW c \in MemClients, NEW s \in MemSessions, NEW op \in {"touch", "close"}, MemGet(c, s, op)
      PROVE  MemInv' /\ MemRowsStep
  <2>1. /\ MemBegin(c) /\ UNCHANGED memSessions
        /\ memCall' = [memCall EXCEPT ![c] = [pc |-> op, sid |-> s, rev |-> 0]]
    BY <1>6 DEF MemGet
  <2> QED BY <2>1, <1>0, MemSameStep, MemBegun, MemCallReads
<1>7. ASSUME NEW c \in MemClients, NEW S \in SUBSET MemSessions, MemCloseAll(c, S)
      PROVE  MemInv' /\ MemRowsStep
  <2>1. /\ MemBegin(c) /\ UNCHANGED memCall
        /\ memSessions' = [s \in MemSessions |-> IF s \in S /\ MemLive(s) THEN Closed(memSessions[s])
                                                 ELSE memSessions[s]]
    BY <1>7 DEF MemCloseAll
  <2>2. ASSUME NEW s \in MemSessions
        PROVE  /\ memSessions'[s] \in MemRow
               /\ MemKept(memSessions[s], memSessions'[s]) \/ MemMoved(memSessions[s], memSessions'[s])
    <3>1. CASE s \in S /\ MemLive(s)
      BY <2>1, <3>1, <1>y, MemClosedRow DEF MemLive
    <3>2. CASE ~(s \in S /\ MemLive(s))
      BY <2>1, <3>2, <1>y DEF MemKept
    <3> QED BY <3>1, <3>2
  <2>3. memSessions' \in [MemSessions -> MemRow]
    <3>1. memSessions' = [s \in MemSessions |-> memSessions'[s]]
      BY <2>1
    <3> QED BY <3>1, <2>2
  <2>4. MemRowsStep
    BY <2>2, <2>3 DEF MemRowsStep
  <2> QED BY <2>1, <2>4, <1>z, MemBegun, MemCallStays
<1>8. ASSUME NEW c \in MemClients, MemTouch(c)
      PROVE  MemInv' /\ MemRowsStep
  <2> DEFINE s == memCall[c].sid
  <2>1. /\ IF MemUpdatable(s) THEN MemSet(s, MemChanged(memSessions[s], memSessions[s].state)) ELSE UNCHANGED memSessions
        /\ memCall' = [memCall EXCEPT ![c] = NoMemCall] /\ UNCHANGED memCalls
    BY <1>8 DEF MemTouch
  <2>2. s \in MemSessions /\ memCalls \in 0..MaxMemCalls
    BY <1>8 DEF MemTouch, MemInv
  <2> HIDE DEF s
  <2>3. CASE MemUpdatable(s)
    <3>1. MemEdge(memSessions[s].state, memSessions[s].state) /\ memSessions[s].state \in MemStates
      BY <2>2, <2>3, <1>y DEF MemUpdatable, MemRow, MemStates, MemEdge
    <3>2. MemRowsStep
      BY <2>1, <2>2, <2>3, <3>1, <1>0, <1>y, MemSetStep, MemChangedRow
    <3> QED BY <2>1, <2>2, <3>2, <1>z, MemCallEnds
  <2>4. CASE ~MemUpdatable(s)
    BY <2>1, <2>2, <2>4, <1>0, MemSameStep, MemCallEnds
  <2> QED BY <2>3, <2>4
<1>9. ASSUME NEW c \in MemClients, MemClose(c)
      PROVE  MemInv' /\ MemRowsStep
  <2> DEFINE s == memCall[c].sid
  <2>1. /\ IF MemUpdatable(s) THEN MemSet(s, MemChanged(memSessions[s], "CLOSED")) ELSE UNCHANGED memSessions
        /\ memCall' = [memCall EXCEPT ![c] = NoMemCall] /\ UNCHANGED memCalls
    BY <1>9 DEF MemClose
  <2>2. s \in MemSessions /\ memCalls \in 0..MaxMemCalls
    BY <1>9 DEF MemClose, MemInv
  <2> HIDE DEF s
  <2>3. CASE MemUpdatable(s)
    <3>1. MemEdge(memSessions[s].state, "CLOSED") /\ "CLOSED" \in MemStates
      BY <2>2, <2>3, <1>y DEF MemUpdatable, MemRow, MemStates, MemEdge
    <3>2. MemRowsStep
      BY <2>1, <2>2, <2>3, <3>1, <1>0, <1>y, MemSetStep, MemChangedRow
    <3> QED BY <2>1, <2>2, <3>2, <1>z, MemCallEnds
  <2>4. CASE ~MemUpdatable(s)
    BY <2>1, <2>2, <2>4, <1>0, MemSameStep, MemCallEnds
  <2> QED BY <2>3, <2>4
<1>10. ASSUME NEW c \in MemClients, MemMarkAuthorized(c)
       PROVE  MemInv' /\ MemRowsStep
  <2> DEFINE s == memCall[c].sid
             q == [MemChanged(memSessions[s], "ACTIVE") EXCEPT !.authAge = 0]
  <2>1. /\ MemSet(s, q) /\ memSessions[s].state = "ACTIVE"
        /\ memCall' = [memCall EXCEPT ![c] = NoMemCall] /\ UNCHANGED memCalls
    BY <1>10 DEF MemMarkAuthorized
  <2>2. s \in MemSessions /\ memCalls \in 0..MaxMemCalls
    BY <1>10 DEF MemMarkAuthorized, MemInv
  <2> HIDE DEF s
  <2>3. q \in MemRow /\ MemMoved(memSessions[s], q)
    BY <2>1, <2>2, <1>y, MemRefreshedRow
  <2> HIDE DEF q
  <2>4. MemRowsStep
    BY <2>1, <2>2, <2>3, <1>0, MemSetStep
  <2> QED BY <2>1, <2>2, <2>4, <1>z, MemCallEnds
<1>11. ASSUME NEW c \in MemClients, MemRefused(c)
       PROVE  MemInv' /\ MemRowsStep
  <2>1. memCall' = [memCall EXCEPT ![c] = NoMemCall] /\ UNCHANGED <<memSessions, memCalls>>
    BY <1>11 DEF MemRefused
  <2>2. memCalls \in 0..MaxMemCalls
    BY DEF MemInv
  <2> QED BY <2>1, <2>2, <1>0, MemSameStep, MemCallEnds
<1>12. ASSUME MemCleanExpired
       PROVE  MemInv' /\ MemRowsStep
  <2>1. memSessions' = [s \in MemSessions |-> MemSwept(memSessions[s])] /\ UNCHANGED <<memCall, memCalls>>
    BY <1>12 DEF MemCleanExpired
  <2>2. \A s \in MemSessions : /\ MemSwept(memSessions[s]) \in MemRow
                               /\ \/ MemKept(memSessions[s], MemSwept(memSessions[s]))
                                  \/ MemMoved(memSessions[s], MemSwept(memSessions[s]))
    BY <1>y, MemSweptRow
  <2>3. MemRowsStep
    BY <2>1, <2>2 DEF MemRowsStep
  <2>4. memCalls \in 0..MaxMemCalls
    BY DEF MemInv
  <2> QED BY <2>1, <2>3, <2>4, <1>z, MemCallStays
<1>13. ASSUME MemTick
       PROVE  MemInv' /\ MemRowsStep
  <2> DEFINE q(s) == [memSessions[s] EXCEPT !.authAge = Older(@),
                                            !.idleAge = IF memSessions[s].state = "IDLE" THEN Older(@) ELSE @]
  <2>1. /\ memSessions' = [s \in MemSessions |-> IF MemLive(s) THEN q(s) ELSE memSessions[s]]
        /\ UNCHANGED <<memCall, memCalls>>
    BY <1>13 DEF MemTick
  <2>2. ASSUME NEW s \in MemSessions
        PROVE  q(s) \in MemRow /\ MemKept(memSessions[s], q(s))
    <3> PICK r \in MemRow : r = memSessions[s]
      BY <1>y
    <3>1. \A a \in 0..MemAgeCap : Older(a) \in 0..MemAgeCap
      BY MemAssumption DEF Older, MemAgeCap
    <3>2. q(s) = [r EXCEPT !.authAge = Older(r.authAge),
                           !.idleAge = IF r.state = "IDLE" THEN Older(r.idleAge) ELSE r.idleAge]
      OBVIOUS
    <3> HIDE DEF q
    <3> QED BY <3>1, <3>2 DEF MemRow, MemKept
  <2> HIDE DEF q
  <2>3. \A s \in MemSessions : memSessions'[s] \in MemRow /\ MemKept(memSessions[s], memSessions'[s])
    BY <2>1, <2>2, <1>y DEF MemKept
  <2>4. MemRowsStep
    BY <2>1, <2>2, <2>3, <1>y DEF MemRowsStep
  <2>5. memCalls \in 0..MaxMemCalls
    BY DEF MemInv
  <2> QED BY <2>1, <2>4, <2>5, <1>z, MemCallStays
<1>14. CASE UNCHANGED memVars
  BY <1>14, <1>0, MemSameStep DEF MemInv, memVars
<1>15. \A t : {s \in MemSessions : MemTokenOf[s] = t} \in SUBSET MemSessions
  OBVIOUS
<1>16. \A p : {s \in MemSessions : MemPrincipalOf[s] = p} \in SUBSET MemSessions
  OBVIOUS
<1> QED
  BY <1>1, <1>2, <1>3, <1>4, <1>5, <1>6, <1>7, <1>8, <1>9, <1>10, <1>11, <1>12, <1>13, <1>14, <1>15, <1>16
     DEF MemNext, MemCloseByToken, MemCloseByPrincipal

\* The state and revision of every session, which is all the lifecycle speaks of.
MemShown == [s \in MemSessions |-> [state |-> memSessions[s].state, rev |-> memSessions[s].rev]]

\* What a step does to the map is a step of the lifecycle.
LEMMA MemRowsAreLifecycle ==
    ASSUME memSessions \in [MemSessions -> MemRow], MemRowsStep
    PROVE  MemLifecycle!LcNext
<1>1. \A s \in MemSessions : MemShown[s] = [state |-> memSessions[s].state, rev |-> memSessions[s].rev]
  BY DEF MemShown
<1>2. \A s \in MemSessions : MemShown'[s] = [state |-> memSessions'[s].state, rev |-> memSessions'[s].rev]
  BY DEF MemShown
<1>3. MemShown' \in [MemSessions -> MemLifecycle!LcEntry]
  BY DEF MemShown, MemRowsStep, MemRow, MemStates, MemLifecycle!LcEntry, MemLifecycle!LcLive
<1>4. ASSUME NEW s \in MemSessions, MemKept(memSessions[s], memSessions'[s])
      PROVE  MemLifecycle!LcSame(s)
  BY <1>4 DEF MemKept, MemLifecycle!LcSame
<1>5. ASSUME NEW s \in MemSessions, MemMoved(memSessions[s], memSessions'[s])
      PROVE  MemLifecycle!LcMoved(s)
  BY <1>5 DEF MemMoved, MemLifecycle!LcMoved
<1>6. ASSUME NEW s \in MemSessions, MemMade(memSessions[s], memSessions'[s])
      PROVE  MemLifecycle!LcCreated(s)
  BY <1>6 DEF MemMade, MemLifecycle!LcCreated
<1>7. CASE \A s \in MemSessions : \/ MemKept(memSessions[s], memSessions'[s])
                                  \/ MemMoved(memSessions[s], memSessions'[s])
  <2>1. MemLifecycle!LcChange
    BY <1>4, <1>5, <1>7 DEF MemLifecycle!LcChange
  <2> QED BY <2>1, <1>3 DEF MemLifecycle!LcNext, MemShown
<1>8. ASSUME NEW s \in MemSessions, NEW old \in MemSessions,
             MemMade(memSessions[s], memSessions'[s]),
             \A t \in MemSessions \ {s} :
                   \/ MemKept(memSessions[t], memSessions'[t])
                   \/ /\ t = old /\ memSessions'[t].state = "CLOSED"
                      /\ MemMoved(memSessions[t], memSessions'[t])
      PROVE  MemLifecycle!LcNext
  <2>1. \A t \in MemSessions \ {s} :
           MemLifecycle!LcSame(t) \/ (t = old /\ MemLifecycle!LcMoved(t) /\ MemShown'[t].state = "CLOSED")
    <3>1. \A t \in MemSessions : memSessions'[t].state = "CLOSED" => MemShown'[t].state = "CLOSED"
      BY DEF MemShown
    <3> QED BY <1>4, <1>5, <1>8, <3>1
  <2>2. MemLifecycle!LcCreate(s)
    BY <1>6, <1>8, <2>1 DEF MemLifecycle!LcCreate, MemShown
  <2> QED BY <2>2, <1>3 DEF MemLifecycle!LcNext, MemShown
<1> QED BY <1>7, <1>8 DEF MemRowsStep

\* The in-memory store implements the session lifecycle as the table does: touches, closes,
\* resumes, cascades and sweeps move a session along its states, each change raises its revision
\* by one, and a closed session stays as it is (in-memory-store.ts), for any number of sessions
\* and callers.
THEOREM MemoryStoreRefinesLifecycle == MemSpec => MemoryStoreImplementsLifecycle
<1>1. MemInit => MemInv
  <2> SUFFICES ASSUME MemInit PROVE MemInv
    OBVIOUS
  <2>1. NoSession \in MemRow
    BY MemAssumption DEF NoSession, MemRow, MemStates, MemAgeCap
  <2>2. NoMemCall \in [pc : {"idle", "touch", "close", "claimed"}, sid : MemSessions \cup {NoSession}, rev : Nat]
        /\ NoMemCall.pc = "idle"
    BY DEF NoMemCall
  <2> QED BY <2>1, <2>2, MemAssumption DEF MemInit, MemInv
<1>2. MemInit => MemLifecycle!LcInit
  BY DEF MemInit, MemLifecycle!LcInit, NoSession
<1>3. MemInv => MemTypeOK
  BY DEF MemInv, MemTypeOK, MemRow, MemStates
<1>4. MemInv /\ [MemNext]_memVars => MemInv'
  BY MemStep
<1>5. MemInv /\ [MemNext]_memVars => [MemLifecycle!LcNext]_MemShown
  BY MemStep, MemRowsAreLifecycle DEF MemInv
<1>6. MemInv /\ [MemNext]_memVars => [MemLifecycle!LcNext]_([s \in MemSessions |-> [state |-> memSessions[s].state, rev |-> memSessions[s].rev]])
  BY <1>5 DEF MemShown
<1> QED
  BY <1>1, <1>2, <1>3, <1>4, <1>6, PTL DEF MemSpec, MemoryStoreImplementsLifecycle, MemLifecycle!LcSpec
=============================================================================
