--------------------------- MODULE RecordsProofs ---------------------------
(***************************************************************************)
(* Proofs about what is recorded of an action (MCRecords): the ledger      *)
(* (ActionLedger), the barrier (AuditBarrier), the settlement between two  *)
(* domains (CrossDomainSettle), and the records of policy changes, the     *)
(* tamper-proof log and the governor's lane (AuditChains), each with an    *)
(* inductive invariant that is proved for every set of callers and records *)
(* and every bound; the last section brings them to RecordsSpec, in which  *)
(* one of them runs.                                                       *)
(***************************************************************************)
EXTENDS MCRecords, FiniteSetTheorems, SequenceTheorems, WellFoundedInduction, TLAPS

-----------------------------------------------------------------------------
(* ActionLedger: the chains of the action records.                         *)

Past == {"inserted", "anchoring", "anchored"}

(* What the program counter of a call says about what it has written.      *)
CallShape ==
    \A c \in Calls :
      /\ call[c].pc \in Past =>
           /\ call[c].row \in RowId /\ call[c].row < nextId
           /\ rows[call[c].row].kind = "none"
      /\ call[c].pc = "anchored" =>
           /\ call[c].srow \in RowId /\ call[c].srow < nextSide
           /\ side[call[c].srow].rec = 0
      /\ call[c].pc \in {"anchoring", "anchored"} => call[c].kind = "control-plane"
      /\ call[c].pc \in {"locked", "linked"} => call[c].kind # "reserve"
      /\ call[c].kind = "reserve" => call[c].prev = 0
      /\ call[c].pc # "idle" => (call[c].kind = "control-plane" <=> call[c].agent = Governor)

(* Ids are handed out once.                                                *)
IdsUnique ==
    /\ \A r \in RowId : r >= nextId => rows[r].kind = "none"
    /\ \A s \in RowId : s >= nextSide => side[s].rec = 0
    /\ \A c, d \in Calls : call[c].pc \in Past /\ call[d].pc \in Past
                             /\ call[c].row = call[d].row => c = d

(* Advisory locks exclude.                                                 *)
LocksExclude ==
    /\ \A c, d \in Calls : HoldsChain(c, call[d].agent) /\ HoldsChain(d, call[d].agent) => c = d
    /\ \A c, d \in Calls : HoldsSideChain(c) /\ HoldsSideChain(d) => c = d

HasLinked(c) == call[c].kind # "reserve" /\ call[c].pc \in Past \cup {"linked"}

(* The hash a call has read is the tail's until the call ends, as long as  *)
(* only records are in the chain; and it is some committed row's anyway.   *)
LinkIsTail ==
    \A c \in Calls : HasLinked(c) =>
      /\ call[c].prev = 0 \/ call[c].prev \in Chain(call[c].agent)
      /\ OnlyRecords(call[c].agent) =>
           /\ IsTail(call[c].prev, Chain(call[c].agent))
           /\ call[c].pc \in Past => \A r \in Chain(call[c].agent) : r < call[c].row
      /\ call[c].pc \in Past => call[c].prev < call[c].row

SideLinkIsTail ==
    \A c \in Calls : HoldsSideChain(c) =>
      /\ \/ SideChain = {} /\ call[c].sprev = 0
         \/ call[c].sprev \in SideChain /\ \A s \in SideChain : s <= call[c].sprev
      /\ call[c].pc = "anchored" => \A s \in SideChain : s < call[c].srow

(* What only the committed rows decide.                                    *)
TablesInv ==
    /\ ChainVerifiesInStampOrder
    /\ SideChainAlwaysVerifies
    /\ AnchoredTogether
    /\ LinksAreCommitted

CallsInv ==
    /\ CallShape
    /\ IdsUnique
    /\ LocksExclude
    /\ LinkIsTail
    /\ SideLinkIsTail

IndInv == TypeOK /\ CallsInv /\ TablesInv

-----------------------------------------------------------------------------
(* Nothing is written yet.                                                 *)
LEMMA InitInd == Init => IndInv
<1> SUFFICES ASSUME Init PROVE IndInv
  OBVIOUS
<1>1. TypeOK
  BY ActionLedgerAssumption
  DEF Init, TypeOK, NoRow, NoCall, Row, SideRow, Call, Kinds, Did, RowId, Ref
<1>2. CallsInv
  BY DEF Init, CallsInv, CallShape, IdsUnique, LocksExclude, LinkIsTail, SideLinkIsTail, Past,
         HoldsChain, HoldsSideChain, HasLinked, NoCall, NoRow, RowId
<1>3. (\A a \in Did : Chain(a) = {}) /\ SideChain = {}
  BY DEF Init, Chain, SideChain, NoRow, RowId
<1>4. TablesInv
  BY <1>3 DEF Init, TablesInv, ChainVerifiesInStampOrder, VerifyIntegrity, SideChainAlwaysVerifies,
     VerifySideChain, AnchoredTogether, LinksAreCommitted, NoRow, RowId
<1> QED
  BY <1>1, <1>2, <1>4 DEF IndInv

(* Steps that commit nothing leave what the tables say.                    *)
LEMMA TablesFrame ==
  ASSUME TablesInv, UNCHANGED <<rows, side>>
  PROVE  /\ TablesInv'
         /\ \A a : Chain(a)' = Chain(a) /\ (OnlyRecords(a)' <=> OnlyRecords(a))
         /\ SideChain' = SideChain
         /\ \A x, S : IsTail(x, S)' <=> IsTail(x, S)
  BY DEF TablesInv, ChainVerifiesInStampOrder, VerifyIntegrity, OnlyRecords, StampsFollowLocks,
     SideChainAlwaysVerifies, VerifySideChain, AnchoredTogether, LinksAreCommitted,
     Chain, SideChain, IsTail, Before

(* A call that begins, or ends without committing.                         *)
LEMMA QuietStep ==
  ASSUME IndInv, NEW c \in Calls, NEW t \in Call, t.pc \in {"idle", "stamped"}, t.prev = 0,
         t.pc # "idle" => (t.kind = "control-plane" <=> t.agent = Governor),
         call' = [call EXCEPT ![c] = t], UNCHANGED <<rows, nextId, side, nextSide, clock>>
  PROVE  IndInv'
<1>1. TypeOK'
  BY DEF IndInv, TypeOK
<1>2. CallShape'
  BY DEF IndInv, TypeOK, CallsInv, CallShape, Past
<1>3. IdsUnique'
  BY DEF IndInv, TypeOK, CallsInv, IdsUnique, Past
<1>4. LocksExclude'
  BY DEF IndInv, TypeOK, CallsInv, LocksExclude, HoldsChain, HoldsSideChain
<1>5. LinkIsTail'
  BY TablesFrame DEF IndInv, TypeOK, CallsInv, LinkIsTail, HasLinked, Past
<1>6. SideLinkIsTail'
  BY TablesFrame DEF IndInv, TypeOK, CallsInv, SideLinkIsTail, HoldsSideChain
<1> QED
  BY <1>1, <1>2, <1>3, <1>4, <1>5, <1>6, TablesFrame DEF IndInv, CallsInv

(* pg_advisory_xact_lock granted.                                          *)
LEMMA LockStep ==
  ASSUME IndInv, NEW c \in Calls, LockAgentChain(c)
  PROVE  IndInv'
<1> DEFINE t == [call[c] EXCEPT !.pc = "locked"]
<1>a. call[c] \in Call
  BY DEF IndInv, TypeOK
<1>b. t \in Call
  BY <1>a DEF Call
<1>0. /\ t.pc = "locked" /\ t.kind = call[c].kind /\ t.kind # "reserve" /\ t.agent = call[c].agent
      /\ call[c].pc = "stamped" /\ \A d \in Calls : ~ HoldsChain(d, t.agent)
      /\ call' = [call EXCEPT ![c] = t] /\ UNCHANGED <<rows, nextId, side, nextSide, clock>>
  BY <1>a DEF LockAgentChain, Call
<1> HIDE DEF t
<1>1. TypeOK'
  BY <1>b, <1>0 DEF IndInv, TypeOK
<1>2. CallShape'
  BY <1>0 DEF IndInv, TypeOK, CallsInv, CallShape, Past
<1>3. IdsUnique'
  BY <1>0 DEF IndInv, TypeOK, CallsInv, IdsUnique, Past
<1>4. LocksExclude'
  BY <1>0 DEF IndInv, TypeOK, CallsInv, LocksExclude, HoldsChain, HoldsSideChain
<1>5. LinkIsTail'
  BY <1>0, TablesFrame DEF IndInv, TypeOK, CallsInv, LinkIsTail, HasLinked, Past
<1>6. SideLinkIsTail'
  BY <1>0, TablesFrame DEF IndInv, TypeOK, CallsInv, SideLinkIsTail, HoldsSideChain
<1> QED
  BY <1>0, <1>1, <1>2, <1>3, <1>4, <1>5, <1>6, TablesFrame DEF IndInv, CallsInv

(* The SELECT of the predecessor's hash.                                   *)
LEMMA LinkStep ==
  ASSUME IndInv, NEW c \in Calls, LoadPreviousRecordHash(c)
  PROVE  IndInv'
<1>x. PICK x \in Ref : /\ IsTail(x, Chain(call[c].agent))
                       /\ call' = [call EXCEPT ![c] = [@ EXCEPT !.pc = "linked", !.prev = x]]
  BY DEF LoadPreviousRecordHash
<1> DEFINE t == [call[c] EXCEPT !.pc = "linked", !.prev = x]
<1>a. call[c] \in Call
  BY DEF IndInv, TypeOK
<1>b. t \in Call
  BY <1>a, <1>x DEF Call
<1>0. /\ t.pc = "linked" /\ t.kind = call[c].kind /\ t.agent = call[c].agent /\ t.prev = x
      /\ call[c].pc = "locked" /\ call[c].kind # "reserve"
      /\ call' = [call EXCEPT ![c] = t] /\ UNCHANGED <<rows, nextId, side, nextSide, clock>>
  BY <1>a, <1>x DEF LoadPreviousRecordHash, Call, IndInv, CallsInv, CallShape
<1>c. x = 0 \/ x \in Chain(call[c].agent)
  BY <1>x DEF IsTail
<1> HIDE DEF t
<1>1. TypeOK'
  BY <1>b, <1>0 DEF IndInv, TypeOK
<1>2. CallShape'
  BY <1>0 DEF IndInv, TypeOK, CallsInv, CallShape, Past
<1>3. IdsUnique'
  BY <1>0 DEF IndInv, TypeOK, CallsInv, IdsUnique, Past
<1>4. LocksExclude'
  BY <1>0 DEF IndInv, TypeOK, CallsInv, LocksExclude, HoldsChain, HoldsSideChain
<1>5. LinkIsTail'
  BY <1>0, <1>c, <1>x, TablesFrame DEF IndInv, TypeOK, CallsInv, LinkIsTail, HasLinked, Past
<1>6. SideLinkIsTail'
  BY <1>0, TablesFrame DEF IndInv, TypeOK, CallsInv, SideLinkIsTail, HoldsSideChain
<1> QED
  BY <1>0, <1>1, <1>2, <1>3, <1>4, <1>5, <1>6, TablesFrame DEF IndInv, CallsInv

(* An INSERT, of a record or of a reservation, still uncommitted.          *)
LEMMA InsertStep ==
  ASSUME IndInv, NEW c \in Calls, nextId <= MaxRows,
         \/ call[c].pc = "linked"
         \/ call[c].pc = "stamped" /\ call[c].kind = "reserve",
         call' = [call EXCEPT ![c] = [@ EXCEPT !.pc = "inserted", !.row = nextId]],
         nextId' = nextId + 1, UNCHANGED <<rows, side, nextSide, clock>>
  PROVE  IndInv'
<1> DEFINE t == [call[c] EXCEPT !.pc = "inserted", !.row = nextId]
<1>a. call[c] \in Call /\ nextId \in RowId /\ nextId \in Ref /\ MaxRows \in Nat
  BY ActionLedgerAssumption DEF IndInv, TypeOK, RowId, Ref
<1>b. t \in Call
  BY <1>a DEF Call
<1>0. /\ t.pc = "inserted" /\ t.kind = call[c].kind /\ t.agent = call[c].agent
      /\ t.prev = call[c].prev /\ t.row = nextId
      /\ call' = [call EXCEPT ![c] = t]
  BY <1>a DEF Call
<1> HIDE DEF t
<1>1. TypeOK'
  BY <1>a, <1>b, <1>0 DEF IndInv, TypeOK, RowId
<1>2. CallShape'
  <2>1. rows[nextId].kind = "none"
    BY <1>a DEF IndInv, CallsInv, IdsUnique, RowId
  <2> QED
    BY <1>0, <1>a, <2>1 DEF IndInv, TypeOK, CallsInv, CallShape, Past, RowId
<1>3. IdsUnique'
  BY <1>0, <1>a DEF IndInv, TypeOK, CallsInv, IdsUnique, CallShape, Past, RowId
<1>4. LocksExclude'
  BY <1>0 DEF IndInv, TypeOK, CallsInv, LocksExclude, HoldsChain, HoldsSideChain
<1>5. LinkIsTail'
  <2>1. \A a \in Did : \A r \in Chain(a) : r < nextId
    BY <1>a DEF IndInv, CallsInv, IdsUnique, Chain, RowId
  <2>2. call[c].agent \in Did
    BY <1>a DEF Call
  <2>3. call[c].pc = "linked" => HasLinked(c)
    BY DEF HasLinked, IndInv, CallsInv, CallShape
  <2>4. call[c].pc = "linked" => call[c].prev < nextId
    BY <1>a, <2>1, <2>2, <2>3 DEF IndInv, CallsInv, LinkIsTail, RowId
  <2> QED
    BY <1>0, <2>1, <2>2, <2>3, <2>4, TablesFrame DEF IndInv, TypeOK, CallsInv, LinkIsTail, HasLinked, Past
<1>6. SideLinkIsTail'
  BY <1>0, TablesFrame DEF IndInv, TypeOK, CallsInv, SideLinkIsTail, HoldsSideChain
<1> QED
  BY <1>1, <1>2, <1>3, <1>4, <1>5, <1>6, TablesFrame DEF IndInv, CallsInv

(* The side table's lock and the hash of its last row.                     *)
LEMMA SideLinkStep ==
  ASSUME IndInv, NEW c \in Calls, SideTableLink(c)
  PROVE  IndInv'
<1>x. PICK x \in Ref :
        /\ \/ SideChain = {} /\ x = 0
           \/ x \in SideChain /\ \A s \in SideChain : s <= x
        /\ call' = [call EXCEPT ![c] = [@ EXCEPT !.pc = "anchoring", !.sprev = x]]
  BY DEF SideTableLink
<1> DEFINE t == [call[c] EXCEPT !.pc = "anchoring", !.sprev = x]
<1>a. call[c] \in Call
  BY DEF IndInv, TypeOK
<1>b. t \in Call
  BY <1>a, <1>x DEF Call
<1>0. /\ t.pc = "anchoring" /\ t.kind = call[c].kind /\ t.agent = call[c].agent
      /\ t.prev = call[c].prev /\ t.row = call[c].row /\ t.sprev = x
      /\ call[c].pc = "inserted" /\ call[c].kind = "control-plane"
      /\ \A d \in Calls : ~ HoldsSideChain(d)
      /\ call' = [call EXCEPT ![c] = t] /\ UNCHANGED <<rows, nextId, side, nextSide, clock>>
  BY <1>a, <1>x DEF SideTableLink, Call
<1> HIDE DEF t
<1>1. TypeOK'
  BY <1>b, <1>0 DEF IndInv, TypeOK
<1>2. CallShape'
  BY <1>0 DEF IndInv, TypeOK, CallsInv, CallShape, Past
<1>3. IdsUnique'
  BY <1>0 DEF IndInv, TypeOK, CallsInv, IdsUnique, Past
<1>4. LocksExclude'
  BY <1>0 DEF IndInv, TypeOK, CallsInv, LocksExclude, HoldsChain, HoldsSideChain
<1>5. LinkIsTail'
  BY <1>0, TablesFrame DEF IndInv, TypeOK, CallsInv, LinkIsTail, HasLinked, Past
<1>6. SideLinkIsTail'
  BY <1>0, <1>x, TablesFrame DEF IndInv, TypeOK, CallsInv, SideLinkIsTail, HoldsSideChain
<1> QED
  BY <1>0, <1>1, <1>2, <1>3, <1>4, <1>5, <1>6, TablesFrame DEF IndInv, CallsInv

(* The INSERT of the anchor, still uncommitted.                            *)
LEMMA SideInsertStep ==
  ASSUME IndInv, NEW c \in Calls, SideTableInsert(c)
  PROVE  IndInv'
<1> DEFINE t == [call[c] EXCEPT !.pc = "anchored", !.srow = nextSide]
<1>a. call[c] \in Call /\ nextSide \in RowId /\ nextSide \in Ref /\ MaxRows \in Nat
  BY ActionLedgerAssumption DEF IndInv, TypeOK, RowId, Ref, SideTableInsert
<1>b. t \in Call
  BY <1>a DEF Call
<1>0. /\ t.pc = "anchored" /\ t.kind = call[c].kind /\ t.agent = call[c].agent
      /\ t.prev = call[c].prev /\ t.row = call[c].row /\ t.sprev = call[c].sprev
      /\ t.srow = nextSide /\ call[c].pc = "anchoring"
      /\ call' = [call EXCEPT ![c] = t] /\ nextSide' = nextSide + 1
      /\ UNCHANGED <<rows, nextId, side, clock>>
  BY <1>a DEF SideTableInsert, Call
<1> HIDE DEF t
<1>1. TypeOK'
  BY <1>a, <1>b, <1>0 DEF IndInv, TypeOK, RowId
<1>2. CallShape'
  <2>1. side[nextSide].rec = 0
    BY <1>a DEF IndInv, CallsInv, IdsUnique, RowId
  <2> QED
    BY <1>0, <1>a, <2>1 DEF IndInv, TypeOK, CallsInv, CallShape, Past, RowId
<1>3. IdsUnique'
  BY <1>0, <1>a DEF IndInv, TypeOK, CallsInv, IdsUnique, Past, RowId
<1>4. LocksExclude'
  BY <1>0 DEF IndInv, TypeOK, CallsInv, LocksExclude, HoldsChain, HoldsSideChain
<1>5. LinkIsTail'
  BY <1>0, TablesFrame DEF IndInv, TypeOK, CallsInv, LinkIsTail, HasLinked, Past
<1>6. SideLinkIsTail'
  <2>1. \A s \in SideChain : s < nextSide
    BY <1>a DEF IndInv, CallsInv, IdsUnique, SideChain, RowId
  <2> QED
    BY <1>0, <2>1, TablesFrame DEF IndInv, TypeOK, CallsInv, SideLinkIsTail, HoldsSideChain
<1> QED
  BY <1>0, <1>1, <1>2, <1>3, <1>4, <1>5, <1>6, TablesFrame DEF IndInv, CallsInv

(* COMMIT: the row joins its chain behind the tail it names.                *)
LEMMA CommitStep ==
  ASSUME IndInv, NEW c \in Calls, Commit(c)
  PROVE  IndInv'
<1>a. call[c] \in Call /\ call[c].pc \in Past
  BY DEF IndInv, TypeOK, Commit, ReadyToCommit, Past
<1>p. PICK r \in RowId, a \in Did : r = call[c].row /\ a = call[c].agent
  BY <1>a DEF IndInv, CallsInv, CallShape, Call
<1> DEFINE cp == call[c].kind = "control-plane"
<1> DEFINE new == [kind |-> call[c].kind, agent |-> a, rid |-> call[c].rid,
                   ts |-> call[c].ts, prev |-> call[c].prev]
<1> DEFINE snew == [rec |-> r, prev |-> call[c].sprev]
<1>b. r \in RowId /\ r < nextId /\ rows[r].kind = "none" /\ r = call[c].row /\ a = call[c].agent
  BY <1>a, <1>p DEF IndInv, CallsInv, CallShape
<1>c. cp => /\ call[c].pc = "anchored" /\ a = Governor
            /\ call[c].srow \in RowId /\ call[c].srow < nextSide /\ side[call[c].srow].rec = 0
  BY <1>a, <1>b DEF IndInv, CallsInv, CallShape, Commit, ReadyToCommit, Past
<1>d. ~ cp => call[c].pc = "inserted" /\ a # Governor /\ side' = side
  BY <1>a, <1>b DEF IndInv, CallsInv, CallShape, Commit, ReadyToCommit, Past
<1>e. /\ rows' = [rows EXCEPT ![r] = new]
      /\ cp => side' = [side EXCEPT ![call[c].srow] = snew]
      /\ call' = [call EXCEPT ![c] = NoCall] /\ UNCHANGED <<nextId, nextSide, clock>>
  BY <1>b DEF Commit, End
<1>f. new \in Row /\ snew \in SideRow /\ new.kind = call[c].kind /\ new.kind # "none" /\ r # 0
  BY <1>a, <1>b DEF Row, SideRow, Call, Kinds, RowId
<1>g. NoCall \in Call /\ NoCall.pc = "idle" /\ NoCall.kind = "standard" /\ NoCall.agent = Governor
  BY ActionLedgerAssumption DEF NoCall, Call, Kinds, Did, Ref
<1>1. TypeOK'
  BY <1>b, <1>c, <1>d, <1>e, <1>f, <1>g DEF IndInv, TypeOK
<1>h. a \in Did /\ call[c].kind \in Kinds /\ rows \in [RowId -> Row] /\ side \in [RowId -> SideRow]
      /\ call \in [Calls -> Call] /\ nextId \in Nat /\ nextSide \in Nat /\ MaxRows \in Nat
  BY <1>a, ActionLedgerAssumption DEF IndInv, TypeOK, Call
<1> HIDE DEF new
<1>k. new.agent = a /\ new.ts = call[c].ts /\ new.prev = call[c].prev /\ new.kind = call[c].kind
  BY DEF new
<1>i. \A b \in Did : Chain(b)' = IF b = a THEN Chain(b) \cup {r} ELSE Chain(b)
  BY <1>b, <1>e, <1>f, <1>h, <1>k DEF Chain
<1>j. SideChain' = IF cp THEN SideChain \cup {call[c].srow} ELSE SideChain
  BY <1>c, <1>d, <1>e, <1>f, <1>h DEF SideChain
<1>2. CallShape'
  <2>1. \A d \in Calls : d # c /\ call[d].pc \in Past => call[d].row # r
    BY <1>a, <1>b DEF IndInv, CallsInv, IdsUnique
  <2>2. \A d \in Calls : d # c /\ call[d].pc = "anchored" => ~ cp
    BY <1>c DEF IndInv, CallsInv, LocksExclude, HoldsSideChain
  <2> QED
    BY <1>b, <1>c, <1>d, <1>e, <1>g, <1>h, <2>1, <2>2 DEF IndInv, CallsInv, CallShape, NoCall, Past
<1>3. IdsUnique'
  BY <1>b, <1>c, <1>d, <1>e, <1>g, <1>h DEF IndInv, CallsInv, IdsUnique, Past, RowId
<1>4. LocksExclude'
  BY <1>e, <1>g, <1>h DEF IndInv, CallsInv, LocksExclude, HoldsChain, HoldsSideChain
<1>5. LinkIsTail'
  <2> SUFFICES ASSUME NEW d \in Calls, HasLinked(d)'
               PROVE  (/\ call[d].prev = 0 \/ call[d].prev \in Chain(call[d].agent)
                       /\ OnlyRecords(call[d].agent) =>
                            /\ IsTail(call[d].prev, Chain(call[d].agent))
                            /\ call[d].pc \in Past =>
                                 \A q \in Chain(call[d].agent) : q < call[d].row
                       /\ call[d].pc \in Past => call[d].prev < call[d].row)'
    BY DEF LinkIsTail
  <2>1. d # c /\ call'[d] = call[d] /\ HasLinked(d) /\ call[d].agent \in Did
    BY <1>e, <1>g, <1>h DEF HasLinked, Past, Call
  <2>2. CASE call[d].agent # a
    <3>1. Chain(call[d].agent)' = Chain(call[d].agent)
      BY <1>i, <2>1, <2>2
    <3>2. \A q \in Chain(call[d].agent) : rows'[q] = rows[q]
      BY <1>b, <1>e, <1>h DEF Chain
    <3> QED
      BY <2>1, <3>1, <3>2 DEF IndInv, CallsInv, LinkIsTail, OnlyRecords, IsTail, Before
  <2>3. CASE call[d].agent = a
    <3>1. call[c].kind = "reserve"
      BY <1>b, <2>1, <2>3, <1>a DEF IndInv, CallsInv, LocksExclude, HoldsChain, HasLinked, Past
    <3>2. ~ OnlyRecords(a)'
      BY <1>b, <1>e, <1>h, <1>i, <1>k, <3>1 DEF OnlyRecords
    <3> QED
      BY <1>i, <2>1, <2>3, <3>2 DEF IndInv, CallsInv, LinkIsTail
  <2> QED
    BY <2>2, <2>3
<1>6. SideLinkIsTail'
  <2>1. \A d \in Calls : HoldsSideChain(d)' => d # c /\ HoldsSideChain(d) /\ ~ cp
    BY <1>c, <1>e, <1>g, <1>h DEF HoldsSideChain, IndInv, CallsInv, LocksExclude
  <2> QED
    BY <1>e, <1>h, <1>j, <2>1 DEF IndInv, CallsInv, SideLinkIsTail
<1>7. ChainVerifiesInStampOrder'
  <2> SUFFICES ASSUME NEW b \in Did, OnlyRecords(b)', StampsFollowLocks(b)'
               PROVE  VerifyIntegrity(b)'
    BY DEF ChainVerifiesInStampOrder
  <2>0. \A q \in Chain(b) : q # r /\ rows'[q] = rows[q]
    BY <1>b, <1>e, <1>h DEF Chain
  <2>1. Chain(b) \subseteq Chain(b)' /\ Chain(b) \subseteq RowId
    BY <1>i DEF Chain
  <2>2. OnlyRecords(b) /\ StampsFollowLocks(b)
    BY <2>0, <2>1 DEF OnlyRecords, StampsFollowLocks
  <2>3. VerifyIntegrity(b)
    BY <2>2 DEF IndInv, TablesInv, ChainVerifiesInStampOrder
  <2>4. CASE b # a
    <3>1. Chain(b)' = Chain(b)
      BY <1>i, <2>4
    <3> QED
      BY <2>0, <2>3, <3>1 DEF VerifyIntegrity, IsTail, Before
  <2>5. CASE b = a
    <3>1. Chain(a)' = Chain(a) \cup {r} /\ r \in Chain(a)'
      BY <1>i, <1>h
    <3>2. rows'[r] = new
      BY <1>b, <1>e, <1>h
    <3>3. call[c].kind # "reserve"
      BY <2>5, <3>1, <3>2, <1>k DEF OnlyRecords
    <3>4. IsTail(call[c].prev, Chain(a)) /\ \A q \in Chain(a) : q < r
      BY <1>a, <1>b, <2>2, <2>5, <3>3 DEF IndInv, CallsInv, LinkIsTail, HasLinked
    <3>5. \A q \in Chain(a) : rows'[q].ts <= rows'[r].ts
      BY <2>1, <2>5, <3>1, <3>4 DEF StampsFollowLocks
    <3>t. \A q \in Chain(a) : rows'[q].ts \in Nat /\ rows'[r].ts \in Nat /\ q \in Nat /\ r \in Nat
      BY <1>1, <1>b, <2>1, <2>5 DEF TypeOK, Row, RowId
    <3>6. \A q \in Chain(a) : Before(q, r)' /\ ~ Before(r, q)'
      BY <3>4, <3>5, <3>t DEF Before
    <3>7. \A q, s \in Chain(a) : Before(q, s)' <=> Before(q, s)
      BY <2>0, <2>5 DEF Before
    <3>r. ~ Before(r, r)'
      BY <1>1, <1>b DEF Before, TypeOK, Row, RowId
    <3>8. {q \in Chain(a)' : Before(q, r)'} = Chain(a)
      BY <3>1, <3>6, <3>r
    <3>9. ASSUME NEW s \in Chain(a)
          PROVE  {q \in Chain(a)' : Before(q, s)'} = {q \in Chain(a) : Before(q, s)}
      BY <3>1, <3>6, <3>7
    <3>10. ASSUME NEW s \in Chain(a)
           PROVE  rows'[s].kind # "reserve"
                  /\ IsTail(rows[s].prev, {q \in Chain(a) : Before(q, s)})'
      <4>1. IsTail(rows[s].prev, {q \in Chain(a) : Before(q, s)}) /\ rows[s].kind # "reserve"
        BY <2>3, <2>5 DEF VerifyIntegrity
      <4> QED
        BY <4>1, <2>0, <2>5, <3>7, <3>9 DEF IsTail
    <3>11. rows'[r].kind # "reserve"
           /\ \/ Chain(a) = {} /\ rows'[r].prev = 0
              \/ rows'[r].prev \in Chain(a)
                   /\ \A q \in Chain(a) : q = rows'[r].prev \/ Before(q, rows[r].prev)'
      BY <3>2, <3>3, <3>4, <3>7, <1>k DEF IsTail
    <3> QED
      BY <2>5, <3>1, <3>8, <3>10, <3>11 DEF VerifyIntegrity, IsTail
  <2> QED
    BY <2>4, <2>5
<1>8. SideChainAlwaysVerifies'
  <2>0. \A s \in SideChain : /\ s \in RowId /\ side'[s] = side[s] /\ side[s].rec \in RowId
                             /\ rows'[side[s].rec].kind # "none"
    BY <1>b, <1>c, <1>d, <1>e, <1>f, <1>h, <1>k
       DEF SideChain, IndInv, TablesInv, SideChainAlwaysVerifies, VerifySideChain, SideRow, RowId, Ref
  <2>1. CASE ~ cp
    BY <2>0, <2>1, <1>j DEF IndInv, TablesInv, SideChainAlwaysVerifies, VerifySideChain
  <2>2. CASE cp
    <3> DEFINE sr == call[c].srow
    <3>1. SideChain' = SideChain \cup {sr} /\ side'[sr] = snew /\ rows'[r].kind # "none"
      BY <2>2, <1>b, <1>c, <1>e, <1>f, <1>h, <1>j, <1>k
    <3>2. /\ \/ SideChain = {} /\ call[c].sprev = 0
             \/ call[c].sprev \in SideChain /\ \A s \in SideChain : s <= call[c].sprev
          /\ \A s \in SideChain : s < sr
      BY <2>2, <1>c DEF IndInv, CallsInv, SideLinkIsTail, HoldsSideChain
    <3>3. sr \in Nat /\ \A s \in SideChain : s \in Nat
      BY <2>0, <2>2, <1>c DEF RowId
    <3>4. \A s \in SideChain :
            \/ side[s].prev = 0 /\ \A t \in SideChain : t >= s
            \/ side[s].prev \in SideChain /\ side[s].prev < s
                 /\ \A t \in SideChain : t < s => t <= side[s].prev
      BY DEF IndInv, TablesInv, SideChainAlwaysVerifies, VerifySideChain
    <3>5. \A s \in SideChain' :
            \/ side'[s].prev = 0 /\ \A t \in SideChain' : t >= s
            \/ side'[s].prev \in SideChain' /\ side'[s].prev < s
                 /\ \A t \in SideChain' : t < s => t <= side'[s].prev
      BY <2>0, <3>1, <3>2, <3>3, <3>4
    <3> QED
      BY <2>0, <3>1, <3>5 DEF SideChainAlwaysVerifies, VerifySideChain
  <2> QED
    BY <2>1, <2>2
<1>9. AnchoredTogether'
  <2>0. \A s \in SideChain : side[s].rec \in RowId /\ rows[side[s].rec].kind = "control-plane"
    BY <1>h DEF SideChain, IndInv, TablesInv, AnchoredTogether, SideRow, Ref, RowId
  <2>1. \A s \in SideChain : side'[s] = side[s] /\ side[s].rec # r /\ rows'[side[s].rec] = rows[side[s].rec]
    BY <1>b, <1>c, <1>d, <1>e, <1>h, <2>0 DEF SideChain
  <2>2. cp => side'[call[c].srow] = snew /\ call[c].srow \in SideChain'
    BY <1>c, <1>e, <1>h, <1>j
  <2>3. \A q \in RowId : q # r => rows'[q] = rows[q]
    BY <1>b, <1>e, <1>h
  <2>4. rows'[r] = new
    BY <1>b, <1>e, <1>h
  <2>5. AnchoredTogether
    BY DEF IndInv, TablesInv
  <2> QED
    BY <1>c, <1>j, <1>k, <2>1, <2>2, <2>3, <2>4, <2>5 DEF AnchoredTogether
<1>10. LinksAreCommitted'
  <2>1. call[c].prev # 0 => call[c].prev \in Chain(a) /\ call[c].prev < r
    BY <1>a, <1>b DEF IndInv, CallsInv, CallShape, LinkIsTail, HasLinked
  <2>2. \A q \in RowId : q # r => rows'[q] = rows[q]
    BY <1>b, <1>e, <1>h
  <2>3. rows'[r] = new
    BY <1>b, <1>e, <1>h
  <2>4. \A q \in RowId : rows[q].prev # 0 => rows[q].prev \in RowId
    BY <1>h DEF Row, Ref, RowId
  <2>5. ASSUME NEW q \in RowId, q # r, rows'[q].kind # "none", rows'[q].prev # 0
        PROVE  /\ rows'[q].prev < q
               /\ rows'[rows'[q].prev].kind # "none"
               /\ rows'[rows'[q].prev].agent = rows'[q].agent
    <3>1. rows'[q] = rows[q] /\ rows[q].prev \in RowId
      BY <2>2, <2>4, <2>5
    <3>2. rows[q].prev < q /\ rows[rows[q].prev].kind # "none"
          /\ rows[rows[q].prev].agent = rows[q].agent
      BY <2>5, <3>1 DEF IndInv, TablesInv, LinksAreCommitted
    <3>3. rows'[rows[q].prev] = rows[rows[q].prev]
      BY <1>b, <2>2, <3>1, <3>2
    <3> QED
      BY <3>1, <3>2, <3>3
  <2>6. new.prev # 0 => new.prev < r /\ rows'[new.prev].kind # "none" /\ rows'[new.prev].agent = a
    BY <1>b, <1>k, <2>1, <2>2 DEF Chain
  <2> QED
    BY <1>k, <2>3, <2>5, <2>6 DEF LinksAreCommitted
<1> QED
  BY <1>1, <1>2, <1>3, <1>4, <1>5, <1>6, <1>7, <1>8, <1>9, <1>10 DEF IndInv, CallsInv, TablesInv

(* The callers' clock.                                                     *)
LEMMA TickStep ==
  ASSUME IndInv, Tick
  PROVE  IndInv'
<1>1. TypeOK'
  BY DEF IndInv, TypeOK, Tick
<1>2. CallShape' /\ IdsUnique' /\ LocksExclude'
  BY DEF IndInv, CallsInv, CallShape, IdsUnique, LocksExclude, Past, HoldsChain, HoldsSideChain, Tick
<1>3. LinkIsTail' /\ SideLinkIsTail'
  BY TablesFrame DEF IndInv, CallsInv, LinkIsTail, SideLinkIsTail, HasLinked, Past, HoldsSideChain, Tick
<1> QED
  BY <1>1, <1>2, <1>3, TablesFrame DEF IndInv, CallsInv, Tick

(* Every step keeps the invariant.                                         *)
LEMMA StepInd == IndInv /\ [Next]_vars => IndInv'
<1> SUFFICES ASSUME IndInv, [Next]_vars PROVE IndInv'
  OBVIOUS
<1>0. NoCall \in Call /\ NoCall.pc = "idle" /\ NoCall.prev = 0
  BY ActionLedgerAssumption DEF NoCall, Call, Kinds, Did, Ref
<1>1. ASSUME NEW c \in Calls, NEW kind \in {"standard", "control-plane"}, NEW a \in Did,
             NEW rid \in RecordIds, Record(c, kind, a, rid)
      PROVE  IndInv'
  <2> DEFINE t == [NoCall EXCEPT !.pc = "stamped", !.kind = kind, !.agent = a,
                                 !.rid = rid, !.ts = clock]
  <2>1. t \in Call
    BY <1>0 DEF Call, IndInv, TypeOK, Kinds
  <2>2. /\ t.pc = "stamped" /\ t.prev = 0 /\ (t.kind = "control-plane" <=> t.agent = Governor)
        /\ call' = [call EXCEPT ![c] = t] /\ UNCHANGED <<rows, nextId, side, nextSide, clock>>
    BY <1>0, <1>1 DEF Record, LaneAllowed, NoCall
  <2> HIDE DEF t
  <2> QED
    BY <2>1, <2>2, QuietStep
<1>2. ASSUME NEW c \in Calls, NEW a \in Metered, NEW rid \in RecordIds, Reserve(c, a, rid)
      PROVE  IndInv'
  <2> DEFINE t == [NoCall EXCEPT !.pc = "stamped", !.kind = "reserve", !.agent = a,
                                 !.rid = rid, !.ts = clock]
  <2>0. a \in Did /\ a # Governor
    BY ActionLedgerAssumption DEF Did
  <2>1. t \in Call
    BY <1>0, <2>0 DEF Call, IndInv, TypeOK, Kinds
  <2>2. /\ t.pc = "stamped" /\ t.prev = 0 /\ (t.kind = "control-plane" <=> t.agent = Governor)
        /\ call' = [call EXCEPT ![c] = t] /\ UNCHANGED <<rows, nextId, side, nextSide, clock>>
    BY <1>0, <1>2, <2>0 DEF Reserve, NoCall
  <2> HIDE DEF t
  <2> QED
    BY <2>1, <2>2, QuietStep
<1>3. ASSUME NEW c \in Calls, End(c), UNCHANGED <<rows, nextId, side, nextSide, clock>>
      PROVE  IndInv'
  BY <1>0, <1>3, QuietStep DEF End
<1>4. ASSUME NEW c \in Calls, InsertRecord(c)
      PROVE  IndInv'
  BY <1>3, <1>4, InsertStep DEF InsertRecord
<1>5. ASSUME NEW c \in Calls, InsertReservation(c)
      PROVE  IndInv'
  BY <1>3, <1>5, InsertStep DEF InsertReservation
<1>6. ASSUME NEW c \in Calls, Rollback(c)
      PROVE  IndInv'
  BY <1>3, <1>6 DEF Rollback
<1>7. ASSUME UNCHANGED vars
      PROVE  IndInv'
  <2>1. TypeOK'
    BY <1>7 DEF IndInv, TypeOK, vars
  <2>2. CallsInv'
    BY <1>7, TablesFrame DEF IndInv, CallsInv, CallShape, IdsUnique, LocksExclude, LinkIsTail,
       SideLinkIsTail, HasLinked, Past, HoldsChain, HoldsSideChain, vars
  <2> QED
    BY <1>7, <2>1, <2>2, TablesFrame DEF IndInv, vars
<1> QED
  BY <1>1, <1>2, <1>4, <1>5, <1>6, <1>7, LockStep, LinkStep, SideLinkStep, SideInsertStep,
     CommitStep, TickStep DEF Next, Step

-----------------------------------------------------------------------------
(* The inductive invariant holds throughout.                               *)
THEOREM Inductive == Spec => []IndInv
  BY InitInd, StepInd, PTL DEF Spec

(* The tables, the calls and the clock keep their types.                   *)
THEOREM TypeCorrect == Spec => []TypeOK
<1>1. IndInv => TypeOK
  BY DEF IndInv
<1> QED
  BY <1>1, Inductive, PTL

(* An agent's chain of records whose stamps follow the locks verifies, for *)
(* any number of concurrent record(), reservation and rollback steps.      *)
THEOREM ChainsVerify == Spec => []ChainVerifiesInStampOrder
<1>1. IndInv => ChainVerifiesInStampOrder
  BY DEF IndInv, TablesInv
<1> QED
  BY <1>1, Inductive, PTL

(* The side table's chain verifies, whatever is rolled back.               *)
THEOREM SideChainVerifies == Spec => []SideChainAlwaysVerifies
<1>1. IndInv => SideChainAlwaysVerifies
  BY DEF IndInv, TablesInv
<1> QED
  BY <1>1, Inductive, PTL

(* A control-plane record is committed with its one anchor.                *)
THEOREM AnchorsMatch == Spec => []AnchoredTogether
<1>1. IndInv => AnchoredTogether
  BY DEF IndInv, TablesInv
<1> QED
  BY <1>1, Inductive, PTL

(* No record is chained to a row of another agent or to one rolled back.   *)
THEOREM LinksHold == Spec => []LinksAreCommitted
<1>1. IndInv => LinksAreCommitted
  BY DEF IndInv, TablesInv
<1> QED
  BY <1>1, Inductive, PTL

(* All of what the ledger promises of its two tables, together.            *)
THEOREM LedgerHolds == Spec => []LedgerIsSound
<1>1. /\ TypeOK /\ ChainVerifiesInStampOrder /\ SideChainAlwaysVerifies
      /\ AnchoredTogether /\ LinksAreCommitted
      => LedgerIsSound
  BY DEF LedgerIsSound
<1> QED
  BY <1>1, TypeCorrect, ChainsVerify, SideChainVerifies, AnchorsMatch, LinksHold, PTL

-----------------------------------------------------------------------------
(* AuditBarrier: the record before the action.                             *)

Audited(i) ==
    \E m, n \in 1..Len(log) : m < n /\ log[m] = <<"INTENT", i>> /\ log[n] = <<"RESULT", i>>

Precedes(i, j) ==
    \A m, n \in 1..Len(log) : log[m] = <<"INTENT", i>> /\ log[n] = <<"INTENT", j>> => m < n

Started == {"writing", "returned", "timeout", "failed"}

(* The write of an intent and the call that waits for it.                  *)
WriteShape ==
    \A i \in Intents :
      /\ pc[i] \in {"new", "queued"} => write[i] = "none"
      /\ pc[i] = "returned" => write[i] = "done"
      /\ write[i] = "done" <=> Logged("INTENT", i)

(* The queue: a call has started only if the one before it let it go, and  *)
(* then behind everything that call has written.                           *)
QueueShape ==
    \A j \in Intents : previous[j] # None /\ pc[j] \in Started =>
      /\ pc[previous[j]] \in {"returned", "timeout", "failed"}
      /\ pc[previous[j]] = "returned" => Precedes(previous[j], j)

(* What is known about an intent is backed by the ledger.                  *)
Backed ==
    \A i \in Intents :
      /\ lifecycle[i] # "none" => pc[i] = "returned"
      /\ lifecycle[i] = "RESULT_WRITTEN" => Audited(i)
      /\ afters[i].writing > 0 => write[i] = "done"
      /\ afters[i].written > 0 => Audited(i)
      /\ i \in executed => write[i] = "done"
      /\ i \in signed => Audited(i)

(* Only calls of this process are queued.                                  *)
QueueLive ==
    /\ \A a \in AbAgents : tail[a] # None => pc[tail[a]] \notin {"new", "lost"}
    /\ \A j \in Intents : pc[j] \notin {"new", "lost"} /\ previous[j] # None =>
         pc[previous[j]] \notin {"new", "lost"}

BarrierInv == AbTypeOK /\ WriteShape /\ QueueShape /\ QueueLive /\ Backed

-----------------------------------------------------------------------------
(* What appending to the log keeps.                                        *)
LEMMA AppendLog ==
  ASSUME log \in Seq(Entry), NEW e \in Entry, log' = Append(log, e)
  PROVE  /\ log' \in Seq(Entry)
         /\ Len(log') = Len(log) + 1 /\ Len(log) \in Nat
         /\ \A n \in 1..Len(log) : log'[n] = log[n]
         /\ log'[Len(log) + 1] = e
  OBVIOUS

(* Records are never taken back.                                           *)
LEMMA AppendKeeps ==
  ASSUME log \in Seq(Entry), NEW e \in Entry, log' = Append(log, e)
  PROVE  /\ \A i : Audited(i) => Audited(i)'
         /\ \A t, i : Logged(t, i)' <=> (Logged(t, i) \/ e = <<t, i>>)
<1>1. /\ Len(log') = Len(log) + 1 /\ Len(log) \in Nat
      /\ \A n \in 1..Len(log) : log'[n] = log[n]
      /\ log'[Len(log) + 1] = e
  BY AppendLog
<1>2. \A i : Audited(i) => Audited(i)'
  BY <1>1 DEF Audited
<1>3. \A t, i : Logged(t, i)' <=> (Logged(t, i) \/ e = <<t, i>>)
  <2>1. \A n : n \in 1..(Len(log) + 1) <=> (n \in 1..Len(log) \/ n = Len(log) + 1)
    BY <1>1
  <2> QED
    BY <1>1, <2>1 DEF Logged
<1> QED
  BY <1>2, <1>3

(* Steps that write nothing to the log keep what it says.                  *)
LEMMA LogFrame ==
  ASSUME UNCHANGED log
  PROVE  /\ \A i : Audited(i)' <=> Audited(i)
         /\ \A t, i : Logged(t, i)' <=> Logged(t, i)
         /\ \A i, j : Precedes(i, j)' <=> Precedes(i, j)
  BY DEF Audited, Logged, Precedes

(* Nothing is known yet.                                                   *)
LEMMA BarrierInitInd == AbInit => BarrierInv
  BY DEF AbInit, BarrierInv, AbTypeOK, WriteShape, QueueShape, QueueLive, Backed, Logged, Started

(* One step per action.                                                    *)
LEMMA BarrierStepInd == BarrierInv /\ [AbNext]_abVars => BarrierInv'
<1> SUFFICES ASSUME BarrierInv, [AbNext]_abVars PROVE BarrierInv'
  OBVIOUS
<1> USE BarrierAssumption
<1>0. UNCHANGED log => /\ \A i : Audited(i)' <=> Audited(i)
                       /\ \A t, i : Logged(t, i)' <=> Logged(t, i)
                       /\ \A i, j : Precedes(i, j)' <=> Precedes(i, j)
  BY LogFrame
<1>1. ASSUME NEW i \in Intents, BeforeExecute(i) PROVE BarrierInv'
  <2>1. AbTypeOK'
    BY <1>1 DEF BeforeExecute, BarrierInv, AbTypeOK
  <2>2. WriteShape' /\ Backed'
    BY <1>0, <1>1 DEF BeforeExecute, BarrierInv, AbTypeOK, WriteShape, Backed
  <2>3. QueueShape'
    BY <1>0, <1>1 DEF BeforeExecute, BarrierInv, AbTypeOK, QueueShape, QueueLive, Started
  <2>4. QueueLive'
    BY <1>1 DEF BeforeExecute, BarrierInv, AbTypeOK, QueueLive
  <2> QED
    BY <2>1, <2>2, <2>3, <2>4 DEF BarrierInv
<1>2. ASSUME NEW i \in Intents, StartWrite(i) PROVE BarrierInv'
  <2>1. AbTypeOK'
    BY <1>2 DEF StartWrite, BarrierInv, AbTypeOK
  <2>2. WriteShape' /\ Backed'
    BY <1>0, <1>2 DEF StartWrite, BarrierInv, AbTypeOK, WriteShape, Backed
  <2>3. \A j : Precedes(j, i)
    BY <1>2 DEF StartWrite, BarrierInv, WriteShape, Logged, Precedes
  <2>4. QueueShape'
    BY <1>0, <1>2, <2>3 DEF StartWrite, Released, BarrierInv, AbTypeOK, QueueShape, Started
  <2>5. QueueLive'
    BY <1>2 DEF StartWrite, BarrierInv, AbTypeOK, QueueLive
  <2> QED
    BY <2>1, <2>2, <2>4, <2>5 DEF BarrierInv
<1>3. ASSUME NEW i \in Intents, IntentCommits(i) PROVE BarrierInv'
  <2>0. /\ log \in Seq(Entry) /\ <<"INTENT", i>> \in Entry /\ log' = Append(log, <<"INTENT", i>>)
        /\ write[i] = "inflight" /\ write' = [write EXCEPT ![i] = "done"]
        /\ UNCHANGED <<pc, previous, tail, lifecycle, afters, executed, signed, restarts>>
    BY <1>3 DEF IntentCommits, BarrierInv, AbTypeOK, Entry
  <2>a. /\ \A k : Audited(k) => Audited(k)'
        /\ \A t, k : Logged(t, k)' <=> (Logged(t, k) \/ <<"INTENT", i>> = <<t, k>>)
    BY <2>0, AppendKeeps
  <2>b. /\ log' \in Seq(Entry) /\ Len(log') = Len(log) + 1 /\ Len(log) \in Nat
        /\ \A n \in 1..Len(log) : log'[n] = log[n]
        /\ log'[Len(log) + 1] = <<"INTENT", i>>
    BY <2>0, AppendLog
  <2>1. AbTypeOK'
    BY <2>0, <2>b DEF BarrierInv, AbTypeOK
  <2>2. WriteShape' /\ Backed'
    BY <2>0, <2>a DEF BarrierInv, AbTypeOK, WriteShape, Backed
  <2>3. \A j, k \in Intents : k # i /\ Precedes(k, j) => Precedes(k, j)'
    BY <2>b DEF Precedes
  <2>4. QueueShape'
    BY <2>0, <2>3 DEF BarrierInv, AbTypeOK, QueueShape, WriteShape
  <2>5. QueueLive'
    BY <2>0 DEF BarrierInv, QueueLive
  <2> QED
    BY <2>1, <2>2, <2>4, <2>5 DEF BarrierInv
<1>4. ASSUME NEW i \in Intents, IntentFails(i) PROVE BarrierInv'
  <2>1. AbTypeOK'
    BY <1>4 DEF IntentFails, BarrierInv, AbTypeOK
  <2>2. WriteShape' /\ Backed'
    BY <1>0, <1>4 DEF IntentFails, BarrierInv, AbTypeOK, WriteShape, Backed
  <2>3. QueueShape' /\ QueueLive'
    BY <1>0, <1>4 DEF IntentFails, BarrierInv, AbTypeOK, QueueShape, QueueLive
  <2> QED
    BY <2>1, <2>2, <2>3 DEF BarrierInv
<1>5. ASSUME NEW i \in Intents, Returns(i) \/ Throws(i) \/ Timeout(i) PROVE BarrierInv'
  <2>1. AbTypeOK'
    BY <1>5 DEF Returns, Throws, Timeout, BarrierInv, AbTypeOK
  <2>2. WriteShape' /\ Backed'
    BY <1>0, <1>5 DEF Returns, Throws, Timeout, BarrierInv, AbTypeOK, WriteShape, Backed
  <2>a. PICK s \in {"returned", "failed", "timeout"} : pc' = [pc EXCEPT ![i] = s]
    BY <1>5 DEF Returns, Throws, Timeout
  <2>b. /\ pc[i] = "writing" /\ UNCHANGED <<previous, tail, log>>
        /\ pc'[i] = s /\ \A j \in Intents : j # i => pc'[j] = pc[j]
        /\ previous \in [Intents -> Intents \cup {None}] /\ tail \in [AbAgents -> Intents \cup {None}]
    BY <1>5, <2>a DEF Returns, Throws, Timeout, BarrierInv, AbTypeOK
  <2>c. \A j \in Intents : previous[j] # None /\ pc[j] \in Started =>
          previous[j] # i /\ previous[j] \in Intents
    BY <2>b DEF BarrierInv, QueueShape, Started
  <2>3. QueueShape'
    <3> SUFFICES ASSUME NEW j \in Intents, previous[j] # None, pc'[j] \in Started
                 PROVE  /\ pc'[previous[j]] \in {"returned", "timeout", "failed"}
                        /\ pc'[previous[j]] = "returned" => Precedes(previous[j], j)
      BY <1>0, <2>b DEF QueueShape
    <3>1. pc[j] \in Started
      BY <2>b DEF Started
    <3> QED
      BY <2>b, <2>c, <3>1 DEF BarrierInv, QueueShape
  <2>4. QueueLive'
    BY <2>a, <2>b DEF BarrierInv, QueueLive
  <2> QED
    BY <2>1, <2>2, <2>3, <2>4 DEF BarrierInv
<1>6. ASSUME NEW i \in Intents, Execute(i) \/ BeforeReceiptSign(i) PROVE BarrierInv'
  <2>1. AbTypeOK'
    BY <1>6 DEF Execute, BeforeReceiptSign, BarrierInv, AbTypeOK
  <2>2. WriteShape' /\ Backed'
    BY <1>0, <1>6 DEF Execute, BeforeReceiptSign, BarrierInv, AbTypeOK, WriteShape, Backed
  <2>3. QueueShape' /\ QueueLive'
    BY <1>0, <1>6 DEF Execute, BeforeReceiptSign, BarrierInv, AbTypeOK, QueueShape, QueueLive
  <2> QED
    BY <2>1, <2>2, <2>3 DEF BarrierInv
<1>7. ASSUME NEW i \in Intents, AfterExecute(i) \/ ResultFails(i) \/ ResultReturns(i) PROVE BarrierInv'
  <2>0. afters[i] \in [made : Nat, writing : Nat, written : Nat]
    BY DEF BarrierInv, AbTypeOK
  <2>a. PICK r \in [made : Nat, writing : Nat, written : Nat] :
          /\ afters' = [afters EXCEPT ![i] = r]
          /\ r.writing > 0 => write[i] = "done"
          /\ r.written > 0 => afters[i].written > 0
    <3>1. CASE AfterExecute(i)
      <4> DEFINE r == [made |-> afters[i].made + 1, writing |-> afters[i].writing + 1,
                       written |-> afters[i].written]
      <4>1. r \in [made : Nat, writing : Nat, written : Nat] /\ r.written = afters[i].written
        BY <2>0
      <4>2. afters' = [afters EXCEPT ![i] = r] /\ write[i] = "done"
        BY <3>1 DEF AfterExecute, BarrierInv, WriteShape
      <4> QED
        BY <4>1, <4>2
    <3>2. CASE ResultFails(i)
      <4> DEFINE r == [afters[i] EXCEPT !.writing = afters[i].writing - 1]
      <4>1. afters[i].writing > 0 /\ afters' = [afters EXCEPT ![i] = r] /\ write[i] = "done"
        BY <3>2 DEF ResultFails, BarrierInv, Backed
      <4>2. r \in [made : Nat, writing : Nat, written : Nat] /\ r.written = afters[i].written
        BY <2>0, <4>1
      <4> QED
        BY <4>1, <4>2
    <3>3. CASE ResultReturns(i)
      <4> DEFINE r == [afters[i] EXCEPT !.written = afters[i].written - 1]
      <4>1. afters[i].written > 0 /\ afters' = [afters EXCEPT ![i] = r] /\ write[i] = "done"
        BY <3>3 DEF ResultReturns, BarrierInv, WriteShape
      <4>2. r \in [made : Nat, writing : Nat, written : Nat]
        BY <2>0, <4>1
      <4> QED
        BY <4>1, <4>2
    <3> QED
      BY <1>7, <3>1, <3>2, <3>3
  <2>b. /\ UNCHANGED <<pc, previous, tail, write, log, executed, signed, restarts>>
        /\ \/ UNCHANGED lifecycle
           \/ /\ lifecycle' = [lifecycle EXCEPT ![i] = "RESULT_WRITTEN"]
              /\ pc[i] = "returned" /\ afters[i].written > 0
    BY <1>7 DEF AfterExecute, ResultFails, ResultReturns
  <2>1. AbTypeOK'
    BY <2>a, <2>b DEF BarrierInv, AbTypeOK
  <2>2. WriteShape'
    BY <1>0, <2>b DEF BarrierInv, WriteShape
  <2>3. Backed'
    <3>1. /\ afters'[i] = r /\ \A k \in Intents : k # i => afters'[k] = afters[k]
          /\ lifecycle \in [Intents -> {"none", "INTENT_WRITTEN", "RESULT_WRITTEN"}]
      BY <2>a DEF BarrierInv, AbTypeOK
    <3> QED
      BY <1>0, <2>a, <2>b, <3>1 DEF BarrierInv, Backed
  <2>4. QueueShape' /\ QueueLive'
    BY <1>0, <2>b DEF BarrierInv, QueueShape, QueueLive
  <2> QED
    BY <2>1, <2>2, <2>3, <2>4 DEF BarrierInv
<1>8. ASSUME NEW i \in Intents, ResultCommits(i) PROVE BarrierInv'
  <2>0. /\ log \in Seq(Entry) /\ <<"RESULT", i>> \in Entry /\ log' = Append(log, <<"RESULT", i>>)
        /\ afters[i].writing > 0 /\ afters[i] \in [made : Nat, writing : Nat, written : Nat]
        /\ afters' = [afters EXCEPT ![i] = [made |-> afters[i].made,
                                            writing |-> afters[i].writing - 1,
                                            written |-> afters[i].written + 1]]
        /\ UNCHANGED <<pc, previous, tail, write, lifecycle, executed, signed, restarts>>
    BY <1>8 DEF ResultCommits, BarrierInv, AbTypeOK, Entry
  <2>a. /\ \A k : Audited(k) => Audited(k)'
        /\ \A t, k : Logged(t, k)' <=> (Logged(t, k) \/ <<"RESULT", i>> = <<t, k>>)
    BY <2>0, AppendKeeps
  <2>b. /\ log' \in Seq(Entry) /\ Len(log') = Len(log) + 1 /\ Len(log) \in Nat
        /\ \A n \in 1..Len(log) : log'[n] = log[n]
        /\ log'[Len(log) + 1] = <<"RESULT", i>>
    BY <2>0, AppendLog
  <2>1. AbTypeOK'
    <3>1. [made |-> afters[i].made, writing |-> afters[i].writing - 1,
           written |-> afters[i].written + 1]
            \in [made : Nat, writing : Nat, written : Nat]
      BY <2>0
    <3> QED
      BY <2>0, <2>b, <3>1 DEF BarrierInv, AbTypeOK
  <2>2. WriteShape'
    BY <2>0, <2>a DEF BarrierInv, AbTypeOK, WriteShape
  <2>3. Audited(i)'
    <3>1. Logged("INTENT", i)
      BY <2>0 DEF BarrierInv, Backed, WriteShape
    <3> QED
      BY <3>1, <2>b DEF Logged, Audited
  <2>4. Backed'
    BY <2>0, <2>a, <2>3 DEF BarrierInv, AbTypeOK, Backed
  <2>5. ASSUME NEW j \in Intents, NEW k \in Intents, Precedes(k, j) PROVE Precedes(k, j)'
    <3> SUFFICES ASSUME NEW m \in 1..Len(log'), NEW n \in 1..Len(log'),
                        log'[m] = <<"INTENT", k>>, log'[n] = <<"INTENT", j>>
                 PROVE  m < n
      BY DEF Precedes
    <3>1. log'[Len(log) + 1] # <<"INTENT", k>> /\ log'[Len(log) + 1] # <<"INTENT", j>>
      BY <2>b
    <3>2. m \in 1..Len(log) /\ n \in 1..Len(log)
      BY <2>b, <3>1
    <3>3. log[m] = <<"INTENT", k>> /\ log[n] = <<"INTENT", j>>
      BY <2>b, <3>2
    <3> QED
      BY <2>5, <3>2, <3>3 DEF Precedes
  <2>6. QueueShape'
    BY <2>0, <2>5 DEF BarrierInv, AbTypeOK, QueueShape
  <2>7. QueueLive'
    BY <2>0 DEF BarrierInv, QueueLive
  <2> QED
    BY <2>1, <2>2, <2>4, <2>6, <2>7 DEF BarrierInv
<1>9. ASSUME Restart PROVE BarrierInv'
  <2>1. AbTypeOK'
    BY <1>9 DEF Restart, BarrierInv, AbTypeOK
  <2>2. WriteShape' /\ Backed'
    BY <1>0, <1>9 DEF Restart, BarrierInv, AbTypeOK, WriteShape, Backed
  <2>3. QueueShape' /\ QueueLive'
    BY <1>9 DEF Restart, BarrierInv, AbTypeOK, QueueShape, QueueLive, Started
  <2> QED
    BY <2>1, <2>2, <2>3 DEF BarrierInv
<1>10. ASSUME UNCHANGED abVars PROVE BarrierInv'
  <2>1. AbTypeOK' /\ QueueLive'
    BY <1>10 DEF abVars, BarrierInv, AbTypeOK, QueueLive
  <2>2. WriteShape' /\ Backed' /\ QueueShape'
    BY <1>0, <1>10 DEF abVars, BarrierInv, WriteShape, Backed, QueueShape
  <2> QED
    BY <2>1, <2>2 DEF BarrierInv
<1> QED
  BY <1>1, <1>2, <1>3, <1>4, <1>5, <1>6, <1>7, <1>8, <1>9, <1>10 DEF AbNext

-----------------------------------------------------------------------------
(* The inductive invariant holds throughout.                               *)
THEOREM BarrierInductive == AbSpec => []BarrierInv
  BY BarrierInitInd, BarrierStepInd, PTL DEF AbSpec

(* The queue, the intent states and the ledger keep their types.           *)
THEOREM BarrierTypeCorrect == AbSpec => []AbTypeOK
<1>1. BarrierInv => AbTypeOK
  BY DEF BarrierInv
<1> QED
  BY <1>1, BarrierInductive, PTL

(* No action is executed without its intent in the ledger, whatever is     *)
(* lost, late or restarted.                                                *)
THEOREM AuditBeforeExecute == AbSpec => []ExecutedIsRecorded
<1>1. BarrierInv => ExecutedIsRecorded
  BY DEF BarrierInv, AbTypeOK, WriteShape, Backed, ExecutedIsRecorded
<1> QED
  BY <1>1, BarrierInductive, PTL

(* No receipt is signed before intent and result are in the ledger, in     *)
(* this order.                                                             *)
THEOREM AuditBeforeReceipt == AbSpec => []ReceiptIsAudited
<1>1. BarrierInv => ReceiptIsAudited
  BY DEF BarrierInv, AbTypeOK, Backed, ReceiptIsAudited, Audited
<1> QED
  BY <1>1, BarrierInductive, PTL

(* Intents of calls that queued one behind the other and returned are in   *)
(* the ledger in that order.                                               *)
THEOREM IntentsInOrder == AbSpec => []ReturnedInOrder
<1>1. BarrierInv => ReturnedInOrder
  <2> SUFFICES ASSUME BarrierInv, NEW i \in Intents, NEW j \in Intents,
                      pc[i] = "returned", pc[j] = "returned", previous[j] = i
               PROVE  Precedes(i, j)
    BY DEF ReturnedInOrder, Precedes
  <2>1. previous[j] # None
    BY BarrierAssumption
  <2> QED
    BY <2>1 DEF BarrierInv, QueueShape, Started
<1> QED
  BY <1>1, BarrierInductive, PTL

(* All of what the barrier promises of the actions behind it, together.    *)
THEOREM BarrierHolds == AbSpec => []BarrierIsSound
<1>1. AbTypeOK /\ ExecutedIsRecorded /\ ReceiptIsAudited /\ ReturnedInOrder => BarrierIsSound
  BY DEF BarrierIsSound
<1> QED
  BY <1>1, BarrierTypeCorrect, AuditBeforeExecute, AuditBeforeReceipt, IntentsInOrder, PTL

-----------------------------------------------------------------------------
(* Least and greatest elements.                                            *)

\* A set of numbers has a least one, and a bounded one has a greatest.
LEMMA LeastNat ==
    ASSUME NEW T \in SUBSET Nat, T # {}
    PROVE  \E n \in T : \A m \in T : n <= m
<1> DEFINE R == {p \in Nat \X Nat : p[1] < p[2]}
<1>1. R = OpToRel(<, Nat)
  BY Zenon DEF OpToRel
<1>2. IsWellFoundedOn(R, Nat)
  BY <1>1, NatLessThanWellFounded, Zenon
<1> HIDE DEF R
<1>3. \E x \in T : \A y \in T : ~(<<y, x>> \in R)
  BY <1>2, WFMin, Zenon
<1>4. \A x, y \in Nat : y < x => <<y, x>> \in R
  BY DEF R
<1>5. PICK x \in T : \A y \in T : ~(<<y, x>> \in R)
  BY <1>3
<1>6. ASSUME NEW y \in T PROVE x <= y
  <2>1. x \in Nat /\ y \in Nat /\ ~(y < x)
    BY <1>4, <1>5
  <2> QED BY <2>1
<1> QED BY <1>6

LEMMA GreatestNat ==
    ASSUME NEW b \in Nat, NEW S \in SUBSET (0..b), S # {}
    PROVE  \E n \in S : \A m \in S : m <= n
<1> DEFINE T == {k \in Nat : \E m \in S : k = b - m}
<1>1. \A m \in S : b - m \in T
  OBVIOUS
<1>2. PICK k \in T : \A l \in T : k <= l
  <2>1. T # {} /\ T \in SUBSET Nat
    BY <1>1
  <2> HIDE DEF T
  <2> QED BY <2>1, LeastNat, Zenon
<1>3. PICK n \in S : k = b - n
  OBVIOUS
<1>4. \A m \in S : b - n <= b - m
  BY <1>1, <1>2, <1>3
<1> QED BY <1>3, <1>4

-----------------------------------------------------------------------------
(* CrossDomainSettle: what the reconciliation cursor passes.               *)

\* A cursor is where reading starts, or the key of a record that was read.
CdReached(c) == c = CdCursorStart \/ \E v \in cdRead : c = CdKey(v)

\* What was read is there, and so was, or came in late, whatever is before it.
CdReadFromStart ==
    /\ \A s \in cdRead : cdRows[s].state # "none"
    /\ \A u \in cdRead, s \in SettleIds :
          cdRows[s].state # "none" /\ CdBefore(CdKey(s), CdKey(u)) => s \in cdRead \cup cdLate

\* The stored cursor and those of the calls were reached; a page was read, and of it only
\* verified records are to be confirmed.
CdPages ==
    /\ CdReached(cdCursor)
    /\ \A r \in Reconcilers :
          /\ CdReached(recon[r].after)
          /\ recon[r].page \subseteq cdRead /\ recon[r].confirmed \subseteq recon[r].page
          /\ recon[r].pc \in {"confirm", "cursor"} => recon[r].page # {}
          /\ \A s \in recon[r].confirmed : Verified(s)

\* A settled record was read, verified and confirmed in time.
CdSettled ==
    \A s \in SettleIds : cdRows[s].state = "SETTLED" =>
        s \in cdRead /\ Verified(s) /\ settledAtTime[s] < ExpiresAt(s)

CdInv == CdTypeOK /\ CdReadFromStart /\ CdPages /\ CdSettled

\* The keys of records are ordered by time and id.
LEMMA CdOrder ==
    ASSUME CdTypeOK
    PROVE  /\ \A s, u, v \in SettleIds : CdBefore(CdKey(s), CdKey(u)) /\ CdBefore(CdKey(u), CdKey(v))
                                           => CdBefore(CdKey(s), CdKey(v))
           /\ \A s, u \in SettleIds : s # u => CdBefore(CdKey(s), CdKey(u)) \/ CdBefore(CdKey(u), CdKey(s))
<1>1. \A s \in SettleIds : cdRows[s].createdAt \in Int /\ s \in Int
  BY CdAssumption DEF CdTypeOK, SettleRecord, CdTime, SettleIds
<1>2. \A s, u \in SettleIds : CdBefore(CdKey(s), CdKey(u)) <=>
          \/ cdRows[s].createdAt < cdRows[u].createdAt
          \/ cdRows[s].createdAt = cdRows[u].createdAt /\ s < u
  BY DEF CdBefore, CdKey
<1>3. ASSUME NEW s \in SettleIds, NEW u \in SettleIds, NEW v \in SettleIds,
             CdBefore(CdKey(s), CdKey(u)), CdBefore(CdKey(u), CdKey(v))
      PROVE  CdBefore(CdKey(s), CdKey(v))
  BY <1>1, <1>2, <1>3
<1>4. ASSUME NEW s \in SettleIds, NEW u \in SettleIds, s # u
      PROVE  CdBefore(CdKey(s), CdKey(u)) \/ CdBefore(CdKey(u), CdKey(s))
  BY <1>1, <1>2, <1>4
<1> QED BY <1>3, <1>4

\* A page has a last record.
LEMMA CdLastIn ==
    ASSUME CdTypeOK, NEW page \in SUBSET SettleIds, page # {}
    PROVE  LastOf(page) \in page
<1> DEFINE at(s) == cdRows[s].createdAt
           times == {t \in 0..MaxCdTime : \E s \in page : t = at(s)}
<1>0. MaxCdTime \in Nat /\ MaxSettles \in Nat /\ \A s \in page : at(s) \in 0..MaxCdTime
  BY CdAssumption DEF CdTypeOK, SettleRecord, CdTime
<1>1. PICK t \in times : \A x \in times : x <= t
  <2>1. times \in SUBSET (0..MaxCdTime) /\ times # {}
    BY <1>0
  <2> HIDE DEF times
  <2> QED BY <1>0, <2>1, GreatestNat
<1> DEFINE last == {s \in page : at(s) = t}
<1>2. PICK s \in last : \A u \in last : u <= s
  <2>1. last \in SUBSET (0..MaxSettles)
    <3>1. \A x \in page : x \in 0..MaxSettles
      BY <1>0 DEF SettleIds
    <3> QED BY <3>1
  <2>2. last # {}
    BY <1>0, <1>1
  <2> HIDE DEF last
  <2> QED BY <1>0, <2>1, <2>2, GreatestNat
<1>3. ASSUME NEW u \in page \ {s} PROVE CdBefore(CdKey(u), CdKey(s))
  <2>1. at(u) <= t /\ at(u) \in Nat /\ t \in Nat
    BY <1>0, <1>1
  <2>2. at(u) = t => u < s
    <3>1. u \in Int /\ s \in Int /\ u # s
      BY <1>0, <1>2, <1>3 DEF SettleIds
    <3>2. at(u) = t => u <= s
      BY <1>2, <1>3
    <3> HIDE DEF at
    <3> QED BY <3>1, <3>2
  <2> QED BY <2>1, <2>2 DEF CdBefore, CdKey
<1>4. \E x \in page : \A u \in page \ {x} : CdBefore(CdKey(u), CdKey(x))
  BY <1>3
<1> QED BY <1>4 DEF LastOf

\* A page leaves nothing out: what is before one of its records is in it, was read before or
\* came in late.
LEMMA CdPageIsClosed ==
    ASSUME CdInv, NEW after \in ReconciliationCursor, CdReached(after),
           NEW u \in QuerySettles(after), NEW s \in SettleIds,
           cdRows[s].state # "none", CdBefore(CdKey(s), CdKey(u))
    PROVE  s \in QuerySettles(after) \cup cdRead \cup cdLate
<1> DEFINE found == {x \in SettleIds : cdRows[x].state # "none" /\ AfterCursor(x, after)}
           below(x) == {y \in found : CdBefore(CdKey(y), CdKey(x))}
<1>0. CdTypeOK /\ u \in SettleIds /\ u \in found /\ Cardinality(below(u)) < BatchSize
  BY DEF CdInv, QuerySettles
<1>1. CASE AfterCursor(s, after)
  <2>1. s \in found
    BY <1>1
  <2>2. below(s) \subseteq below(u)
    BY <1>0, CdOrder
  <2>3. IsFiniteSet(below(u)) /\ below(u) \in SUBSET SettleIds
    <3>1. IsFiniteSet(SettleIds)
      <4>1. 1 \in Int /\ MaxSettles \in Int
        BY CdAssumption
      <4> QED BY <4>1, FS_Interval, Zenon DEF SettleIds
    <3>2. below(u) \in SUBSET SettleIds
      OBVIOUS
    <3> HIDE DEF below
    <3> QED BY <3>1, <3>2, FS_Subset
  <2>4. /\ Cardinality(below(s)) <= Cardinality(below(u))
        /\ Cardinality(below(s)) \in Nat /\ Cardinality(below(u)) \in Nat
    <3> HIDE DEF below
    <3> QED BY <2>2, <2>3, FS_Subset, FS_CardinalityType
  <2>5. Cardinality(below(s)) < BatchSize
    <3> HIDE DEF below
    <3> QED BY <1>0, <2>4, CdAssumption
  <2> QED BY <2>1, <2>5 DEF QuerySettles
<1>2. CASE ~AfterCursor(s, after)
  <2>1. PICK v \in cdRead : after = CdKey(v)
    BY <1>2 DEF CdReached, AfterCursor, CdCursorStart
  <2>2. v \in SettleIds
    BY DEF CdInv, CdTypeOK
  <2>3. s = v \/ CdBefore(CdKey(s), CdKey(v))
    BY <1>0, <1>2, <2>1, <2>2, CdOrder DEF AfterCursor
  <2> QED BY <2>1, <2>3 DEF CdInv, CdReadFromStart
<1> QED BY <1>1, <1>2

\* Keys and signatures of records that are there do not change, so what was reached and what
\* was read from the start stays so as long as nothing is read or inserted.
LEMMA CdKept ==
    ASSUME CdInv, cdRead' = cdRead, cdLate' = cdLate,
           \A s \in SettleIds : /\ cdRows'[s].createdAt = cdRows[s].createdAt
                                /\ cdRows'[s].canonical = cdRows[s].canonical
                                /\ cdRows'[s].state = "none" <=> cdRows[s].state = "none"
    PROVE  /\ CdReadFromStart'
           /\ \A s \in SettleIds : CdKey(s)' = CdKey(s) /\ (Verified(s)' <=> Verified(s))
<1>1. \A s \in SettleIds : CdKey(s)' = CdKey(s) /\ (Verified(s)' <=> Verified(s))
  BY DEF CdKey, Verified
<1>2. cdRead \subseteq SettleIds
  BY DEF CdInv, CdTypeOK
<1>3. CdReadFromStart'
  BY <1>2 DEF CdInv, CdReadFromStart, CdKey, CdBefore
<1> QED BY <1>1, <1>3\* The inductive step.
LEMMA CdStep == CdInv /\ [CdNext]_cdVars => CdInv'
<1> SUFFICES ASSUME CdInv, [CdNext]_cdVars PROVE CdInv'
  OBVIOUS
<1> USE CdAssumption
<1>1. ASSUME NEW d \in Deliveries, NEW x \in SettleIds, NEW c \in BOOLEAN, CreateSettleRequest(d, x, c)
      PROVE  CdInv'
  <2>1. CdTypeOK'
    BY <1>1 DEF CdInv, CdTypeOK, SettleRecord, SettleState, CdTime, ReconciliationCursor,
                CdCursorStart, CreateSettleRequest
  <2>2. CdReadFromStart'
    BY <1>1 DEF CdInv, CdReadFromStart, CdKey, CdBefore, CreateSettleRequest
  <2>3. CdPages'
    BY <1>1 DEF CdInv, CdPages, CdReached, CdKey, Verified, CdTypeOK, CdCursorStart,
                CreateSettleRequest
  <2>4. CdSettled'
    BY <1>1 DEF CdInv, CdSettled, Verified, ExpiresAt, CreateSettleRequest
  <2> QED BY <2>1, <2>2, <2>3, <2>4 DEF CdInv
<1>2. ASSUME NEW d \in Deliveries, StampSettle(d)
      PROVE  CdInv'
  <2>1. CdTypeOK'
    <3>1. [delivery[d] EXCEPT !.pc = "stamped", !.now = cdNow] \in
             [pc : {"new", "selected", "stamped", "done"}, id : SettleIds, canonical : BOOLEAN, now : CdTime]
      BY DEF CdInv, CdTypeOK
    <3> QED BY <1>2, <3>1 DEF CdInv, CdTypeOK, StampSettle
  <2>2. CdReadFromStart'
    BY <1>2 DEF CdInv, CdReadFromStart, CdKey, CdBefore, StampSettle
  <2>3. CdPages'
    BY <1>2 DEF CdInv, CdPages, CdReached, CdKey, Verified, CdTypeOK, CdCursorStart, StampSettle
  <2>4. CdSettled'
    BY <1>2 DEF CdInv, CdSettled, Verified, ExpiresAt, StampSettle
  <2> QED BY <2>1, <2>2, <2>3, <2>4 DEF CdInv
<1>3. ASSUME NEW d \in Deliveries, AppendSettle(d)
      PROVE  CdInv'
  <2>0. PICK s \in SettleIds : s = delivery[d].id /\ delivery[d].now \in CdTime /\ delivery[d].canonical \in BOOLEAN
    BY DEF CdInv, CdTypeOK
  <2>0a. CASE ~InsertSettle(d)
    <3>1. UNCHANGED <<cdRows, cdLate, cdCursor, recon, cdNow, cdStarted, cdRead, settledAtTime>>
      BY <1>3, <2>0a DEF AppendSettle
    <3>2. CdTypeOK'
      BY <1>3, <3>1 DEF CdInv, CdTypeOK, AppendSettle
    <3> QED BY <3>1, <3>2 DEF CdInv, CdReadFromStart, CdPages, CdReached, CdSettled, CdKey, CdBefore, Verified,
                              ExpiresAt
  <2>0b. CASE InsertSettle(d)

    <3> DEFINE new == [state |-> "PENDING", createdAt |-> delivery[d].now, canonical |-> delivery[d].canonical]
    <3>1. /\ cdRows' = [cdRows EXCEPT ![s] = new]
          /\ cdLate' = IF \E r \in cdRead : CdBefore([at |-> delivery[d].now, id |-> s], CdKey(r))
                       THEN cdLate \cup {s} ELSE cdLate
          /\ UNCHANGED <<cdCursor, recon, cdNow, cdStarted, cdRead, settledAtTime>>
      BY <1>3, <2>0, <2>0b DEF AppendSettle
    <3>2. new \in SettleRecord
      BY <2>0 DEF SettleRecord, SettleState
    <3>3. s \notin cdRead /\ cdRead \subseteq SettleIds
      BY <2>0, <2>0b DEF CdInv, CdTypeOK, CdReadFromStart, InsertSettle
    <3>4. /\ cdRows'[s] = new
          /\ \A t \in SettleIds \ {s} : cdRows'[t] = cdRows[t]
      BY <2>0, <3>1 DEF CdInv, CdTypeOK
    <3>5. CdTypeOK'
      <4>1. cdRows' \in [SettleIds -> SettleRecord]
        BY <3>1, <3>2 DEF CdInv, CdTypeOK
      <4>2. cdLate' \subseteq SettleIds
        BY <2>0, <3>1 DEF CdInv, CdTypeOK
      <4> QED BY <1>3, <3>1, <4>1, <4>2 DEF CdInv, CdTypeOK, AppendSettle
    <3>6. CdKey(s)' = [at |-> delivery[d].now, id |-> s]
      BY <2>0, <3>4 DEF CdKey, new
    <3>7. \A t \in SettleIds \ {s} : CdKey(t)' = CdKey(t) /\ (Verified(t)' <=> Verified(t))
      BY <3>4 DEF CdKey, Verified
    <3> HIDE DEF new
    <3>8. CdReadFromStart'
      <4>1. \A t \in cdRead' : cdRows'[t].state # "none"
        BY <3>1, <3>3, <3>4 DEF CdInv, CdReadFromStart
      <4>2. ASSUME NEW u \in cdRead', NEW t \in SettleIds, cdRows'[t].state # "none", CdBefore(CdKey(t)', CdKey(u)')
            PROVE  t \in cdRead' \cup cdLate'
        <5>1. u \in cdRead /\ u # s /\ u \in SettleIds /\ CdKey(u)' = CdKey(u)
          BY <3>1, <3>3, <3>7
        <5>2. CASE t = s
          BY <3>1, <3>6, <4>2, <5>1, <5>2
        <5>3. CASE t # s
          <6>1. CdBefore(CdKey(t), CdKey(u)) /\ cdRows[t].state # "none"
            BY <3>4, <3>7, <4>2, <5>1, <5>3
          <6> QED BY <3>1, <5>1, <6>1 DEF CdInv, CdReadFromStart
        <5> QED BY <5>2, <5>3
      <4> QED BY <4>1, <4>2 DEF CdReadFromStart, CdBefore, CdKey
    <3>9. CdPages'
      BY <3>1, <3>3, <3>7 DEF CdInv, CdPages, CdReached
    <3>10. CdSettled'
      BY <3>1, <3>3, <3>4, <2>0 DEF CdInv, CdSettled, Verified, ExpiresAt, new
    <3> QED BY <3>5, <3>8, <3>9, <3>10 DEF CdInv
  <2> QED BY <2>0a, <2>0b
<1>4. ASSUME NEW r \in Reconcilers, GetCursor(r)
      PROVE  CdInv'
  <2>1. CdTypeOK'
    <3>1. [IdleReconciler EXCEPT !.pc = "query", !.after = cdCursor] \in
             [pc : {"idle", "query", "confirm", "cursor"}, after : ReconciliationCursor,
              page : SUBSET SettleIds, confirmed : SUBSET SettleIds]
      BY DEF CdInv, CdTypeOK, IdleReconciler
    <3>2. cdStarted' \in 0..MaxReconciles
      BY <1>4 DEF CdInv, CdTypeOK, GetCursor
    <3> QED BY <1>4, <3>1, <3>2 DEF CdInv, CdTypeOK, GetCursor
  <2>2. CdReadFromStart'
    BY <1>4 DEF CdInv, CdReadFromStart, CdKey, CdBefore, GetCursor, IdleReconciler
  <2>3. CdPages'
    BY <1>4 DEF CdInv, CdPages, CdReached, CdKey, Verified, CdTypeOK, CdCursorStart, GetCursor,
                IdleReconciler
  <2>4. CdSettled'
    BY <1>4 DEF CdInv, CdSettled, Verified, ExpiresAt, GetCursor, IdleReconciler
  <2> QED BY <2>1, <2>2, <2>3, <2>4 DEF CdInv
<1>5. ASSUME NEW r \in Reconcilers, PullRecords(r)
      PROVE  CdInv'
  <2> DEFINE page == QuerySettles(recon[r].after)
  <2>0. page \subseteq SettleIds /\ \A s \in page : cdRows[s].state # "none"
    BY DEF QuerySettles
  <2> HIDE DEF page
  <2>1. CdTypeOK'
    <3>1. IdleReconciler \in [pc : {"idle", "query", "confirm", "cursor"}, after : ReconciliationCursor,
                              page : SUBSET SettleIds, confirmed : SUBSET SettleIds]
      BY DEF IdleReconciler, CdCursorStart, ReconciliationCursor, CdTime
    <3>2. [pc |-> "confirm", after |-> recon[r].after, page |-> page,
           confirmed |-> {s \in page : Verified(s) /\ cdRows[s].state = "PENDING"}] \in
             [pc : {"idle", "query", "confirm", "cursor"}, after : ReconciliationCursor,
              page : SUBSET SettleIds, confirmed : SUBSET SettleIds]
      BY <2>0 DEF CdInv, CdTypeOK
    <3> QED BY <1>5, <2>0, <3>1, <3>2 DEF CdInv, CdTypeOK, PullRecords, page
  <2>2. CdReadFromStart'
    <3>1. cdRead' = cdRead \cup page /\ UNCHANGED <<cdRows, cdLate>>
      BY <1>5 DEF PullRecords, page
    <3>2. \A s \in SettleIds : CdKey(s)' = CdKey(s)
      BY <3>1 DEF CdKey
    <3>3. cdRead \subseteq SettleIds /\ CdReached(recon[r].after) /\ recon[r].after \in ReconciliationCursor
      BY DEF CdInv, CdTypeOK, CdPages
    <3>4. ASSUME NEW u \in cdRead', NEW s \in SettleIds, cdRows[s].state # "none",
                 CdBefore(CdKey(s), CdKey(u))
          PROVE  s \in cdRead' \cup cdLate'
      <4>1. CASE u \in cdRead
        BY <3>1, <3>4, <4>1 DEF CdInv, CdReadFromStart
      <4>2. CASE u \in page
        <5>1. s \in page \cup cdRead \cup cdLate
          BY <3>3, <3>4, <4>2, CdPageIsClosed DEF page
        <5> QED BY <3>1, <5>1
      <4> QED BY <3>1, <4>1, <4>2
    <3>5. \A s \in cdRead' : cdRows'[s].state # "none"
      BY <2>0, <3>1 DEF CdInv, CdReadFromStart
    <3>6. \A u \in cdRead', s \in SettleIds : cdRows'[s].state # "none" /\ CdBefore(CdKey(s)', CdKey(u)')
             => s \in cdRead' \cup cdLate'
      BY <2>0, <3>1, <3>2, <3>3, <3>4
    <3> QED BY <3>5, <3>6 DEF CdReadFromStart, CdBefore, CdKey
  <2>3. CdPages'
    BY <1>5, <2>0 DEF CdInv, CdPages, CdReached, CdKey, Verified, CdTypeOK, CdCursorStart,
                      PullRecords, IdleReconciler
  <2>4. CdSettled'
    BY <1>5, <2>0 DEF CdInv, CdSettled, Verified, ExpiresAt, PullRecords, IdleReconciler
  <2> QED BY <2>1, <2>2, <2>3, <2>4 DEF CdInv
<1>6. ASSUME NEW r \in Reconcilers, ConfirmBatch(r)
      PROVE  CdInv'
  <2>0. \A s \in SettleIds : /\ cdRows'[s].createdAt = cdRows[s].createdAt
                             /\ cdRows'[s].canonical = cdRows[s].canonical
                             /\ cdRows'[s].state = "none" <=> cdRows[s].state = "none"
    BY <1>6 DEF CdInv, CdTypeOK, SettleRecord, ConfirmBatch, ConfirmSettle
  <2>0a. cdRead' = cdRead /\ cdLate' = cdLate
    BY <1>6 DEF ConfirmBatch
  <2>0b. CdReadFromStart' /\ \A s \in SettleIds : CdKey(s)' = CdKey(s) /\ (Verified(s)' <=> Verified(s))
    BY <2>0, <2>0a, CdKept, Zenon
  <2>0c. cdRead \subseteq SettleIds
    BY DEF CdInv, CdTypeOK
  <2>1. CdTypeOK'
    <3>1. \A s \in SettleIds : [cdRows[s] EXCEPT !.state = "SETTLED"] \in SettleRecord
      BY DEF CdInv, CdTypeOK, SettleRecord, SettleState
    <3>2. [recon[r] EXCEPT !.pc = "cursor"] \in
             [pc : {"idle", "query", "confirm", "cursor"}, after : ReconciliationCursor,
              page : SUBSET SettleIds, confirmed : SUBSET SettleIds]
      BY DEF CdInv, CdTypeOK
    <3>3. cdRows' \in [SettleIds -> SettleRecord]
      BY <1>6, <3>1 DEF CdInv, CdTypeOK, ConfirmBatch
    <3>4. settledAtTime' \in [SettleIds -> CdTime]
      BY <1>6 DEF CdInv, CdTypeOK, ConfirmBatch
    <3>5. recon' \in [Reconcilers -> [pc : {"idle", "query", "confirm", "cursor"}, after : ReconciliationCursor,
                                      page : SUBSET SettleIds, confirmed : SUBSET SettleIds]]
      BY <1>6, <3>2 DEF CdInv, CdTypeOK, ConfirmBatch
    <3> QED BY <1>6, <3>3, <3>4, <3>5 DEF CdInv, CdTypeOK, ConfirmBatch
  <2>2. CdReadFromStart'
    BY <2>0b
  <2>3. CdPages'
    <3>1. CdReached(cdCursor)'
      BY <1>6, <2>0a, <2>0b, <2>0c DEF CdInv, CdPages, CdReached, ConfirmBatch
    <3>2. \A q \in Reconcilers : /\ recon'[q].after = recon[q].after /\ recon'[q].page = recon[q].page
                                 /\ recon'[q].confirmed = recon[q].confirmed
                                 /\ recon'[q].pc \in {"confirm", "cursor"} => recon[q].pc \in {"confirm", "cursor"}
      BY <1>6 DEF CdInv, CdTypeOK, ConfirmBatch
    <3>3. \A q \in Reconcilers : CdReached(recon[q].after)' /\ recon[q].confirmed \subseteq SettleIds
      BY <2>0a, <2>0b, <2>0c, <3>2 DEF CdInv, CdTypeOK, CdPages, CdReached
    <3> QED BY <2>0a, <2>0b, <3>1, <3>2, <3>3 DEF CdInv, CdPages
  <2>4. CdSettled'
    <3> SUFFICES ASSUME NEW s \in SettleIds, cdRows'[s].state = "SETTLED"
                 PROVE  s \in cdRead' /\ Verified(s)' /\ settledAtTime'[s] < ExpiresAt(s)'
      BY DEF CdSettled
    <3>1. CASE s \in recon[r].confirmed /\ ConfirmSettle(s)
      <4>1. settledAtTime'[s] = cdNow /\ cdNow < ExpiresAt(s) /\ ExpiresAt(s)' = ExpiresAt(s)
        BY <1>6, <2>0, <3>1 DEF CdInv, CdTypeOK, ConfirmBatch, ConfirmSettle, ExpiresAt, SettleRecord, CdTime
      <4> QED BY <2>0a, <2>0b, <3>1, <4>1 DEF CdInv, CdPages
    <3>2. CASE ~(s \in recon[r].confirmed /\ ConfirmSettle(s))
      <4>1. settledAtTime'[s] = settledAtTime[s] /\ cdRows'[s] = cdRows[s]
        BY <1>6, <3>2 DEF ConfirmBatch
      <4> QED BY <2>0a, <2>0b, <4>1 DEF CdInv, CdSettled, ExpiresAt
    <3> QED BY <3>1, <3>2
  <2> QED BY <2>1, <2>2, <2>3, <2>4 DEF CdInv
<1>7. ASSUME NEW r \in Reconcilers, UpdateCursor(r)
      PROVE  CdInv'
  <2>0. LastOf(recon[r].page) \in recon[r].page
    BY <1>7, CdLastIn DEF CdInv, CdTypeOK, CdPages, UpdateCursor
  <2>0a. LastOf(recon[r].page) \in cdRead /\ LastOf(recon[r].page) \in SettleIds
    BY <2>0 DEF CdInv, CdTypeOK, CdPages
  <2> DEFINE last == LastOf(recon[r].page)
  <2>0b. cdCursor' = CdKey(last) /\ UNCHANGED <<cdRows, delivery, cdNow, cdStarted, cdRead, cdLate, settledAtTime>>
    BY <1>7 DEF UpdateCursor
  <2> HIDE DEF last
  <2>1. CdTypeOK'
    <3>1. CdKey(last) \in ReconciliationCursor
      BY <2>0a DEF CdInv, CdTypeOK, CdKey, ReconciliationCursor, SettleRecord, SettleIds, last
    <3>2. recon' \in [Reconcilers -> [pc : {"idle", "query", "confirm", "cursor"}, after : ReconciliationCursor,
                                      page : SUBSET SettleIds, confirmed : SUBSET SettleIds]]
      BY <1>7 DEF CdInv, CdTypeOK, UpdateCursor, IdleReconciler, CdCursorStart, ReconciliationCursor, CdTime
    <3> QED BY <2>0b, <3>1, <3>2 DEF CdInv, CdTypeOK
  <2>2. CdReadFromStart'
    BY <1>7, <2>0, <2>0a, <2>0b DEF CdInv, CdReadFromStart, CdKey, CdBefore, UpdateCursor,
                                    IdleReconciler
  <2>3. CdPages'
    <3>1. \A s \in SettleIds : CdKey(s)' = CdKey(s) /\ (Verified(s)' <=> Verified(s))
      BY <2>0b DEF CdKey, Verified
    <3>2. CdReached(cdCursor)'
      BY <2>0a, <2>0b, <3>1 DEF CdReached, last
    <3>3. \A q \in Reconcilers : recon'[q] = IF q = r THEN IdleReconciler ELSE recon[q]
      BY <1>7 DEF CdInv, CdTypeOK, UpdateCursor
    <3>4. \A c : CdReached(c) => (c = CdCursorStart \/ \E v \in cdRead' : c = CdKey(v)')
      BY <2>0b, <3>1 DEF CdInv, CdTypeOK, CdReached
    <3>5. \A q \in Reconcilers : CdReached(recon[q].after)'
      BY <3>3, <3>4 DEF CdInv, CdPages, CdReached, IdleReconciler
    <3> QED BY <2>0b, <3>1, <3>2, <3>3, <3>5 DEF CdInv, CdTypeOK, CdPages, IdleReconciler
  <2>4. CdSettled'
    BY <1>7, <2>0, <2>0a, <2>0b DEF CdInv, CdSettled, Verified, ExpiresAt, UpdateCursor,
                                    IdleReconciler
  <2> QED BY <2>1, <2>2, <2>3, <2>4 DEF CdInv
<1>8. ASSUME NEW r \in Reconcilers, ReconcileFails(r)
      PROVE  CdInv'
  <2>1. CdTypeOK'
    BY <1>8 DEF CdInv, CdTypeOK, SettleRecord, SettleState, CdTime, ReconciliationCursor,
                CdCursorStart, ReconcileFails, IdleReconciler
  <2>2. CdReadFromStart'
    BY <1>8 DEF CdInv, CdReadFromStart, CdKey, CdBefore, ReconcileFails, IdleReconciler
  <2>3. CdPages'
    BY <1>8 DEF CdInv, CdPages, CdReached, CdKey, Verified, CdTypeOK, CdCursorStart,
                ReconcileFails, IdleReconciler
  <2>4. CdSettled'
    BY <1>8 DEF CdInv, CdSettled, Verified, ExpiresAt, ReconcileFails, IdleReconciler
  <2> QED BY <2>1, <2>2, <2>3, <2>4 DEF CdInv
<1>9. ASSUME ReapExpiredPending
      PROVE  CdInv'
  <2>0. \A s \in SettleIds : /\ cdRows'[s].createdAt = cdRows[s].createdAt
                             /\ cdRows'[s].canonical = cdRows[s].canonical
                             /\ cdRows'[s].state = "none" <=> cdRows[s].state = "none"
    BY <1>9 DEF CdInv, CdTypeOK, SettleRecord, ReapExpiredPending, Reapable
  <2>0a. cdRead' = cdRead /\ cdLate' = cdLate
    BY <1>9 DEF ReapExpiredPending
  <2>0b. CdReadFromStart' /\ \A s \in SettleIds : CdKey(s)' = CdKey(s) /\ (Verified(s)' <=> Verified(s))
    BY <2>0, <2>0a, CdKept, Zenon
  <2>0c. cdRead \subseteq SettleIds
    BY DEF CdInv, CdTypeOK
  <2>1. CdTypeOK'
    BY <1>9, <2>0, <2>0a, <2>0b, <2>0c DEF CdInv, CdTypeOK, SettleRecord, SettleState, CdTime,
                                           ReconciliationCursor, CdCursorStart, ReapExpiredPending
  <2>2. CdReadFromStart'
    BY <2>0b
  <2>3. CdPages'
    <3>1. cdCursor' = cdCursor /\ recon' = recon
      BY <1>9 DEF ReapExpiredPending
    <3>2. \A c : CdReached(c) => (c = CdCursorStart \/ \E v \in cdRead' : c = CdKey(v)')
      BY <2>0a, <2>0b, <2>0c DEF CdReached
    <3>3. CdReached(cdCursor)' /\ \A q \in Reconcilers : CdReached(recon[q].after)' /\ recon[q].confirmed \subseteq SettleIds
      BY <3>1, <3>2 DEF CdInv, CdTypeOK, CdPages, CdReached
    <3> QED BY <2>0a, <2>0b, <3>1, <3>3 DEF CdInv, CdPages
  <2>4. CdSettled'
    BY <1>9, <2>0, <2>0a, <2>0b, <2>0c DEF CdInv, CdSettled, Verified, ExpiresAt,
                                           ReapExpiredPending
  <2> QED BY <2>1, <2>2, <2>3, <2>4 DEF CdInv
<1>10. ASSUME CdTick
      PROVE  CdInv'
  <2>1. CdTypeOK'
    BY <1>10 DEF CdInv, CdTypeOK, SettleRecord, SettleState, CdTime, ReconciliationCursor,
                 CdCursorStart, CdTick
  <2>2. CdReadFromStart'
    BY <1>10 DEF CdInv, CdReadFromStart, CdKey, CdBefore, CdTick
  <2>3. CdPages'
    BY <1>10 DEF CdInv, CdPages, CdReached, CdKey, Verified, CdTypeOK, CdCursorStart, CdTick
  <2>4. CdSettled'
    BY <1>10 DEF CdInv, CdSettled, Verified, ExpiresAt, CdTick
  <2> QED BY <2>1, <2>2, <2>3, <2>4 DEF CdInv
<1>11. CASE UNCHANGED cdVars
  BY <1>11 DEF CdInv, CdTypeOK, CdReadFromStart, CdPages, CdSettled, SettleRecord, SettleState,
               CdTime, ReconciliationCursor, CdCursorStart, CdReached, CdKey, CdBefore, Verified,
               ExpiresAt, SettleIds, cdVars
<1> QED BY <1>1, <1>2, <1>3, <1>4, <1>5, <1>6, <1>7, <1>8, <1>9, <1>10, <1>11 DEF CdNext

LEMMA CdStart == CdInit => CdInv
BY CdAssumption DEF CdInit, CdInv, CdTypeOK, SettleRecord, SettleState, CdTime, ReconciliationCursor,
   CdCursorStart, CdReadFromStart, CdPages, CdReached, CdSettled, IdleReconciler, NoSettle, SettleIds

\* What is read from the start leaves behind the cursor nothing but late records.
LEMMA CdConcludes == CdInv => CdTypeOK /\ CursorSkipsOnlyLateRows
<1> SUFFICES ASSUME CdInv PROVE CdTypeOK /\ CursorSkipsOnlyLateRows
  OBVIOUS
<1>1. CdTypeOK
  BY DEF CdInv
<1>2. ASSUME NEW s \in SettleIds, cdRows[s].state # "none", ~AfterCursor(s, cdCursor)
      PROVE  s \in cdRead \cup cdLate
  <2>1. PICK v \in cdRead : cdCursor = CdKey(v)
    BY <1>2 DEF CdInv, CdPages, CdReached, AfterCursor, CdCursorStart
  <2>2. v \in SettleIds
    BY DEF CdInv, CdTypeOK
  <2>3. s = v \/ CdBefore(CdKey(s), CdKey(v))
    BY <1>1, <1>2, <2>1, <2>2, CdOrder DEF AfterCursor
  <2> QED BY <1>2, <2>1, <2>3 DEF CdInv, CdReadFromStart
<1> QED BY <1>1, <1>2 DEF CdInv, CdSettled, CursorSkipsOnlyLateRows

-----------------------------------------------------------------------------
(* Policy changes: the chains of the policy changes.                       *)

\* Where a transaction holds its agent's chain.
PcHolding == {"prev", "insert", "commit"}
PcAgent(w) == PcAgentOf[pcCall[w].policy]

\* One transaction at a time changes a policy, to the version after the committed one.
PcRowsLocked ==
    /\ \A v, w \in PcWriters :
          v # w /\ pcCall[v].pc # "idle" /\ pcCall[w].pc # "idle" => pcCall[v].policy # pcCall[w].policy
    /\ \A w \in PcWriters : pcCall[w].pc # "idle" =>
          pcCall[w].version = policies[pcCall[w].policy] + 1 /\ pcCall[w].version <= pcCalls
    /\ \A p \in PcPolicies : policies[p] <= pcCalls

\* One transaction at a time holds a chain.
PcChainsLocked ==
    /\ \A w \in PcWriters : pcCall[w].pc \in PcHolding => chainLock[PcAgent(w)] = w
    /\ \A a \in PcAgents, w \in PcWriters : chainLock[a] = w => pcCall[w].pc \in PcHolding /\ PcAgent(w) = a

\* Ids are given once, and the holder of a chain gets one behind all of it.
PcIdsGiven ==
    /\ \A i \in PcIds : Stored(i) => i < pcNextId
    /\ \A w \in PcWriters : pcCall[w].pc = "commit" =>
          /\ pcCall[w].id \in PcIds /\ pcCall[w].id < pcNextId /\ ~Stored(pcCall[w].id)
          /\ \A i \in ChainOf(PcAgent(w)) : i < pcCall[w].id
    /\ \A v, w \in PcWriters :
          v # w /\ pcCall[v].pc = "commit" /\ pcCall[w].pc = "commit" => pcCall[v].id # pcCall[w].id

\* What was read as the end of the chain is still its end.
PcPrevious ==
    \A w \in PcWriters : pcCall[w].pc \in {"insert", "commit"} => pcCall[w].prev = LastId(ChainOf(PcAgent(w)))

\* The records are those of the committed versions, one each.
PcOneRecord ==
    /\ \A i \in PcIds : Stored(i) => /\ pcTable[i].agent = PcAgentOf[pcTable[i].policy]
                                     /\ pcTable[i].version <= policies[pcTable[i].policy]
    /\ \A p \in PcPolicies, v \in 1..MaxPcCalls : v <= policies[p] =>
          \E i \in PcIds : Stored(i) /\ pcTable[i].policy = p /\ pcTable[i].version = v
    /\ \A i, j \in PcIds : Stored(i) /\ Stored(j) /\ pcTable[i].policy = pcTable[j].policy
                             /\ pcTable[i].version = pcTable[j].version => i = j

PcLinked ==
    \A a \in PcAgents : \A i \in ChainOf(a) : pcTable[i].prev = LastId({j \in ChainOf(a) : j < i})

\* A reader's cursor is a record of the chain it reads.
PcCursors ==
    \A r \in PcReaders : pcReader[r].agent # Free =>
        pcReader[r].cursor = 0 \/ pcReader[r].cursor \in ChainOf(pcReader[r].agent)

PcInv ==
    /\ PcTypeOK /\ PcRowsLocked /\ PcChainsLocked /\ PcIdsGiven /\ PcPrevious
    /\ PcOneRecord /\ PcLinked /\ PcCursors /\ FilteredPagesSkipNothing


PcCallState == [pc : {"idle", "lock", "prev", "insert", "commit"}, policy : PcPolicies,
                version : 0..MaxPcCalls, prev : 0..MaxPcIds, id : 0..MaxPcIds]

\* The last of a set of ids.
LEMMA PcLastId ==
    ASSUME NEW S \in SUBSET PcIds
    PROVE  /\ LastId(S) \in 0..MaxPcIds
           /\ S # {} => LastId(S) \in S /\ \A j \in S : j <= LastId(S)
<1>1. CASE S = {}
  BY <1>1, PcAssumption DEF LastId
<1>2. CASE S # {}
  <2>1. S \in SUBSET (0..MaxPcIds) /\ MaxPcIds \in Nat
    BY PcAssumption DEF PcIds
  <2>2. \E i \in S : \A j \in S : j <= i
    BY <1>2, <2>1, GreatestNat
  <2> QED BY <1>2, <2>1, <2>2 DEF LastId
<1> QED BY <1>1, <1>2

LEMMA PcIdleTyped == IdlePc \in PcCallState /\ IdlePc.pc = "idle"
BY PcAssumption DEF IdlePc, PcCallState

\* What the table and the readers say stays true while they are left alone.
LEMMA PcTableKept ==
    ASSUME PcInv, UNCHANGED <<policies, pcTable>>
    PROVE  /\ PcOneRecord' /\ PcLinked'
           /\ \A i \in PcIds : Stored(i)' <=> Stored(i)
           /\ \A a \in PcAgents : ChainOf(a)' = ChainOf(a)
BY DEF PcInv, PcOneRecord, PcLinked, Stored, ChainOf

LEMMA PcReadersKept ==
    ASSUME PcInv, UNCHANGED <<pcTable, pcReader>>
    PROVE  PcCursors' /\ FilteredPagesSkipNothing'
BY DEF PcInv, PcCursors, FilteredPagesSkipNothing, Stored, ChainOf

\* A page leaves nothing out before its last record.
LEMMA PcPageIsClosed ==
    ASSUME NEW listed \in SUBSET PcIds, NEW u \in PageOf(listed), NEW i \in listed, i < u
    PROVE  i \in PageOf(listed)
<1> DEFINE below(x) == {j \in listed : j < x}
<1>1. u \in listed /\ Cardinality(below(u)) < PcPageLimit
  BY DEF PageOf
<1>2. below(i) \subseteq below(u)
  <2>1. \A x \in listed : x \in Int
    BY PcAssumption DEF PcIds
  <2> QED BY <1>1, <2>1
<1>3. IsFiniteSet(below(u))
  <2>1. IsFiniteSet(PcIds)
    BY PcAssumption, FS_Interval DEF PcIds
  <2>2. below(u) \in SUBSET PcIds
    OBVIOUS
  <2> HIDE DEF below
  <2> QED BY <2>1, <2>2, FS_Subset
<1>4. /\ Cardinality(below(i)) <= Cardinality(below(u))
      /\ Cardinality(below(i)) \in Nat /\ Cardinality(below(u)) \in Nat
  <2> HIDE DEF below
  <2> QED BY <1>2, <1>3, FS_Subset, FS_CardinalityType
<1>5. Cardinality(below(i)) < PcPageLimit
  <2> HIDE DEF below
  <2> QED BY <1>1, <1>4, PcAssumption
<1> QED BY <1>5 DEF PageOf

\* The inductive step.
LEMMA PcStep == PcInv /\ [PcNext]_pcVars => PcInv'
<1> SUFFICES ASSUME PcInv, [PcNext]_pcVars PROVE PcInv'
  OBVIOUS
<1>1. ASSUME NEW w \in PcWriters, NEW p \in PcPolicies, RunOperation(w, p)
      PROVE  PcInv'
  <2> DEFINE k == [IdlePc EXCEPT !.pc = "lock", !.policy = p, !.version = policies[p] + 1]
  <2>a. pcCall' = [pcCall EXCEPT ![w] = k] /\ UNCHANGED <<policies, pcTable, pcNextId, chainLock, pcReader>>
    BY <1>1 DEF RunOperation, PcGoto
  <2>b. pcCall[w] \in PcCallState
    BY DEF PcInv, PcTypeOK, PcCallState
  <2>c. k \in PcCallState
    <3>1. policies[p] + 1 \in 0..MaxPcCalls
      BY <1>1, PcAssumption DEF PcInv, PcTypeOK, PcRowsLocked, RunOperation
    <3> QED BY <3>1, PcIdleTyped DEF PcCallState
  <2>d. k.pc = "lock" /\ k.policy = p /\ k.version = policies[p] + 1
    BY PcIdleTyped DEF PcCallState
  <2>e. PcOneRecord' /\ PcLinked' /\ (\A i \in PcIds : Stored(i)' <=> Stored(i)) /\ (\A b \in PcAgents : ChainOf(b)' = ChainOf(b))
    BY <2>a, PcTableKept
  <2>f. \A v \in PcWriters : pcCall'[v] = IF v = w THEN k ELSE pcCall[v]
    BY <2>a DEF PcInv, PcTypeOK
  <2>g. \A v \in PcWriters : PcAgent(v) \in PcAgents
    BY DEF PcInv, PcTypeOK, PcAgents, PcAgent

  <2> HIDE DEF k
  <2>1. PcTypeOK'
    <3>1. pcCalls' \in 0..MaxPcCalls
      BY <1>1, PcAssumption DEF PcInv, PcTypeOK, RunOperation
    <3> QED BY <2>a, <2>c, <3>1 DEF PcInv, PcTypeOK, PcCallState
  <2>2. PcRowsLocked'
    BY <1>1, <2>a, <2>b, <2>d, <2>f DEF PcInv, PcRowsLocked, PcTypeOK, RunOperation
  <2>3. PcChainsLocked'
    BY <1>1, <2>a, <2>b, <2>d, <2>f, <2>g DEF PcInv, PcChainsLocked, PcAgent, PcHolding, PcTypeOK, RunOperation
  <2>4. PcIdsGiven'
    BY <1>1, <2>a, <2>d, <2>e, <2>f, <2>g DEF PcInv, PcIdsGiven, PcAgent, PcTypeOK, RunOperation
  <2>5. PcPrevious'
    BY <1>1, <2>a, <2>d, <2>e, <2>f, <2>g DEF PcInv, PcPrevious, PcAgent, RunOperation
  <2>6. PcOneRecord'
    BY <2>e
  <2>7. PcLinked'
    BY <2>e
  <2>8. PcCursors'
    BY <2>a, PcReadersKept
  <2>9. FilteredPagesSkipNothing'
    BY <2>a, PcReadersKept
  <2> QED BY <2>1, <2>2, <2>3, <2>4, <2>5, <2>6, <2>7, <2>8, <2>9 DEF PcInv
<1>2. ASSUME NEW w \in PcWriters, LockPolicyChain(w)
      PROVE  PcInv'
  <2> DEFINE k == [pcCall[w] EXCEPT !.pc = "prev"]
  <2>a. pcCall' = [pcCall EXCEPT ![w] = k] /\ UNCHANGED <<policies, pcTable, pcNextId, pcReader, pcCalls>>
    BY <1>2 DEF LockPolicyChain, PcGoto
  <2>b. pcCall[w] \in PcCallState
    BY DEF PcInv, PcTypeOK, PcCallState
  <2>c. k \in PcCallState
    BY <2>b DEF PcCallState
  <2>d. k.pc = "prev" /\ k.policy = pcCall[w].policy /\ k.version = pcCall[w].version
    BY <2>b DEF PcCallState
  <2>e. PcOneRecord' /\ PcLinked' /\ (\A i \in PcIds : Stored(i)' <=> Stored(i)) /\ (\A b \in PcAgents : ChainOf(b)' = ChainOf(b))
    BY <2>a, PcTableKept
  <2>f. \A v \in PcWriters : pcCall'[v] = IF v = w THEN k ELSE pcCall[v]
    BY <2>a DEF PcInv, PcTypeOK
  <2>g. \A v \in PcWriters : PcAgent(v) \in PcAgents
    BY DEF PcInv, PcTypeOK, PcAgents, PcAgent
  <2>h. chainLock[PcAgent(w)] = Free /\ chainLock' = [chainLock EXCEPT ![PcAgent(w)] = w] /\ pcCall[w].pc = "lock"
    BY <1>2 DEF LockPolicyChain, LockChain, PcAgent
  <2> HIDE DEF k
  <2>1. PcTypeOK'
    BY <2>a, <2>c, <2>g, <2>h DEF PcInv, PcTypeOK, PcCallState
  <2>2. PcRowsLocked'
    BY <1>2, <2>a, <2>b, <2>d, <2>f DEF PcInv, PcRowsLocked, PcTypeOK, LockPolicyChain
  <2>3. PcChainsLocked'
    <3>1. \A v \in PcWriters : PcAgent(v)' = PcAgent(v)
      BY <2>d, <2>f DEF PcAgent
    <3>2. PcAgent(w) \in PcAgents /\ \A b \in PcAgents : chainLock'[b] = IF b = PcAgent(w) THEN w ELSE chainLock[b]
      BY <2>g, <2>h DEF PcInv, PcTypeOK
    <3>3. ASSUME NEW v \in PcWriters, pcCall'[v].pc \in PcHolding PROVE chainLock'[PcAgent(v)'] = v
      BY <2>d, <2>f, <2>g, <2>h, <3>1, <3>2, <3>3, PcAssumption DEF PcInv, PcChainsLocked, PcHolding
    <3>4. ASSUME NEW b \in PcAgents, NEW v \in PcWriters, chainLock'[b] = v
          PROVE  pcCall'[v].pc \in PcHolding /\ PcAgent(v)' = b
      BY <2>d, <2>f, <2>h, <3>1, <3>2, <3>4 DEF PcInv, PcChainsLocked, PcHolding
    <3> QED BY <3>3, <3>4 DEF PcChainsLocked, PcAgent
  <2>4. PcIdsGiven'
    BY <1>2, <2>a, <2>d, <2>e, <2>f, <2>g DEF PcInv, PcIdsGiven, PcAgent, PcTypeOK, LockPolicyChain
  <2>5. PcPrevious'
    BY <1>2, <2>a, <2>d, <2>e, <2>f, <2>g DEF PcInv, PcPrevious, PcAgent, LockPolicyChain
  <2>6. PcOneRecord'
    BY <2>e
  <2>7. PcLinked'
    BY <2>e
  <2>8. PcCursors'
    BY <2>a, PcReadersKept
  <2>9. FilteredPagesSkipNothing'
    BY <2>a, PcReadersKept
  <2> QED BY <2>1, <2>2, <2>3, <2>4, <2>5, <2>6, <2>7, <2>8, <2>9 DEF PcInv
<1>3. ASSUME NEW w \in PcWriters, SelectPrevious(w)
      PROVE  PcInv'
  <2> DEFINE k == [pcCall[w] EXCEPT !.pc = "insert", !.prev = LastId(ChainOf(PcAgent(w)))]
  <2>a. pcCall' = [pcCall EXCEPT ![w] = k] /\ UNCHANGED <<policies, pcTable, pcNextId, chainLock, pcReader, pcCalls>>
    BY <1>3 DEF SelectPrevious, PcGoto, PcAgent
  <2>b. pcCall[w] \in PcCallState
    BY DEF PcInv, PcTypeOK, PcCallState
  <2>c. k \in PcCallState
    BY <2>b, PcLastId DEF PcCallState, ChainOf
  <2>d. k.pc = "insert" /\ k.policy = pcCall[w].policy /\ k.version = pcCall[w].version /\ k.prev = LastId(ChainOf(PcAgent(w)))
    BY <2>b DEF PcCallState
  <2>e. PcOneRecord' /\ PcLinked' /\ (\A i \in PcIds : Stored(i)' <=> Stored(i)) /\ (\A b \in PcAgents : ChainOf(b)' = ChainOf(b))
    BY <2>a, PcTableKept
  <2>f. \A v \in PcWriters : pcCall'[v] = IF v = w THEN k ELSE pcCall[v]
    BY <2>a DEF PcInv, PcTypeOK
  <2>g. \A v \in PcWriters : PcAgent(v) \in PcAgents
    BY DEF PcInv, PcTypeOK, PcAgents, PcAgent
  <2>h. PcAgent(w)' = PcAgent(w)
    BY <2>d, <2>f DEF PcAgent
  <2> HIDE DEF k
  <2>1. PcTypeOK'
    BY <1>3, <2>a, <2>c DEF PcInv, PcTypeOK, PcCallState, SelectPrevious
  <2>2. PcRowsLocked'
    BY <1>3, <2>a, <2>b, <2>d, <2>f DEF PcInv, PcRowsLocked, PcTypeOK, SelectPrevious
  <2>3. PcChainsLocked'
    BY <1>3, <2>a, <2>b, <2>d, <2>f, <2>g DEF PcInv, PcChainsLocked, PcAgent, PcHolding, PcTypeOK, SelectPrevious
  <2>4. PcIdsGiven'
    BY <1>3, <2>a, <2>d, <2>e, <2>f, <2>g DEF PcInv, PcIdsGiven, PcAgent, PcTypeOK, SelectPrevious
  <2>5. PcPrevious'
    BY <2>d, <2>e, <2>f, <2>g, <2>h DEF PcInv, PcPrevious, PcAgent
  <2>6. PcOneRecord'
    BY <2>e
  <2>7. PcLinked'
    BY <2>e
  <2>8. PcCursors'
    BY <2>a, PcReadersKept
  <2>9. FilteredPagesSkipNothing'
    BY <2>a, PcReadersKept
  <2> QED BY <2>1, <2>2, <2>3, <2>4, <2>5, <2>6, <2>7, <2>8, <2>9 DEF PcInv
<1>4. ASSUME NEW w \in PcWriters, InsertChangeRecord(w)
      PROVE  PcInv'
  <2> DEFINE k == [pcCall[w] EXCEPT !.pc = "commit", !.id = pcNextId]
  <2>a. pcCall' = [pcCall EXCEPT ![w] = k] /\ UNCHANGED <<policies, pcTable, chainLock, pcReader, pcCalls>>
    BY <1>4 DEF InsertChangeRecord, PcGoto
  <2>b. pcCall[w] \in PcCallState
    BY DEF PcInv, PcTypeOK, PcCallState
  <2>c. k \in PcCallState
    <3>1. pcNextId \in 0..MaxPcIds
      BY <1>4, PcAssumption DEF PcInv, PcTypeOK, InsertChangeRecord
    <3> QED BY <2>b, <3>1 DEF PcCallState
  <2>d. k.pc = "commit" /\ k.policy = pcCall[w].policy /\ k.version = pcCall[w].version /\ k.prev = pcCall[w].prev /\ k.id = pcNextId
    BY <2>b DEF PcCallState
  <2>e. PcOneRecord' /\ PcLinked' /\ (\A i \in PcIds : Stored(i)' <=> Stored(i)) /\ (\A b \in PcAgents : ChainOf(b)' = ChainOf(b))
    BY <2>a, PcTableKept
  <2>f. \A v \in PcWriters : pcCall'[v] = IF v = w THEN k ELSE pcCall[v]
    BY <2>a DEF PcInv, PcTypeOK
  <2>g. \A v \in PcWriters : PcAgent(v) \in PcAgents
    BY DEF PcInv, PcTypeOK, PcAgents, PcAgent
  <2>h. pcCall[w].pc = "insert" /\ pcNextId \in PcIds /\ pcNextId' = pcNextId + 1
    BY <1>4, PcAssumption DEF PcInv, PcTypeOK, PcIds, InsertChangeRecord
  <2> HIDE DEF k
  <2>1. PcTypeOK'
    <3>1. pcNextId' \in 1..(MaxPcIds + 1)
      BY <2>h, PcAssumption DEF PcIds
    <3> QED BY <2>a, <2>c, <3>1 DEF PcInv, PcTypeOK, PcCallState
  <2>2. PcRowsLocked'
    BY <1>4, <2>a, <2>b, <2>d, <2>f DEF PcInv, PcRowsLocked, PcTypeOK, InsertChangeRecord
  <2>3. PcChainsLocked'
    BY <1>4, <2>a, <2>b, <2>d, <2>f, <2>g DEF PcInv, PcChainsLocked, PcAgent, PcHolding, PcTypeOK, InsertChangeRecord
  <2>4. PcIdsGiven'
    <3>1. \A v \in PcWriters : PcAgent(v)' = PcAgent(v)
      BY <2>d, <2>f DEF PcAgent
    <3>2. ~Stored(pcNextId) /\ \A i \in PcIds : Stored(i) => i < pcNextId /\ i < pcNextId'
      BY <2>h DEF PcInv, PcIdsGiven, PcIds
    <3>3. ASSUME NEW v \in PcWriters, pcCall'[v].pc = "commit"
          PROVE  /\ pcCall'[v].id \in PcIds /\ pcCall'[v].id < pcNextId' /\ ~Stored(pcCall'[v].id)
                 /\ \A i \in ChainOf(PcAgent(v)) : i < pcCall'[v].id
      <4>1. CASE v = w
        BY <2>d, <2>f, <2>h, <3>2, <4>1 DEF PcIds, ChainOf
      <4>2. CASE v # w
        BY <2>f, <2>h, <3>3, <4>2 DEF PcInv, PcIdsGiven, PcIds
      <4> QED BY <4>1, <4>2
    <3>4. \A u, v \in PcWriters :
              u # v /\ pcCall'[u].pc = "commit" /\ pcCall'[v].pc = "commit" => pcCall'[u].id # pcCall'[v].id
      BY <2>d, <2>f, <2>h DEF PcInv, PcIdsGiven, PcIds
    <3>5. \A v \in PcWriters : pcCall'[v].pc = "commit" => ~Stored(pcCall[v].id)'
                                 /\ \A i \in ChainOf(PcAgent(v))' : i < pcCall'[v].id
      BY <2>a, <2>e, <2>g, <3>1, <3>3 DEF Stored, ChainOf
    <3> QED BY <2>e, <3>2, <3>3, <3>4, <3>5 DEF PcIdsGiven
  <2>5. PcPrevious'
    BY <1>4, <2>a, <2>d, <2>e, <2>f, <2>g DEF PcInv, PcPrevious, PcAgent, InsertChangeRecord
  <2>6. PcOneRecord'
    BY <2>e
  <2>7. PcLinked'
    BY <2>e
  <2>8. PcCursors'
    BY <2>a, PcReadersKept
  <2>9. FilteredPagesSkipNothing'
    BY <2>a, PcReadersKept
  <2> QED BY <2>1, <2>2, <2>3, <2>4, <2>5, <2>6, <2>7, <2>8, <2>9 DEF PcInv
<1>5. ASSUME NEW w \in PcWriters, CommitChange(w)
      PROVE  PcInv'
  <2> DEFINE c == pcCall[w]
             row == [agent |-> PcAgentOf[c.policy], policy |-> c.policy, version |-> c.version, prev |-> c.prev]
  <2>a. /\ pcCall' = [pcCall EXCEPT ![w] = IdlePc] /\ UNCHANGED <<pcNextId, pcReader, pcCalls>>
        /\ policies' = [policies EXCEPT ![c.policy] = c.version] /\ pcTable' = [pcTable EXCEPT ![c.id] = row]
        /\ c.pc = "commit"
    BY <1>5 DEF CommitChange, CommitTogether, PcGoto
  <2>b. c \in PcCallState /\ c.policy \in PcPolicies
    BY DEF PcInv, PcTypeOK, PcCallState
  <2>d. IdlePc.pc = "idle"
    BY PcIdleTyped
  <2>f. \A v \in PcWriters : pcCall'[v] = IF v = w THEN IdlePc ELSE pcCall[v]
    BY <2>a DEF PcInv, PcTypeOK
  <2>g. \A v \in PcWriters : PcAgent(v) \in PcAgents
    BY DEF PcInv, PcTypeOK, PcAgents, PcAgent
  <2>h. chainLock' = Unlocked(w)
    BY <1>5 DEF CommitChange
  <2>i. PICK n \in PcIds : n = c.id /\ n < pcNextId /\ ~Stored(n) /\ \A i \in ChainOf(PcAgent(w)) : i < n
    BY <2>a DEF PcInv, PcIdsGiven
  <2>j. c.version = policies[c.policy] + 1 /\ c.version <= pcCalls /\ c.version \in 1..MaxPcCalls
        /\ \A p \in PcPolicies : policies[p] \in Nat
    BY <2>a, <2>b, PcAssumption DEF PcInv, PcRowsLocked, PcTypeOK
  <2>k. row \in PcRow /\ row # NoPcRow /\ row.agent = PcAgent(w) /\ row.policy = c.policy /\ row.version = c.version
        /\ row.prev = c.prev
    BY <2>b, <2>j, PcAssumption DEF PcRow, NoPcRow, PcAgents, PcCallState, PcAgent
  <2>l. PICK q \in PcPolicies, a \in PcAgents : q = c.policy /\ a = PcAgent(w)
    BY <2>b, <2>g
  <2> DEFINE new == row
  <2>m. /\ \A i \in PcIds : pcTable'[i] = IF i = n THEN new ELSE pcTable[i]
        /\ \A p \in PcPolicies : policies'[p] = IF p = q THEN policies[q] + 1 ELSE policies[p]
    BY <2>a, <2>i, <2>j, <2>l DEF PcInv, PcTypeOK
  <2> HIDE DEF new
  <2>n. \A i \in PcIds : Stored(i)' <=> (i = n \/ Stored(i))
    BY <2>k, <2>m DEF Stored, new
  <2>o. \A b \in PcAgents : ChainOf(b)' = IF b = a THEN ChainOf(b) \cup {n} ELSE ChainOf(b)
    BY <2>i, <2>k, <2>l, <2>m, <2>n DEF ChainOf, new
  <2>p. \A v \in PcWriters : v # w => PcAgent(v)' = PcAgent(v)
    BY <2>f DEF PcAgent
  \* the others hold other chains
  <2>q. \A v \in PcWriters : v # w /\ pcCall[v].pc \in PcHolding => PcAgent(v) # a
    BY <2>a, <2>l DEF PcInv, PcChainsLocked, PcHolding
  <2>r. new.agent = a /\ new.policy = q /\ new.version = policies[q] + 1 /\ new.prev = LastId(ChainOf(a)) /\ a = PcAgentOf[q]
    BY <2>a, <2>j, <2>k, <2>l DEF PcInv, PcPrevious, new, PcAgent
  <2> HIDE DEF c, row
  <2>1. PcTypeOK'
    <3>1. pcTable' \in [PcIds -> PcRow \cup {NoPcRow}]
      BY <2>a, <2>k DEF PcInv, PcTypeOK
    <3>2. policies' \in [PcPolicies -> 0..MaxPcCalls]
      <4>1. c.version \in 0..MaxPcCalls
        BY <2>j
      <4> QED BY <2>a, <4>1 DEF PcInv, PcTypeOK
    <3>3. pcCall' \in [PcWriters -> PcCallState]
      BY <2>a, PcIdleTyped DEF PcInv, PcTypeOK, PcCallState
    <3> QED BY <2>a, <2>h, <3>1, <3>2, <3>3 DEF PcInv, PcTypeOK, PcCallState, Unlocked
  <2>2. PcRowsLocked'
    <3>1. \A u, v \in PcWriters :
              u # v /\ pcCall'[u].pc # "idle" /\ pcCall'[v].pc # "idle" => pcCall'[u].policy # pcCall'[v].policy
      BY <2>d, <2>f DEF PcInv, PcRowsLocked
    <3>2. ASSUME NEW v \in PcWriters, pcCall'[v].pc # "idle"
          PROVE  pcCall'[v].version = policies'[pcCall'[v].policy] + 1 /\ pcCall'[v].version <= pcCalls
      <4>1. v # w /\ pcCall'[v] = pcCall[v]
        BY <2>d, <2>f, <3>2
      <4>2. pcCall[v].policy # q /\ pcCall[v].policy \in PcPolicies
        BY <2>a, <2>l, <3>2, <4>1 DEF PcInv, PcRowsLocked, PcTypeOK, c
      <4> QED BY <2>m, <3>2, <4>1, <4>2 DEF PcInv, PcRowsLocked
    <3>3. \A p \in PcPolicies : policies'[p] <= pcCalls
      BY <2>j, <2>l, <2>m DEF PcInv, PcRowsLocked
    <3> QED BY <2>a, <3>1, <3>2, <3>3 DEF PcRowsLocked
  <2>3. PcChainsLocked'
    <3>1. \A v \in PcWriters : v # w => PcAgent(v)' = PcAgent(v) /\ pcCall'[v] = pcCall[v]
      BY <2>f DEF PcAgent
    <3>2. \A b \in PcAgents : chainLock'[b] = IF chainLock[b] = w THEN Free ELSE chainLock[b]
      BY <2>h DEF Unlocked
    <3>3. ASSUME NEW v \in PcWriters, pcCall'[v].pc \in PcHolding PROVE chainLock'[PcAgent(v)'] = v
      <4>1. v # w
        BY <2>d, <2>f, <3>3 DEF PcHolding
      <4>2. chainLock[PcAgent(v)] = v /\ PcAgent(v) \in PcAgents
        BY <2>g, <3>1, <3>3, <4>1 DEF PcInv, PcChainsLocked
      <4> QED BY <3>1, <3>2, <4>1, <4>2
    <3>4. ASSUME NEW b \in PcAgents, NEW v \in PcWriters, chainLock'[b] = v
          PROVE  pcCall'[v].pc \in PcHolding /\ PcAgent(v)' = b
      <4>1. chainLock[b] = v /\ v # w
        BY <3>2, <3>4, PcAssumption
      <4> QED BY <3>1, <4>1 DEF PcInv, PcChainsLocked
    <3> QED BY <3>3, <3>4 DEF PcChainsLocked, PcAgent
  <2>4. PcIdsGiven'
    <3>1. \A i \in PcIds : Stored(i)' => i < pcNextId
      BY <2>i, <2>n DEF PcInv, PcIdsGiven
    <3>2. ASSUME NEW v \in PcWriters, pcCall'[v].pc = "commit"
          PROVE  /\ pcCall'[v].id \in PcIds /\ pcCall'[v].id < pcNextId /\ ~Stored(pcCall[v].id)'
                 /\ \A i \in ChainOf(PcAgent(v))' : i < pcCall'[v].id
      <4>1. v # w /\ pcCall'[v] = pcCall[v]
        BY <2>d, <2>f, <3>2
      <4>2. pcCall[v].id \in PcIds /\ pcCall[v].id < pcNextId /\ pcCall[v].id # n /\ ~Stored(pcCall[v].id)
        BY <2>a, <2>i, <3>2, <4>1 DEF PcInv, PcIdsGiven, c
      <4>3. ChainOf(PcAgent(v))' = ChainOf(PcAgent(v))
        BY <2>g, <2>o, <2>p, <2>q, <3>2, <4>1 DEF PcHolding
      <4>4. ~Stored(pcCall[v].id)'
        BY <2>n, <4>1, <4>2 DEF Stored
      <4> QED BY <3>2, <4>1, <4>2, <4>3, <4>4 DEF PcInv, PcIdsGiven
    <3>3. \A u, v \in PcWriters :
              u # v /\ pcCall'[u].pc = "commit" /\ pcCall'[v].pc = "commit" => pcCall'[u].id # pcCall'[v].id
      BY <2>d, <2>f DEF PcInv, PcIdsGiven
    <3> QED BY <2>a, <3>1, <3>2, <3>3 DEF PcIdsGiven
  <2>5. PcPrevious'
    <3> SUFFICES ASSUME NEW v \in PcWriters, pcCall'[v].pc \in {"insert", "commit"}
                 PROVE  pcCall'[v].prev = LastId(ChainOf(PcAgent(v))')
      BY DEF PcPrevious, LastId
    <3>1. v # w /\ pcCall'[v] = pcCall[v]
      BY <2>d, <2>f
    <3>2. ChainOf(PcAgent(v))' = ChainOf(PcAgent(v))
      BY <2>g, <2>o, <2>p, <2>q, <3>1 DEF PcHolding
    <3> QED BY <3>1, <3>2 DEF PcInv, PcPrevious
  <2>6. PcOneRecord'
    <3>1. \A i \in PcIds : Stored(i) => pcTable[i].policy \in PcPolicies /\ pcTable[i].version \in 1..MaxPcCalls
      BY DEF PcInv, PcTypeOK, PcRow, Stored
    <3>2. ASSUME NEW i \in PcIds, Stored(i)'
          PROVE  pcTable'[i].agent = PcAgentOf[pcTable'[i].policy] /\ pcTable'[i].version <= policies'[pcTable'[i].policy]
      <4>1. CASE i = n
        BY <2>j, <2>l, <2>m, <2>r, <4>1
      <4>2. CASE i # n
        <5>1. pcTable'[i] = pcTable[i] /\ Stored(i)
          BY <2>m, <2>n, <3>2, <4>2
        <5>2. pcTable[i].agent = PcAgentOf[pcTable[i].policy] /\ pcTable[i].version <= policies[pcTable[i].policy]
          BY <5>1 DEF PcInv, PcOneRecord
        <5>3. policies[pcTable[i].policy] <= policies'[pcTable[i].policy] /\ policies'[pcTable[i].policy] \in Nat
          BY <2>j, <2>m, <3>1, <5>1
        <5> QED BY <2>j, <3>1, <5>1, <5>2, <5>3
      <4> QED BY <4>1, <4>2
    <3>3. ASSUME NEW p \in PcPolicies, NEW v \in 1..MaxPcCalls, v <= policies'[p]
          PROVE  \E i \in PcIds : Stored(i)' /\ pcTable'[i].policy = p /\ pcTable'[i].version = v
      <4>1. CASE p = q /\ v = policies[q] + 1
        BY <2>m, <2>n, <2>r, <4>1
      <4>2. CASE ~(p = q /\ v = policies[q] + 1)
        <5>1. v <= policies[p]
          BY <2>j, <2>m, <3>3, <4>2
        <5>2. PICK i \in PcIds : Stored(i) /\ pcTable[i].policy = p /\ pcTable[i].version = v
          BY <5>1 DEF PcInv, PcOneRecord
        <5>3. pcTable'[i] = pcTable[i] /\ Stored(i)'
          BY <2>i, <2>m, <2>n, <5>2
        <5> QED BY <5>2, <5>3
      <4> QED BY <4>1, <4>2
    <3>4. \A i \in PcIds : Stored(i) /\ pcTable[i].policy = q => pcTable[i].version # policies[q] + 1
      BY <2>j, <3>1 DEF PcInv, PcOneRecord
    <3>5. \A i, j \in PcIds : Stored(i)' /\ Stored(j)' /\ pcTable'[i].policy = pcTable'[j].policy
                                /\ pcTable'[i].version = pcTable'[j].version => i = j
      BY <2>m, <2>n, <2>r, <3>4 DEF PcInv, PcOneRecord
    <3> QED BY <3>2, <3>3, <3>5 DEF PcOneRecord
  <2>7. PcLinked'
    <3> SUFFICES ASSUME NEW b \in PcAgents, NEW i \in ChainOf(b)'
                 PROVE  pcTable'[i].prev = LastId({j \in ChainOf(b)' : j < i})
      BY DEF PcLinked, LastId, ChainOf
    <3>0. i \in PcIds /\ n \in PcIds /\ \A x \in PcIds : x \in Int
      BY <2>i DEF ChainOf, PcIds
    <3>1. CASE b # a
      <4>1. i \in ChainOf(b) /\ ChainOf(b)' = ChainOf(b) /\ i # n
        BY <2>i, <2>o, <3>1 DEF ChainOf
      <4>2. pcTable'[i] = pcTable[i]
        BY <2>m, <3>0, <4>1
      <4> QED BY <4>1, <4>2 DEF PcInv, PcLinked
    <3>2. CASE b = a /\ i = n
      <4>1. {j \in ChainOf(b)' : j < i} = ChainOf(a)
        BY <2>i, <2>l, <2>o, <3>0, <3>2
      <4> QED BY <2>m, <2>r, <3>0, <3>2, <4>1
    <3>3. CASE b = a /\ i # n
      <4>1. i \in ChainOf(a) /\ i < n
        BY <2>i, <2>l, <2>o, <3>3
      <4>2. {j \in ChainOf(b)' : j < i} = {j \in ChainOf(a) : j < i}
        BY <2>o, <3>0, <3>3, <4>1
      <4>3. pcTable'[i] = pcTable[i]
        BY <2>m, <3>0, <3>3
      <4> QED BY <4>1, <4>2, <4>3 DEF PcInv, PcLinked
    <3> QED BY <3>1, <3>2, <3>3
  <2>8. PcCursors'
    BY <2>a, <2>o DEF PcInv, PcTypeOK, PcCursors
  <2>9. FilteredPagesSkipNothing'
    <3>0. \A r \in PcReaders : pcReader[r].agent # Free => pcReader[r].agent \in PcAgents
      BY DEF PcInv, PcTypeOK
    <3> SUFFICES ASSUME NEW r \in PcReaders, NEW b \in PcAgents, pcReader[r].agent = b, b # Free,
                        NEW i \in ChainOf(b)', i <= pcReader[r].cursor
                 PROVE  i \in pcReader[r].got
      BY <2>a, <3>0 DEF FilteredPagesSkipNothing, ChainOf
    <3>1. i \in PcIds /\ \A x \in PcIds : x \in Nat \ {0}
      BY DEF ChainOf, PcIds
    <3>2. i \in ChainOf(b)
      <4>1. CASE b = a /\ i = n
        <5>1. pcReader[r].cursor = 0 \/ pcReader[r].cursor < n
          BY <2>i, <2>l, <4>1 DEF PcInv, PcCursors
        <5> QED BY <3>1, <4>1, <5>1 DEF PcInv, PcTypeOK
      <4>2. CASE ~(b = a /\ i = n)
        BY <2>o, <4>2
      <4> QED BY <4>1, <4>2
    <3> QED BY <3>2 DEF PcInv, FilteredPagesSkipNothing
  <2> QED BY <2>1, <2>2, <2>3, <2>4, <2>5, <2>6, <2>7, <2>8, <2>9 DEF PcInv
<1>6. ASSUME NEW w \in PcWriters, RollbackChange(w)
      PROVE  PcInv'
  <2> DEFINE k == IdlePc
  <2>a. pcCall' = [pcCall EXCEPT ![w] = k] /\ UNCHANGED <<policies, pcTable, pcNextId, pcReader, pcCalls>>
    BY <1>6 DEF RollbackChange, PcGoto
  <2>b. pcCall[w] \in PcCallState
    BY DEF PcInv, PcTypeOK, PcCallState
  <2>c. k \in PcCallState
    BY PcIdleTyped
  <2>d. k.pc = "idle"
    BY PcIdleTyped
  <2>e. PcOneRecord' /\ PcLinked' /\ (\A i \in PcIds : Stored(i)' <=> Stored(i)) /\ (\A b \in PcAgents : ChainOf(b)' = ChainOf(b))
    BY <2>a, PcTableKept
  <2>f. \A v \in PcWriters : pcCall'[v] = IF v = w THEN k ELSE pcCall[v]
    BY <2>a DEF PcInv, PcTypeOK
  <2>g. \A v \in PcWriters : PcAgent(v) \in PcAgents
    BY DEF PcInv, PcTypeOK, PcAgents, PcAgent
  <2>h. chainLock' = Unlocked(w)
    BY <1>6 DEF RollbackChange
  <2> HIDE DEF k
  <2>1. PcTypeOK'
    BY <2>a, <2>c, <2>h DEF PcInv, PcTypeOK, PcCallState, Unlocked
  <2>2. PcRowsLocked'
    BY <1>6, <2>a, <2>b, <2>d, <2>f DEF PcInv, PcRowsLocked, PcTypeOK, RollbackChange
  <2>3. PcChainsLocked'
    <3>1. \A v \in PcWriters : v # w => PcAgent(v)' = PcAgent(v) /\ pcCall'[v] = pcCall[v]
      BY <2>f DEF PcAgent
    <3>2. \A b \in PcAgents : chainLock'[b] = IF chainLock[b] = w THEN Free ELSE chainLock[b]
      BY <2>h DEF Unlocked
    <3>3. ASSUME NEW v \in PcWriters, pcCall'[v].pc \in PcHolding PROVE chainLock'[PcAgent(v)'] = v
      <4>1. v # w
        BY <2>d, <2>f, <3>3 DEF PcHolding
      <4>2. chainLock[PcAgent(v)] = v /\ PcAgent(v) \in PcAgents
        BY <2>g, <3>1, <3>3, <4>1 DEF PcInv, PcChainsLocked
      <4> QED BY <3>1, <3>2, <4>1, <4>2
    <3>4. ASSUME NEW b \in PcAgents, NEW v \in PcWriters, chainLock'[b] = v
          PROVE  pcCall'[v].pc \in PcHolding /\ PcAgent(v)' = b
      <4>1. chainLock[b] = v /\ v # w
        BY <3>2, <3>4, PcAssumption
      <4> QED BY <3>1, <4>1 DEF PcInv, PcChainsLocked
    <3> QED BY <3>3, <3>4 DEF PcChainsLocked, PcAgent
  <2>4. PcIdsGiven'
    BY <1>6, <2>a, <2>d, <2>e, <2>f, <2>g DEF PcInv, PcIdsGiven, PcAgent, PcTypeOK, RollbackChange
  <2>5. PcPrevious'
    BY <1>6, <2>a, <2>d, <2>e, <2>f, <2>g DEF PcInv, PcPrevious, PcAgent, RollbackChange
  <2>6. PcOneRecord'
    BY <2>e
  <2>7. PcLinked'
    BY <2>e
  <2>8. PcCursors'
    BY <2>a, PcReadersKept
  <2>9. FilteredPagesSkipNothing'
    BY <2>a, PcReadersKept
  <2> QED BY <2>1, <2>2, <2>3, <2>4, <2>5, <2>6, <2>7, <2>8, <2>9 DEF PcInv
<1>7. ASSUME NEW r \in PcReaders, NEW a \in PcAgents \cup {Free}, StartList(r, a)
      PROVE  PcInv'
  <2> DEFINE s == [agent |-> a, cursor |-> 0, got |-> {}, over |-> FALSE]
  <2>a. pcReader' = [pcReader EXCEPT ![r] = s] /\ UNCHANGED <<policies, pcTable, pcNextId, chainLock, pcCall, pcCalls>>
    BY <1>7 DEF StartList
  <2>b. PcOneRecord' /\ PcLinked' /\ (\A i \in PcIds : Stored(i)' <=> Stored(i)) /\ (\A b \in PcAgents : ChainOf(b)' = ChainOf(b))
    BY <2>a, PcTableKept
  <2>c. s \in [agent : PcAgents \cup {Free}, cursor : 0..MaxPcIds, got : SUBSET PcIds, over : BOOLEAN]
    BY PcAssumption
  <2>d. s.agent # Free => s.agent \in PcAgents /\ (s.cursor = 0 \/ s.cursor \in ChainOf(s.agent))
    OBVIOUS
  <2>e. s.agent # Free => \A i \in ChainOf(s.agent) : i <= s.cursor => i \in s.got
    BY DEF ChainOf, PcIds
  <2>f. \A q \in PcReaders : pcReader'[q] = IF q = r THEN s ELSE pcReader[q]
    BY <2>a DEF PcInv, PcTypeOK
  <2> HIDE DEF s
  <2>1. PcTypeOK'
    BY <2>a, <2>c DEF PcInv, PcTypeOK
  <2>2. PcRowsLocked'
    BY <2>a DEF PcInv, PcRowsLocked
  <2>3. PcChainsLocked'
    BY <2>a DEF PcInv, PcChainsLocked, PcAgent
  <2>4. PcIdsGiven'
    BY <2>a DEF PcInv, PcIdsGiven, PcAgent, Stored, ChainOf
  <2>5. PcPrevious'
    BY <2>a DEF PcInv, PcPrevious, PcAgent, Stored, ChainOf
  <2>6. PcOneRecord'
    BY <2>b
  <2>7. PcLinked'
    BY <2>b
  <2>8. PcCursors'
    BY <2>b, <2>d, <2>f DEF PcInv, PcTypeOK, PcCursors
  <2>9. FilteredPagesSkipNothing'
    BY <2>b, <2>d, <2>e, <2>f DEF PcInv, PcTypeOK, FilteredPagesSkipNothing
  <2> QED BY <2>1, <2>2, <2>3, <2>4, <2>5, <2>6, <2>7, <2>8, <2>9 DEF PcInv
<1>8. ASSUME NEW r \in PcReaders, ListRecords(r)
      PROVE  PcInv'
  <2> DEFINE t == pcReader[r]
             listed == BuildListQuery(t.agent, t.cursor)
             page == PageOf(listed)
  <2>x. /\ t \in [agent : PcAgents \cup {Free}, cursor : 0..MaxPcIds, got : SUBSET PcIds, over : BOOLEAN]
        /\ listed \in SUBSET PcIds /\ page \in SUBSET listed
        /\ t.agent # Free => listed = {i \in ChainOf(t.agent) : i > t.cursor}
        /\ t.agent # Free => t.cursor = 0 \/ t.cursor \in ChainOf(t.agent)
    BY DEF PcInv, PcTypeOK, PcCursors, BuildListQuery, PageOf, ChainOf
  <2>y. page # {} => LastId(page) \in page /\ LastId(page) \in 0..MaxPcIds
    BY <2>x, PcLastId
  <2>z. t.agent # Free => \A i \in ChainOf(t.agent) : i <= (IF page = {} THEN t.cursor ELSE LastId(page)) => i \in t.got \cup page
    <3> SUFFICES ASSUME t.agent # Free, NEW i \in ChainOf(t.agent),
                        i <= (IF page = {} THEN t.cursor ELSE LastId(page)), ~(i <= t.cursor)
                 PROVE  i \in page
      BY DEF PcInv, FilteredPagesSkipNothing
    <3>1. i \in listed /\ page # {} /\ i \in PcIds /\ LastId(page) \in page /\ i <= LastId(page)
      BY <2>x, <2>y DEF ChainOf, PcIds
    <3>2. CASE i = LastId(page)
      BY <3>1, <3>2
    <3>3. CASE i < LastId(page)
      BY <2>x, <3>1, <3>3, PcPageIsClosed
    <3> QED BY <3>1, <3>2, <3>3, <2>x, <2>y DEF PcIds
  <2> HIDE DEF t, listed, page

  <2> DEFINE s == [agent |-> t.agent, got |-> t.got \cup page,
                   cursor |-> IF page = {} THEN t.cursor ELSE LastId(page),
                   over |-> ~(Cardinality(listed) > PcPageLimit)]
  <2>a. pcReader' = [pcReader EXCEPT ![r] = s] /\ UNCHANGED <<policies, pcTable, pcNextId, chainLock, pcCall, pcCalls>>
    BY <1>8 DEF ListRecords, t, listed, page
  <2>b. PcOneRecord' /\ PcLinked' /\ (\A i \in PcIds : Stored(i)' <=> Stored(i)) /\ (\A b \in PcAgents : ChainOf(b)' = ChainOf(b))
    BY <2>a, PcTableKept
  <2>c. s \in [agent : PcAgents \cup {Free}, cursor : 0..MaxPcIds, got : SUBSET PcIds, over : BOOLEAN]
    BY <2>x, <2>y
  <2>d. s.agent # Free => s.agent \in PcAgents /\ (s.cursor = 0 \/ s.cursor \in ChainOf(s.agent))
    BY <2>x, <2>y
  <2>e. s.agent # Free => \A i \in ChainOf(s.agent) : i <= s.cursor => i \in s.got
    BY <2>x, <2>y, <2>z
  <2>f. \A q \in PcReaders : pcReader'[q] = IF q = r THEN s ELSE pcReader[q]
    BY <2>a DEF PcInv, PcTypeOK
  <2> HIDE DEF s
  <2>1. PcTypeOK'
    BY <2>a, <2>c DEF PcInv, PcTypeOK
  <2>2. PcRowsLocked'
    BY <2>a DEF PcInv, PcRowsLocked
  <2>3. PcChainsLocked'
    BY <2>a DEF PcInv, PcChainsLocked, PcAgent
  <2>4. PcIdsGiven'
    BY <2>a DEF PcInv, PcIdsGiven, PcAgent, Stored, ChainOf
  <2>5. PcPrevious'
    BY <2>a DEF PcInv, PcPrevious, PcAgent, Stored, ChainOf
  <2>6. PcOneRecord'
    BY <2>b
  <2>7. PcLinked'
    BY <2>b
  <2>8. PcCursors'
    BY <2>b, <2>d, <2>f DEF PcInv, PcTypeOK, PcCursors
  <2>9. FilteredPagesSkipNothing'
    BY <2>b, <2>d, <2>e, <2>f DEF PcInv, PcTypeOK, FilteredPagesSkipNothing
  <2> QED BY <2>1, <2>2, <2>3, <2>4, <2>5, <2>6, <2>7, <2>8, <2>9 DEF PcInv
<1>9. ASSUME NEW r \in PcReaders, EndList(r)
      PROVE  PcInv'
  <2> DEFINE s == IdlePcReader
  <2>a. pcReader' = [pcReader EXCEPT ![r] = s] /\ UNCHANGED <<policies, pcTable, pcNextId, chainLock, pcCall, pcCalls>>
    BY <1>9 DEF EndList
  <2>b. PcOneRecord' /\ PcLinked' /\ (\A i \in PcIds : Stored(i)' <=> Stored(i)) /\ (\A b \in PcAgents : ChainOf(b)' = ChainOf(b))
    BY <2>a, PcTableKept
  <2>c. s \in [agent : PcAgents \cup {Free}, cursor : 0..MaxPcIds, got : SUBSET PcIds, over : BOOLEAN]
    BY PcAssumption DEF IdlePcReader
  <2>d. s.agent # Free => s.agent \in PcAgents /\ (s.cursor = 0 \/ s.cursor \in ChainOf(s.agent))
    BY DEF IdlePcReader
  <2>e. s.agent # Free => \A i \in ChainOf(s.agent) : i <= s.cursor => i \in s.got
    BY DEF IdlePcReader
  <2>f. \A q \in PcReaders : pcReader'[q] = IF q = r THEN s ELSE pcReader[q]
    BY <2>a DEF PcInv, PcTypeOK
  <2> HIDE DEF s
  <2>1. PcTypeOK'
    BY <2>a, <2>c DEF PcInv, PcTypeOK
  <2>2. PcRowsLocked'
    BY <2>a DEF PcInv, PcRowsLocked
  <2>3. PcChainsLocked'
    BY <2>a DEF PcInv, PcChainsLocked, PcAgent
  <2>4. PcIdsGiven'
    BY <2>a DEF PcInv, PcIdsGiven, PcAgent, Stored, ChainOf
  <2>5. PcPrevious'
    BY <2>a DEF PcInv, PcPrevious, PcAgent, Stored, ChainOf
  <2>6. PcOneRecord'
    BY <2>b
  <2>7. PcLinked'
    BY <2>b
  <2>8. PcCursors'
    BY <2>b, <2>d, <2>f DEF PcInv, PcTypeOK, PcCursors
  <2>9. FilteredPagesSkipNothing'
    BY <2>b, <2>d, <2>e, <2>f DEF PcInv, PcTypeOK, FilteredPagesSkipNothing
  <2> QED BY <2>1, <2>2, <2>3, <2>4, <2>5, <2>6, <2>7, <2>8, <2>9 DEF PcInv
<1>10. CASE UNCHANGED pcVars
  BY <1>10 DEF PcInv, PcTypeOK, PcRowsLocked, PcChainsLocked, PcIdsGiven, PcPrevious, PcOneRecord,
               PcLinked, PcCursors, FilteredPagesSkipNothing, Stored, ChainOf, PcAgent, pcVars
<1> QED BY <1>1, <1>2, <1>3, <1>4, <1>5, <1>6, <1>7, <1>8, <1>9, <1>10 DEF PcNext

LEMMA PcStart == PcInit => PcInv
<1> SUFFICES ASSUME PcInit PROVE PcInv
  OBVIOUS
<1>1. \A i \in PcIds : ~Stored(i)
  BY DEF PcInit, Stored
<1>2. PcTypeOK
  BY PcIdleTyped, PcAssumption DEF PcInit, PcTypeOK, PcCallState, IdlePcReader
<1>3. PcRowsLocked /\ PcChainsLocked /\ PcPrevious
  BY PcIdleTyped, PcAssumption DEF PcInit, PcRowsLocked, PcChainsLocked, PcPrevious, PcHolding
<1>4. PcIdsGiven /\ PcOneRecord
  BY <1>1, PcIdleTyped, PcAssumption DEF PcInit, PcIdsGiven, PcOneRecord
<1>5. PcLinked /\ PcCursors /\ FilteredPagesSkipNothing
  BY <1>1 DEF PcInit, PcLinked, PcCursors, FilteredPagesSkipNothing, ChainOf, IdlePcReader
<1> QED BY <1>2, <1>3, <1>4, <1>5 DEF PcInv

LEMMA PcConcludes == PcInv => PcTypeOK /\ ChangesAreChained /\ FilteredPagesSkipNothing
<1> SUFFICES ASSUME PcInv PROVE ChangesAreChained
  BY DEF PcInv
<1>1. ASSUME NEW p \in PcPolicies, NEW v \in 1..MaxPcCalls
      PROVE  Cardinality({i \in PcIds : pcTable[i].policy = p /\ pcTable[i].version = v}) = IF v <= policies[p] THEN 1 ELSE 0
  <2> DEFINE S == {i \in PcIds : pcTable[i].policy = p /\ pcTable[i].version = v}
  <2>1. \A i \in S : Stored(i)
    BY PcAssumption DEF Stored, NoPcRow
  <2>2. CASE v <= policies[p]
    <3>1. PICK i \in PcIds : Stored(i) /\ pcTable[i].policy = p /\ pcTable[i].version = v
      BY <2>2 DEF PcInv, PcOneRecord
    <3>2. S = {i}
      BY <2>1, <3>1 DEF PcInv, PcOneRecord
    <3> QED BY <2>2, <3>2, FS_Singleton
  <2>3. CASE ~(v <= policies[p])
    <3>1. S = {}
      BY <2>1, <2>3 DEF PcInv, PcOneRecord
    <3> QED BY <2>3, <3>1, FS_EmptySet
  <2> QED BY <2>2, <2>3
<1> QED BY <1>1 DEF PcInv, PcLinked, ChangesAreChained

-----------------------------------------------------------------------------
(* Governor lane: the arbitrations and the side table.                     *)

\* The arbitrations: a verdict that was acknowledged is on file.
GovCasesOK ==
    /\ cases \in [GovCases -> [record : GovRecords \cup {"none"}, verdict : GovOperators \cup {"none"},
                               state : {"INITIAL", "ARBITRATED_PENDING_OPERATOR", "ARBITRATED"}]]
    /\ operator \in [GovOperators -> GovCases \cup {"none"}]
    /\ told \in [GovOperators -> SUBSET (GovCases \X {"ARBITRATED", "not found", "illegal state transition"})]
    /\ \A g \in GovCases, o \in GovOperators :
          <<g, "ARBITRATED">> \in told[o] => cases[g].state = "ARBITRATED" /\ cases[g].verdict = o

Forged == <<"forged">>
GovRow(H) == [id : GovRecords, content : {1, 2}, prev : H, hash : H]

\* The side table is a list of rows, whatever the hashes are.
GovTyped ==
    /\ \E H : sideTable \in Seq(GovRow(H))
    /\ Len(sideTable) <= MaxGovRows
    /\ records \in [GovRecords -> 0..2] /\ tampers \in 0..MaxGovTampers /\ govRuns \in 0..MaxGovRuns
    /\ govVerify \in [pc : {"idle", "running"}, at : 0..MaxGovRows, tampers : 0..MaxGovTampers,
                      result : {"none", "valid", "broken", "unanchored"}]
    /\ govVerify.at <= Len(sideTable) /\ govVerify.tampers <= tampers

\* Nobody changes a hash: it is still that of the row that was appended behind its predecessor.
GovMade ==
    \A i \in 1..Len(sideTable) :
        /\ sideTable[i].hash = RowHash(HashBefore(i), sideTable[i].id, 1)
        /\ sideTable[i].prev \in {HashBefore(i), Forged}

\* What a change behind the appender's back leaves for good.
Changed(i) == sideTable[i].content = 2 \/ sideTable[i].prev = Forged \/ records[sideTable[i].id] # 1

\* A change is still to be seen, and a verification that began after it has it ahead.
GovSeen ==
    /\ tampers = 0 => \A i \in 1..Len(sideTable) : ~Changed(i)
    /\ tampers > 0 => \E i \in 1..Len(sideTable) : Changed(i)
    /\ govVerify.pc = "running" /\ govVerify.tampers > 0 =>
          \E i \in 1..Len(sideTable) : i > govVerify.at /\ Changed(i)

SideInv == GovTyped /\ GovMade /\ GovSeen /\ VerificationIsTrue

LEMMA CaseStep == GovCasesOK /\ OnePendingPerRecord /\ [CaseNext]_caseVars => (GovCasesOK /\ OnePendingPerRecord)'
<1> SUFFICES ASSUME GovCasesOK, OnePendingPerRecord, [CaseNext]_caseVars PROVE GovCasesOK' /\ OnePendingPerRecord'
  OBVIOUS
<1>1. ASSUME NEW g \in GovCases, NEW r \in GovRecords, RequestArbitration(g, r)
      PROVE  GovCasesOK' /\ OnePendingPerRecord'
  <2> DEFINE new == [record |-> r, state |-> "ARBITRATED_PENDING_OPERATOR", verdict |-> "none"]
  <2>1. cases' = [cases EXCEPT ![g] = new] /\ UNCHANGED <<operator, told>> /\ cases[g].state = "INITIAL"
    BY <1>1 DEF RequestArbitration, NoCase
  <2>2. \A h \in GovCases : cases'[h] = IF h = g THEN new ELSE cases[h]
    BY <2>1 DEF GovCasesOK
  <2>3. OnePendingPerRecord'
    BY <1>1, <2>2 DEF OnePendingPerRecord, VerdictOpen, RequestArbitration, PendingFree
  <2>4. \A h \in GovCases, o \in GovOperators :
            <<h, "ARBITRATED">> \in told'[o] => cases'[h].state = "ARBITRATED" /\ cases'[h].verdict = o
    BY <2>1, <2>2 DEF GovCasesOK
  <2> QED BY <2>1, <2>3, <2>4 DEF GovCasesOK
<1>2. ASSUME NEW o \in GovOperators, NEW g \in GovCases, SubmitVerdict(o, g)
      PROVE  GovCasesOK' /\ OnePendingPerRecord'
  <2> DEFINE new == [cases[g] EXCEPT !.state = "ARBITRATED", !.verdict = o]
  <2>1. cases' = [cases EXCEPT ![g] = new] /\ operator' = operator /\ VerdictOpen(g)
        /\ told' = [told EXCEPT ![o] = told[o] \cup {<<g, "ARBITRATED">>}]
    BY <1>2 DEF SubmitVerdict
  <2>2. /\ new \in [record : GovRecords \cup {"none"}, verdict : GovOperators \cup {"none"},
                    state : {"INITIAL", "ARBITRATED_PENDING_OPERATOR", "ARBITRATED"}]
        /\ new.state = "ARBITRATED" /\ new.verdict = o
    <3>1. cases[g] \in [record : GovRecords \cup {"none"}, verdict : GovOperators \cup {"none"},
                        state : {"INITIAL", "ARBITRATED_PENDING_OPERATOR", "ARBITRATED"}]
      BY DEF GovCasesOK
    <3> QED BY <3>1
  <2> HIDE DEF new
  <2>3. \A h \in GovCases : cases'[h] = IF h = g THEN new ELSE cases[h]
    BY <2>1 DEF GovCasesOK
  <2>4. OnePendingPerRecord'
    BY <2>2, <2>3 DEF OnePendingPerRecord, VerdictOpen
  <2>5. \A h \in GovCases, p \in GovOperators :
            <<h, "ARBITRATED">> \in told'[p] => cases'[h].state = "ARBITRATED" /\ cases'[h].verdict = p
    <3> SUFFICES ASSUME NEW h \in GovCases, NEW p \in GovOperators, <<h, "ARBITRATED">> \in told'[p]
                 PROVE  cases'[h].state = "ARBITRATED" /\ cases'[h].verdict = p
      OBVIOUS
    <3>1. CASE h = g /\ p = o
      BY <2>2, <2>3, <3>1
    <3>2. CASE ~(h = g /\ p = o)
      <4>1. <<h, "ARBITRATED">> \in told[p]
        BY <2>1, <3>2 DEF GovCasesOK
      <4>2. h # g
        BY <2>1, <4>1 DEF GovCasesOK, VerdictOpen
      <4> QED BY <2>3, <4>1, <4>2 DEF GovCasesOK
    <3> QED BY <3>1, <3>2
  <2>6. cases' \in [GovCases -> [record : GovRecords \cup {"none"}, verdict : GovOperators \cup {"none"},
                                 state : {"INITIAL", "ARBITRATED_PENDING_OPERATOR", "ARBITRATED"}]]
    BY <2>1, <2>2 DEF GovCasesOK
  <2>7. told' \in [GovOperators -> SUBSET (GovCases \X {"ARBITRATED", "not found", "illegal state transition"})]
    <3>1. told[o] \cup {<<g, "ARBITRATED">>} \in
             SUBSET (GovCases \X {"ARBITRATED", "not found", "illegal state transition"})
      <4>1. told[o] \in SUBSET (GovCases \X {"ARBITRATED", "not found", "illegal state transition"})
        BY DEF GovCasesOK
      <4>2. <<g, "ARBITRATED">> \in GovCases \X {"ARBITRATED", "not found", "illegal state transition"}
        OBVIOUS
      <4> QED BY <4>1, <4>2
    <3> QED BY <2>1, <3>1 DEF GovCasesOK
  <2> QED BY <2>1, <2>4, <2>5, <2>6, <2>7 DEF GovCasesOK
<1>3. ASSUME NEW o \in GovOperators, NEW g \in GovCases, SubmitMisses(o, g)
      PROVE  GovCasesOK' /\ OnePendingPerRecord'
  BY <1>3 DEF SubmitMisses, GovCasesOK, OnePendingPerRecord, VerdictOpen
<1>4. ASSUME NEW o \in GovOperators, ExplainRefusal(o)
      PROVE  GovCasesOK' /\ OnePendingPerRecord'
  <2> DEFINE answer == <<operator[o], IF cases[operator[o]] = NoCase THEN "not found" ELSE "illegal state transition">>
  <2>1. cases' = cases /\ operator' = [operator EXCEPT ![o] = "none"] /\ told' = [told EXCEPT ![o] = told[o] \cup {answer}]
        /\ operator[o] \in GovCases
    BY <1>4 DEF ExplainRefusal, GovCasesOK
  <2>2. answer \in GovCases \X {"ARBITRATED", "not found", "illegal state transition"} /\ answer[2] # "ARBITRATED"
    BY <2>1
  <2> HIDE DEF answer
  <2>3. \A h \in GovCases, p \in GovOperators : <<h, "ARBITRATED">> \in told'[p] => <<h, "ARBITRATED">> \in told[p]
    <3>1. \A h \in GovCases : <<h, "ARBITRATED">> # answer
      BY DEF answer
    <3>2. \A p \in GovOperators : told'[p] = IF p = o THEN told[o] \cup {answer} ELSE told[p]
      BY <2>1 DEF GovCasesOK
    <3> QED BY <3>1, <3>2
  <2>4. told' \in [GovOperators -> SUBSET (GovCases \X {"ARBITRATED", "not found", "illegal state transition"})]
    BY <2>1, <2>2 DEF GovCasesOK
  <2> QED BY <2>1, <2>3, <2>4 DEF GovCasesOK, OnePendingPerRecord, VerdictOpen
<1>5. CASE UNCHANGED caseVars
  BY <1>5 DEF caseVars, GovCasesOK, OnePendingPerRecord, VerdictOpen
<1> QED BY <1>1, <1>2, <1>3, <1>4, <1>5 DEF CaseNext

\* A function on 1..m is a sequence.
LEMMA FcnIsSeq ==
    ASSUME NEW m \in Nat, NEW S, NEW f \in [1..m -> S]
    PROVE  f \in Seq(S) /\ Len(f) = m
OBVIOUS

\* A row's predecessor was hashed, never forged.
LEMMA GovNotForged ==
    ASSUME GovTyped, GovMade, NEW i \in 1..(Len(sideTable) + 1)
    PROVE  HashBefore(i) # Forged
<1>1. Len(sideTable) \in Nat
  BY DEF GovTyped
<1>2. CASE i = 1
  BY <1>2 DEF HashBefore, GenesisHash, Forged
<1>3. CASE i # 1
  <2>1. i - 1 \in 1..Len(sideTable)
    BY <1>1, <1>3
  <2>2. HashBefore(i) = RowHash(HashBefore(i - 1), sideTable[i - 1].id, 1)
    BY <1>3, <2>1 DEF GovMade, HashBefore
  <2>3. \A p, r : RowHash(p, r, 1) # Forged
    BY DEF RowHash, Forged
  <2> QED BY <2>2, <2>3
<1> QED BY <1>2, <1>3

\* A changed row fails its verification, an unchanged one passes it.
LEMMA GovVerdict ==
    ASSUME GovTyped, GovMade, NEW i \in 1..Len(sideTable)
    PROVE  (RowVerdict(i) = "ok" <=> ~Changed(i)) /\ RowVerdict(i) \in {"ok", "broken", "unanchored"}
<1>1. Len(sideTable) \in Nat /\ sideTable[i].content \in {1, 2}
  <2>1. PICK H : sideTable \in Seq(GovRow(H))
    BY DEF GovTyped
  <2>2. sideTable[i] \in GovRow(H)
    BY <2>1
  <2> QED BY <2>1, <2>2 DEF GovRow
<1>2. HashBefore(i) # Forged
  <2>1. i \in 1..(Len(sideTable) + 1)
    BY <1>1
  <2> QED BY <2>1, GovNotForged
<1>3. LinkIntact(i) <=> sideTable[i].prev # Forged /\ sideTable[i].content = 1
  BY <1>1, <1>2 DEF GovMade, LinkIntact, RowHash
<1>4. RowVerdict(i) = "ok" <=> LinkIntact(i) /\ AnchorHolds(i)
  BY DEF RowVerdict
<1>5. RowVerdict(i) \in {"ok", "broken", "unanchored"}
  BY DEF RowVerdict
<1> QED BY <1>1, <1>3, <1>4, <1>5 DEF Changed, AnchorHolds

LEMMA SideStep == SideInv /\ [SideNext]_sideVars => SideInv'
<1> SUFFICES ASSUME SideInv, [SideNext]_sideVars PROVE SideInv'
  OBVIOUS
<1>a. PICK H : sideTable \in Seq(GovRow(H))
  BY DEF SideInv, GovTyped
<1>n. PICK n \in Nat : n = Len(sideTable)
  BY <1>a
<1> USE <1>n
<1>b. /\ n \in Nat /\ n <= MaxGovRows /\ sideTable \in [1..n -> GovRow(H)] /\ \A i \in 1..n : sideTable[i] \in GovRow(H)
      /\ tampers \in Nat /\ govVerify.tampers \in Nat /\ govVerify.at \in Nat
  BY <1>a DEF SideInv, GovTyped
<1>1. ASSUME NEW r \in GovRecords, AppendRow(r) PROVE SideInv'
  <2> DEFINE row == SideTableRow(HashBefore(n + 1), r)
             K == H \cup {HashBefore(n + 1), RowHash(HashBefore(n + 1), r, 1)}
  <2>1. /\ records[r] = 0 /\ (\A i \in 1..n : sideTable[i].id # r) /\ n < MaxGovRows
        /\ records' = [records EXCEPT ![r] = 1] /\ sideTable' = Append(sideTable, row)
        /\ UNCHANGED <<tampers, govVerify, govRuns>>
    BY <1>1 DEF AppendRow, AppendedBefore
  <2>2. row \in GovRow(K) /\ row.id = r /\ row.content = 1 /\ row.prev = HashBefore(n + 1)
        /\ row.hash = RowHash(HashBefore(n + 1), r, 1)
    BY DEF SideTableRow, GovRow
  <2> HIDE DEF row
  <2>3. /\ sideTable' \in Seq(GovRow(K)) /\ Len(sideTable') = n + 1
        /\ \A i \in 1..(n + 1) : sideTable'[i] = IF i = n + 1 THEN row ELSE sideTable[i]
    <3>1. \A i \in 1..n : sideTable[i] \in GovRow(K)
      BY <1>b DEF GovRow
    <3> HIDE DEF K
    <3>2. sideTable \in Seq(GovRow(K))
      BY <1>a, <1>b, <3>1
    <3> QED BY <2>1, <2>2, <3>2
  <2>4. \A i \in 1..(n + 1) : HashBefore(i)' = HashBefore(i)
    BY <1>b, <2>3 DEF HashBefore
  <2>5. HashBefore(n + 1) # Forged
    <3>1. n + 1 \in 1..(Len(sideTable) + 1)
      BY <1>b
    <3> QED BY <3>1, GovNotForged DEF SideInv
  <2>6. \A i \in 1..n : Changed(i)' <=> Changed(i)
    BY <1>b, <2>1, <2>3 DEF Changed, GovRow, SideInv, GovTyped
  <2>7. ~Changed(n + 1)'
    <3>1. sideTable'[n + 1] = row /\ records'[r] = 1
      BY <1>b, <2>1, <2>3 DEF SideInv, GovTyped
    <3> QED BY <2>2, <2>5, <3>1 DEF Changed
  <2>8. GovTyped'
    <3>1. records' \in [GovRecords -> 0..2]
      BY <2>1 DEF SideInv, GovTyped
    <3>2. Len(sideTable') <= MaxGovRows /\ govVerify.at <= Len(sideTable')
      BY <1>b, <2>1, <2>3, GovAssumption DEF SideInv, GovTyped
    <3> QED BY <2>1, <2>3, <3>1, <3>2 DEF SideInv, GovTyped
  <2>9. GovMade'
    <3> SUFFICES ASSUME NEW i \in 1..(n + 1)
                 PROVE  /\ sideTable'[i].hash = RowHash(HashBefore(i), sideTable'[i].id, 1)
                        /\ sideTable'[i].prev \in {HashBefore(i), Forged}
      BY <2>3, <2>4 DEF GovMade
    <3>1. CASE i = n + 1
      BY <2>2, <2>3, <3>1
    <3>2. CASE i # n + 1
      BY <1>b, <2>3, <3>2 DEF SideInv, GovMade
    <3> QED BY <3>1, <3>2
  <2>10. GovSeen'
    <3>1. \A i \in 1..n : i \in 1..(n + 1)
      BY <1>b
    <3>2. \A i \in 1..(n + 1) : i \in 1..n \/ i = n + 1
      BY <1>b
    <3>3. tampers = 0 => \A i \in 1..(n + 1) : ~Changed(i)'
      BY <2>6, <2>7, <3>2 DEF SideInv, GovSeen
    <3>4. tampers > 0 => \E i \in 1..(n + 1) : Changed(i)'
      BY <2>6, <3>1 DEF SideInv, GovSeen
    <3>5. govVerify.pc = "running" /\ govVerify.tampers > 0 =>
             \E i \in 1..(n + 1) : i > govVerify.at /\ Changed(i)'
      BY <2>6, <3>1 DEF SideInv, GovSeen
    <3> QED BY <2>1, <2>3, <3>3, <3>4, <3>5 DEF GovSeen
  <2>11. VerificationIsTrue'
    BY <2>1 DEF SideInv, VerificationIsTrue
  <2> QED BY <2>8, <2>9, <2>10, <2>11 DEF SideInv
<1>2. ASSUME NEW k \in 1..Len(sideTable), TamperRow(k) PROVE SideInv'
  <2>1. tampers < MaxGovTampers /\ tampers' = tampers + 1 /\ UNCHANGED <<govVerify, govRuns>>
    BY <1>2 DEF TamperRow
  <2>0. k \in 1..n /\ sideTable[k] \in GovRow(H)
    BY <1>b
  <2>2. /\ \A i \in 1..n : /\ sideTable'[i].id = sideTable[i].id /\ sideTable'[i].hash = sideTable[i].hash
                           /\ sideTable'[i].content \in {sideTable[i].content, 2}
                           /\ sideTable'[i].prev \in {sideTable[i].prev, Forged}
        /\ sideTable' \in Seq(GovRow(H \cup {Forged})) /\ Len(sideTable') = n
        /\ records' \in [GovRecords -> 0..2]
        /\ \A r \in GovRecords : records'[r] # records[r] => records'[r] # 1
        /\ Changed(k)'
    <3>0. /\ \A i \in 1..n : sideTable[i] \in GovRow(H \cup {Forged})
          /\ [sideTable[k] EXCEPT !.content = 2] \in GovRow(H \cup {Forged})
          /\ [sideTable[k] EXCEPT !.prev = Forged] \in GovRow(H \cup {Forged})
      BY <1>b, <2>0 DEF GovRow
    <3>1. CASE sideTable' = [sideTable EXCEPT ![k].content = 2] /\ UNCHANGED records
      <4> DEFINE new == [sideTable[k] EXCEPT !.content = 2]
      <4>1. sideTable' = [sideTable EXCEPT ![k] = new]
        BY <3>1
      <4>2. new.id = sideTable[k].id /\ new.hash = sideTable[k].hash /\ new.content = 2 /\ new.prev = sideTable[k].prev
        BY <2>0 DEF GovRow
      <4> HIDE DEF new
      <4>3. \A i \in 1..n : sideTable'[i] = IF i = k THEN new ELSE sideTable[i]
        BY <1>b, <4>1
      <4>4. sideTable' \in [1..n -> GovRow(H \cup {Forged})]
        BY <1>b, <3>0, <4>1 DEF new
      <4>5. sideTable' \in Seq(GovRow(H \cup {Forged})) /\ Len(sideTable') = n
        BY <1>b, <4>4, FcnIsSeq
      <4> QED BY <2>0, <3>1, <4>2, <4>3, <4>5 DEF SideInv, GovTyped, Changed
    <3>2. CASE sideTable' = [sideTable EXCEPT ![k].prev = <<"forged">>] /\ UNCHANGED records
      <4> DEFINE new == [sideTable[k] EXCEPT !.prev = Forged]
      <4>1. sideTable' = [sideTable EXCEPT ![k] = new]
        BY <3>2 DEF Forged
      <4>2. new.id = sideTable[k].id /\ new.hash = sideTable[k].hash /\ new.content = sideTable[k].content /\ new.prev = Forged
        BY <2>0 DEF GovRow
      <4> HIDE DEF new
      <4>3. \A i \in 1..n : sideTable'[i] = IF i = k THEN new ELSE sideTable[i]
        BY <1>b, <4>1
      <4>4. sideTable' \in [1..n -> GovRow(H \cup {Forged})]
        BY <1>b, <3>0, <4>1 DEF new
      <4>5. sideTable' \in Seq(GovRow(H \cup {Forged})) /\ Len(sideTable') = n
        BY <1>b, <4>4, FcnIsSeq
      <4> QED BY <2>0, <3>2, <4>2, <4>3, <4>5 DEF SideInv, GovTyped, Changed
    <3>3. CASE /\ sideTable' = sideTable
               /\ \E x \in {0, 2} : records' = [records EXCEPT ![sideTable[k].id] = x]
      <4>1. sideTable' \in Seq(GovRow(H \cup {Forged})) /\ Len(sideTable') = n
        <5>1. sideTable' \in [1..n -> GovRow(H \cup {Forged})]
          BY <1>b, <3>0, <3>3
        <5> QED BY <1>b, <5>1, FcnIsSeq
      <4>2. sideTable[k].id \in GovRecords
        BY <2>0 DEF GovRow
      <4> QED BY <3>3, <4>1, <4>2 DEF SideInv, GovTyped, Changed
    <3> QED BY <1>2, <3>1, <3>2, <3>3 DEF TamperRow
  <2>3. \A i \in 1..n : Changed(i) => Changed(i)'
    BY <1>b, <2>2 DEF Changed, GovRow
  <2>4. \A i \in 1..n : HashBefore(i)' = HashBefore(i)
    BY <1>b, <2>2 DEF HashBefore
  <2>5. GovTyped'
    <3>1. tampers' \in 0..MaxGovTampers /\ govVerify.tampers <= tampers'
      BY <1>b, <2>1, GovAssumption DEF SideInv, GovTyped
    <3> QED BY <1>b, <2>1, <2>2, <3>1 DEF SideInv, GovTyped
  <2>6. GovMade'
    <3> SUFFICES ASSUME NEW i \in 1..n
                 PROVE  /\ sideTable'[i].hash = RowHash(HashBefore(i)', sideTable'[i].id, 1)
                        /\ sideTable'[i].prev \in {HashBefore(i)', Forged}
      BY <2>2 DEF GovMade
    <3>1. /\ sideTable[i].hash = RowHash(HashBefore(i), sideTable[i].id, 1)
          /\ sideTable[i].prev \in {HashBefore(i), Forged}
      BY DEF SideInv, GovMade
    <3> QED BY <2>2, <2>4, <3>1
  <2>7. GovSeen'
    BY <1>b, <2>0, <2>1, <2>2, <2>3 DEF SideInv, GovSeen
  <2>8. VerificationIsTrue'
    BY <1>b, <2>1 DEF SideInv, VerificationIsTrue
  <2> QED BY <2>5, <2>6, <2>7, <2>8 DEF SideInv
<1>3. ASSUME StartVerify PROVE SideInv'
  <2> DEFINE v == [pc |-> "running", at |-> 0, tampers |-> tampers, result |-> "none"]
  <2>1. /\ govVerify' = v /\ govRuns' = govRuns + 1 /\ govRuns < MaxGovRuns
        /\ UNCHANGED <<sideTable, records, tampers>>
    BY <1>3 DEF StartVerify
  <2>2. GovTyped'
    BY <1>b, <2>1, GovAssumption DEF SideInv, GovTyped
  <2>3. GovMade' /\ VerificationIsTrue'
    BY <2>1 DEF SideInv, GovMade, HashBefore, VerificationIsTrue
  <2>4. GovSeen'
    BY <1>b, <2>1 DEF SideInv, GovSeen, Changed
  <2> QED BY <2>2, <2>3, <2>4 DEF SideInv
<1>4. ASSUME VerifyRow PROVE SideInv'
  <2> DEFINE i == govVerify.at + 1
  <2>1. /\ govVerify.pc = "running" /\ UNCHANGED <<sideTable, records, tampers, govRuns>>
        /\ govVerify' = IF i > n THEN [govVerify EXCEPT !.pc = "idle", !.result = "valid"]
                        ELSE IF RowVerdict(i) = "ok" THEN [govVerify EXCEPT !.at = i]
                        ELSE [govVerify EXCEPT !.pc = "idle", !.result = RowVerdict(i)]
    BY <1>4 DEF VerifyRow
  <2>2. i \in Nat /\ i \in 1..(n + 1) /\ (i <= n => i \in 1..n)
    BY <1>b DEF SideInv, GovTyped
  <2>3. \A j \in 1..n : (RowVerdict(j) = "ok" <=> ~Changed(j)) /\ RowVerdict(j) \in {"ok", "broken", "unanchored"}
    BY GovVerdict DEF SideInv
  <2>4. GovMade' /\ \A j \in 1..n : Changed(j)' <=> Changed(j)
    BY <2>1 DEF SideInv, GovMade, HashBefore, Changed
  <2>5. CASE i > n
    <3>1. /\ govVerify'.pc = "idle" /\ govVerify'.result = "valid" /\ govVerify'.at = govVerify.at
          /\ govVerify'.tampers = govVerify.tampers
          /\ govVerify' \in [pc : {"idle", "running"}, at : 0..MaxGovRows, tampers : 0..MaxGovTampers,
                             result : {"none", "valid", "broken", "unanchored"}]
      BY <2>1, <2>5 DEF SideInv, GovTyped
    <3>2. govVerify.tampers = 0
      BY <1>b, <2>1, <2>5 DEF SideInv, GovSeen
    <3>3. GovTyped'
      BY <2>1, <3>1 DEF SideInv, GovTyped
    <3>4. GovSeen' /\ VerificationIsTrue'
      BY <2>1, <2>4, <3>1, <3>2 DEF SideInv, GovSeen, VerificationIsTrue
    <3> QED BY <2>4, <3>3, <3>4 DEF SideInv
  <2>6. CASE i <= n /\ RowVerdict(i) = "ok"
    <3>1. /\ govVerify'.pc = "running" /\ govVerify'.result = govVerify.result /\ govVerify'.at = i
          /\ govVerify'.tampers = govVerify.tampers
          /\ govVerify' \in [pc : {"idle", "running"}, at : 0..MaxGovRows, tampers : 0..MaxGovTampers,
                             result : {"none", "valid", "broken", "unanchored"}]
      BY <1>b, <2>1, <2>2, <2>6, GovAssumption DEF SideInv, GovTyped
    <3>2. GovTyped'
      BY <2>1, <2>6, <3>1 DEF SideInv, GovTyped
    <3>3. ~Changed(i)
      BY <2>2, <2>3, <2>6
    <3>4. GovSeen'
      <4>1. govVerify.tampers > 0 => \E j \in 1..n : j > i /\ Changed(j)
        <5> SUFFICES ASSUME govVerify.tampers > 0 PROVE \E j \in 1..n : j > i /\ Changed(j)
          OBVIOUS
        <5>1. PICK j \in 1..n : j > govVerify.at /\ Changed(j)
          BY <2>1 DEF SideInv, GovSeen
        <5> QED BY <1>b, <3>3, <5>1
      <4>2. (tampers = 0 => \A j \in 1..n : ~Changed(j)) /\ (tampers > 0 => \E j \in 1..n : Changed(j))
        BY DEF SideInv, GovSeen
      <4> HIDE DEF i
      <4> QED BY <2>1, <2>4, <3>1, <4>1, <4>2 DEF GovSeen
    <3>5. VerificationIsTrue'
      BY <2>1, <3>1 DEF SideInv, VerificationIsTrue
    <3> QED BY <2>4, <3>2, <3>4, <3>5 DEF SideInv
  <2>7. CASE i <= n /\ RowVerdict(i) # "ok"
    <3>0. RowVerdict(i) \in {"broken", "unanchored"} /\ Changed(i)
      BY <2>2, <2>3, <2>7
    <3>1. /\ govVerify'.pc = "idle" /\ govVerify'.result = RowVerdict(i) /\ govVerify'.at = govVerify.at
          /\ govVerify'.tampers = govVerify.tampers
          /\ govVerify' \in [pc : {"idle", "running"}, at : 0..MaxGovRows, tampers : 0..MaxGovTampers,
                             result : {"none", "valid", "broken", "unanchored"}]
      <4>1. govVerify' = [govVerify EXCEPT !.pc = "idle", !.result = RowVerdict(i)]
        BY <1>b, <2>1, <2>2, <2>7
      <4>2. govVerify \in [pc : {"idle", "running"}, at : 0..MaxGovRows, tampers : 0..MaxGovTampers,
                           result : {"none", "valid", "broken", "unanchored"}]
        BY DEF SideInv, GovTyped
      <4> QED BY <3>0, <4>1, <4>2
    <3>2. tampers # 0
      BY <2>2, <2>7, <3>0 DEF SideInv, GovSeen
    <3>3. GovTyped'
      BY <2>1, <3>1 DEF SideInv, GovTyped
    <3>4. GovSeen'
      BY <2>1, <2>4, <3>1 DEF SideInv, GovSeen
    <3>5. VerificationIsTrue'
      BY <2>1, <3>0, <3>1, <3>2 DEF VerificationIsTrue
    <3> QED BY <2>4, <3>3, <3>4, <3>5 DEF SideInv
  <2> QED BY <1>b, <2>2, <2>5, <2>6, <2>7
<1>5. CASE UNCHANGED sideVars
  BY <1>5 DEF sideVars, SideInv, GovTyped, GovMade, GovSeen, HashBefore, Changed, VerificationIsTrue
<1> QED BY <1>1, <1>2, <1>3, <1>4, <1>5 DEF SideNext

GovInv == GovCasesOK /\ OnePendingPerRecord /\ SideInv

LEMMA GovStart == GovInit => GovInv
<1> SUFFICES ASSUME GovInit PROVE GovInv
  OBVIOUS
<1>1. GovCasesOK /\ OnePendingPerRecord
  BY DEF GovInit, GovCasesOK, OnePendingPerRecord, NoCase, VerdictOpen
<1>2. sideTable \in Seq(GovRow({})) /\ Len(sideTable) = 0
  BY DEF GovInit
<1>3. GovTyped
  BY <1>2, GovAssumption DEF GovInit, GovTyped, NotVerifying
<1>4. GovMade /\ GovSeen /\ VerificationIsTrue
  BY <1>2 DEF GovInit, GovMade, GovSeen, VerificationIsTrue, NotVerifying
<1> QED BY <1>1, <1>3, <1>4 DEF GovInv, SideInv

LEMMA GovConcludes == GovInv => GovTypeOK /\ GovernorLaneIsSound
<1> SUFFICES ASSUME GovInv PROVE GovTypeOK /\ GovernorLaneIsSound
  OBVIOUS
<1>1. GovTypeOK
  BY DEF GovInv, GovCasesOK, SideInv, GovTyped, GovTypeOK
<1>2. OneVerdictPerCase
  BY DEF GovInv, GovCasesOK, OneVerdictPerCase
<1> QED BY <1>1, <1>2 DEF GovInv, SideInv, GovernorLaneIsSound

-----------------------------------------------------------------------------
(* Tamper-proof log: what a replay finds.                                  *)

TpEvent(H) == [id : H, by : H, body : H, previous : H, hash : H]
TpWriteState(H) == {NoWrite} \cup [at : {"waiting", "woken", "locked", "insert"}, input : TpInputs, id : H, previous : H]

\* The writes, the locks and the chains have their shapes, whatever the values in them are.
TpTyped ==
    /\ \E H : /\ tpWrite \in [TpWriters -> TpWriteState(H)]
              /\ tpChains \in [ChainKeys -> Seq(TpEvent(H))] /\ tpWritten \in [ChainKeys -> Seq(TpEvent(H))]
    /\ lockHolders \in [ChainKeys -> [held : BOOLEAN, holders : SUBSET TpWriters, waiters : SUBSET TpWriters]]
    /\ tpSubmitted \in 0..MaxTpEvents /\ tpTampers \in 0..MaxTampers
    /\ tailTampered \in BOOLEAN /\ lockShared \in BOOLEAN

\* Who holds or waits for a lock is a write that is at it.
TpLocks ==
    /\ \A w \in TpWriters :
          tpWrite[w].at \in {"locked", "insert"} => w \in lockHolders[KeyOf(w)].holders
    /\ \A k \in ChainKeys : \A w \in TpWriters :
          /\ w \in lockHolders[k].holders => tpWrite[w].at \in {"locked", "insert"} /\ KeyOf(w) = k
          /\ w \in lockHolders[k].waiters => tpWrite[w].at = "waiting" /\ KeyOf(w) = k
    /\ \A k \in ChainKeys : ~lockHolders[k].held => lockHolders[k].waiters = {}

\* As long as it was never shared, a lock has one holder.
TpAlone ==
    ~lockShared => \A k \in ChainKeys :
        /\ \A x, y \in lockHolders[k].holders : x = y
        /\ ~lockHolders[k].held => lockHolders[k].holders = {}

Pending(w) == tpWrite[w].at # "idle"

\* Every event has an id of its own and comes from its tenant.
TpIds ==
    /\ \A w \in TpWriters : Pending(w) => tpWrite[w].id \in 1..tpSubmitted /\ AssertTenantScope(tpWrite[w].input)
    /\ \A v, w \in TpWriters : v # w /\ Pending(v) /\ Pending(w) => tpWrite[v].id # tpWrite[w].id
    /\ \A k \in ChainKeys : \A i \in 1..Len(tpWritten[k]) :
          /\ tpWritten[k][i].id \in 1..tpSubmitted
          /\ \A w \in TpWriters : Pending(w) => tpWritten[k][i].id # tpWrite[w].id
          /\ \A j \in 1..Len(tpWritten[k]) : i # j => tpWritten[k][i].id # tpWritten[k][j].id
    /\ OwnTenantOnly

LastHash(chain) == IF chain = <<>> THEN NoHash ELSE chain[Len(chain)].hash

\* An untouched chain is as written and verifies, and the holder has read its end.
TpUntouched ==
    /\ tpTampers = 0 => tpChains = tpWritten
    /\ tpTampers = 0 /\ ~lockShared =>
          /\ \A k \in ChainKeys : ReverseHashChainReplay(tpWritten[k])
          /\ \A w \in TpWriters : tpWrite[w].at = "insert" => tpWrite[w].previous = LastHash(tpWritten[KeyOf(w)])

\* One change before the end of a chain is found.
TpDetected ==
    tpTampers <= 1 /\ ~tailTampered /\ ~lockShared =>
        \A k \in ChainKeys : tpChains[k] = tpWritten[k] \/ ~ReverseHashChainReplay(tpChains[k])

TpInv == TpTyped /\ TpLocks /\ TpAlone /\ TpIds /\ TpUntouched /\ TpDetected

\* A chain that verifies goes on doing so with an event that links to its end.
LEMMA ReplayAppend ==
    ASSUME NEW H, NEW chain \in Seq(TpEvent(H)), NEW ev \in TpEvent(H),
           ReverseHashChainReplay(chain), ev.previous = LastHash(chain), ev.hash = TamperProofHash(ev)
    PROVE  ReverseHashChainReplay(Append(chain, ev))
<1> DEFINE n == Len(chain)
           new == Append(chain, ev)
<1>1. n \in Nat /\ Len(new) = n + 1 /\ DOMAIN new = 1..(n + 1) /\ DOMAIN chain = 1..n
      /\ \A i \in 1..(n + 1) : new[i] = IF i = n + 1 THEN ev ELSE chain[i]
  OBVIOUS
<1> HIDE DEF new
<1>2. ASSUME NEW i \in 1..(n + 1)
      PROVE  /\ (i = 1) <=> (new[i].previous = NoHash)
             /\ TamperProofHash(new[i]) = new[i].hash
             /\ LinkHolds(new, i)
  <2>1. CASE i <= n
    <3>1. i \in DOMAIN chain /\ new[i] = chain[i] /\ (i > 1 => new[i - 1] = chain[i - 1])
      BY <1>1, <2>1
    <3> QED BY <3>1 DEF ReverseHashChainReplay, LinkHolds
  <2>2. CASE i = n + 1
    <3>1. new[i] = ev /\ (i > 1 => new[i - 1] = chain[n] /\ n \in DOMAIN chain)
      BY <1>1, <2>2
    <3>2. i = 1 <=> chain = <<>>
      BY <1>1, <2>2
    <3>3. i > 1 => chain[n].hash # NoHash
      BY <3>1 DEF ReverseHashChainReplay, TamperProofHash, NoHash
    <3> QED BY <1>1, <2>2, <3>1, <3>2, <3>3 DEF LastHash, LinkHolds
  <2> QED BY <1>1, <2>1, <2>2
<1> QED BY <1>1, <1>2 DEF ReverseHashChainReplay, new

\* What fails to verify still fails with one more event.
LEMMA ReplayStaysBroken ==
    ASSUME NEW H, NEW chain \in Seq(TpEvent(H)), NEW ev \in TpEvent(H), ~ReverseHashChainReplay(chain)
    PROVE  ~ReverseHashChainReplay(Append(chain, ev))
<1> DEFINE n == Len(chain)
           new == Append(chain, ev)
<1>1. n \in Nat /\ DOMAIN new = 1..(n + 1) /\ DOMAIN chain = 1..n /\ \A i \in 1..n : new[i] = chain[i]
  OBVIOUS
<1> HIDE DEF new
<1>2. PICK i \in 1..n : ~(/\ (i = 1) <=> (chain[i].previous = NoHash)
                          /\ TamperProofHash(chain[i]) = chain[i].hash
                          /\ LinkHolds(chain, i))
  BY <1>1 DEF ReverseHashChainReplay
<1>3. i \in DOMAIN new /\ new[i] = chain[i] /\ (i > 1 => new[i - 1] = chain[i - 1])
  BY <1>1
<1> QED BY <1>2, <1>3 DEF ReverseHashChainReplay, LinkHolds, new

\* A changed event fails to verify, by its own hash or by the link behind it.
LEMMA ChangeIsFound ==
    ASSUME NEW H, NEW chain \in Seq(TpEvent(H)), ReverseHashChainReplay(chain), NEW i \in 1..Len(chain), i # Len(chain),
           NEW ev \in Tampered(chain[i]), ev # chain[i]
    PROVE  ~ReverseHashChainReplay([chain EXCEPT ![i] = ev])
<1> DEFINE new == [chain EXCEPT ![i] = ev]
           old == chain[i]
<1>1. /\ DOMAIN new = 1..Len(chain) /\ DOMAIN chain = 1..Len(chain) /\ i + 1 \in 1..Len(chain) /\ i \in Int
      /\ new[i] = ev /\ new[i + 1] = chain[i + 1]
  OBVIOUS
<1> HIDE DEF new
<1>2. old \in TpEvent(H) /\ old.hash = TamperProofHash(old) /\ chain[i + 1].previous = old.hash
  BY <1>1 DEF ReverseHashChainReplay, LinkHolds
<1>3. old = [id |-> old.id, by |-> old.by, body |-> old.body, previous |-> old.previous, hash |-> old.hash]
  BY <1>2 DEF TpEvent
<1> SUFFICES ASSUME ReverseHashChainReplay(new) PROVE FALSE
  BY DEF new
<1>4. TamperProofHash(ev) = ev.hash /\ ev.hash = old.hash
  <2>a. i \in Int /\ i >= 1 /\ i + 1 > 1 /\ (i + 1) - 1 = i
    <3>1. PICK m \in Nat : m = Len(chain)
      OBVIOUS
    <3>2. i \in 1..m
      BY <3>1
    <3> QED BY <3>2
  <2>1. i \in DOMAIN new /\ i + 1 \in DOMAIN new
    BY <1>1
  <2>2. TamperProofHash(new[i]) = new[i].hash /\ new[i + 1].previous = new[i].hash
    BY <2>1, <2>a DEF ReverseHashChainReplay, LinkHolds
  <2> QED BY <1>1, <1>2, <2>2
<1>5. ev.id = old.id /\ ev.by = old.by
      /\ ev = [id |-> ev.id, by |-> ev.by, body |-> ev.body, previous |-> ev.previous, hash |-> ev.hash]
  BY <1>2 DEF Tampered, TpEvent
<1>6. ev.body = old.body /\ ev.previous = old.previous
  BY <1>2, <1>4 DEF TamperProofHash
<1> QED BY <1>3, <1>4, <1>5, <1>6

\* A removed event leaves a gap.
LEMMA GapIsFound ==
    ASSUME NEW H, NEW chain \in Seq(TpEvent(H)), ReverseHashChainReplay(chain), NEW i \in 1..Len(chain), i # Len(chain),
           \A x, y \in 1..Len(chain) : x # y => chain[x].id # chain[y].id
    PROVE  ~ReverseHashChainReplay(SubSeq(chain, 1, i - 1) \o SubSeq(chain, i + 1, Len(chain)))
<1> DEFINE front == SubSeq(chain, 1, i - 1)
           back == SubSeq(chain, i + 1, Len(chain))
           new == front \o back
<1> HIDE DEF front, back, new
<1>1. PICK n \in Nat : n = Len(chain)
  OBVIOUS
<1>2. i \in Int /\ i - 1 \in Int /\ i + 1 \in Int /\ i >= 1 /\ i < n /\ DOMAIN chain = 1..n /\ i + 1 \in 1..n
  BY <1>1
<1>e. \A x \in 1..n : chain[x] \in TpEvent(H)
  BY <1>1, ElementOfSeq
<1>f. \A x \in 1..(i - 1) : chain[x] \in TpEvent(H)
  BY <1>2, <1>e
<1>g. \A x \in (i + 1)..n : chain[x] \in TpEvent(H)
  BY <1>2, <1>e
<1>a. /\ front \in Seq(TpEvent(H)) /\ Len(front) = IF 1 <= i - 1 THEN (i - 1) - 1 + 1 ELSE 0
      /\ \A x \in 1..((i - 1) - 1 + 1) : front[x] = chain[1 + x - 1]
  BY <1>2, <1>f, SubSeqProperties DEF front
<1>b. Len(front) = i - 1 /\ (i > 1 => front[i - 1] = chain[i - 1])
  <2>1. i > 1 => i - 1 \in 1..((i - 1) - 1 + 1) /\ 1 + (i - 1) - 1 = i - 1
    BY <1>2
  <2>2. i > 1 => front[i - 1] = chain[i - 1]
    BY <1>a, <2>1
  <2> QED BY <1>2, <1>a, <2>2
<1>h. /\ back \in Seq(TpEvent(H)) /\ Len(back) = IF i + 1 <= n THEN n - (i + 1) + 1 ELSE 0
      /\ \A x \in 1..(n - (i + 1) + 1) : back[x] = chain[(i + 1) + x - 1]
  BY <1>1, <1>2, <1>g, SubSeqProperties DEF back
<1>c. Len(back) = n - i /\ back[1] = chain[i + 1]
  <2>1. 1 \in 1..(n - (i + 1) + 1) /\ (i + 1) + 1 - 1 = i + 1
    BY <1>2
  <2>2. back[1] = chain[i + 1]
    BY <1>h, <2>1
  <2> QED BY <1>2, <1>h, <2>2
<1>d. /\ new \in Seq(TpEvent(H)) /\ Len(new) = (i - 1) + (n - i)
      /\ \A x \in 1..((i - 1) + (n - i)) : new[x] = IF x <= i - 1 THEN front[x] ELSE back[x - (i - 1)]
  <2>1. /\ front \o back \in Seq(TpEvent(H)) /\ Len(front \o back) = Len(front) + Len(back)
        /\ \A x \in 1..(Len(front) + Len(back)) : (front \o back)[x] = IF x <= Len(front) THEN front[x] ELSE back[x - Len(front)]
    BY <1>a, <1>h, ConcatProperties
  <2> QED BY <1>b, <1>c, <2>1, Zenon DEF new
<1>3. DOMAIN new = 1..(n - 1) /\ new[i] = chain[i + 1] /\ (i > 1 => new[i - 1] = chain[i - 1])
  <2>1. DOMAIN new = 1..(n - 1)
    BY <1>2, <1>d
  <2>2. i \in 1..((i - 1) + (n - i)) /\ ~(i <= i - 1) /\ i - (i - 1) = 1
    BY <1>2
  <2>3. i > 1 => i - 1 \in 1..((i - 1) + (n - i)) /\ i - 1 <= i - 1
    BY <1>2
  <2>4. new[i] = back[1]
    BY <1>d, <2>2
  <2>5. i > 1 => new[i - 1] = front[i - 1]
    BY <1>d, <2>3
  <2> QED BY <1>b, <1>c, <2>1, <2>4, <2>5
<1>4. chain[i + 1].previous = chain[i].hash /\ chain[i].hash = TamperProofHash(chain[i])
  <2>1. i \in DOMAIN chain /\ i + 1 \in DOMAIN chain /\ i + 1 > 1 /\ (i + 1) - 1 = i
    BY <1>2
  <2> QED BY <2>1 DEF ReverseHashChainReplay, LinkHolds
<1>5. ~ReverseHashChainReplay(new)
  <2>1. CASE i = 1
    <3>a. new[1].previous = TamperProofHash(chain[1])
      BY <1>3, <1>4, <2>1
    <3>b. TamperProofHash(chain[1]) # NoHash
      BY DEF TamperProofHash, NoHash
    <3>1. new[1].previous # NoHash /\ 1 \in DOMAIN new
      BY <1>2, <1>3, <2>1, <3>a, <3>b
    <3> QED BY <3>1 DEF ReverseHashChainReplay
  <2>2. CASE i # 1
    <3>1. i > 1 /\ i - 1 \in 1..n /\ i \in 1..n /\ i - 1 # i /\ i \in DOMAIN new
      BY <1>2, <1>3, <2>2
    <3>2. chain[i - 1].hash = TamperProofHash(chain[i - 1]) /\ chain[i - 1].id # chain[i].id
      BY <1>1, <1>2, <3>1 DEF ReverseHashChainReplay
    <3>3. new[i].previous # new[i - 1].hash
      BY <1>3, <1>4, <3>1, <3>2 DEF TamperProofHash
    <3> QED BY <3>1, <3>3 DEF ReverseHashChainReplay, LinkHolds
  <2> QED BY <2>1, <2>2
<1> QED BY <1>5 DEF new, front, back

\* The shape of a write and of a lock.
LEMMA TpShape ==
    ASSUME TpTyped, NEW w \in TpWriters
    PROVE  /\ tpWrite[w].at \in {"idle", "waiting", "woken", "locked", "insert"}
           /\ tpWrite[w].at = "idle" => tpWrite[w] = NoWrite
           /\ Pending(w) => tpWrite[w].input \in TpInputs /\ KeyOf(w) \in ChainKeys
           /\ Pending(w) => tpWrite[w] = [at |-> tpWrite[w].at, input |-> tpWrite[w].input,
                                          id |-> tpWrite[w].id, previous |-> tpWrite[w].previous]
<1>1. PICK H : tpWrite \in [TpWriters -> TpWriteState(H)]
  BY DEF TpTyped
<1>2. tpWrite[w] \in TpWriteState(H)
  BY <1>1
<1>3. /\ tpWrite[w].at \in {"idle", "waiting", "woken", "locked", "insert"}
      /\ tpWrite[w].at = "idle" => tpWrite[w] = NoWrite
      /\ Pending(w) => tpWrite[w].input \in TpInputs
      /\ Pending(w) => tpWrite[w] = [at |-> tpWrite[w].at, input |-> tpWrite[w].input,
                                     id |-> tpWrite[w].id, previous |-> tpWrite[w].previous]
  BY <1>2 DEF TpWriteState, NoWrite, Pending
<1>4. Pending(w) => KeyOf(w) \in ChainKeys
  BY <1>3, TpAssumption DEF KeyOf, ChainKeys
<1> QED BY <1>3, <1>4

\* The shapes with more values in them.
LEMMA TpWiden ==
    ASSUME NEW H, NEW G, H \subseteq G
    PROVE  /\ TpWriteState(H) \subseteq TpWriteState(G) /\ TpEvent(H) \subseteq TpEvent(G)
           /\ \A s \in Seq(TpEvent(H)) : s \in Seq(TpEvent(G))
<1>1. TpWriteState(H) \subseteq TpWriteState(G)
  BY DEF TpWriteState
<1>2. TpEvent(H) \subseteq TpEvent(G)
  BY DEF TpEvent
<1> QED BY <1>1, <1>2

LEMMA TpSubmits ==
    ASSUME TpInv, NEW w \in TpWriters, NEW i \in TpInputs, SubmitEvent(w, i)
    PROVE  TpInv'
<1> DEFINE k == <<i.tenant, i.class>>
           lock == lockHolders[k]
           c == [at |-> IF lock.held THEN "waiting" ELSE "locked", input |-> i, id |-> tpSubmitted + 1, previous |-> NoHash]
           l == [held |-> TRUE, holders |-> IF lock.held THEN lock.holders ELSE lock.holders \cup {w},
                 waiters |-> IF lock.held THEN lock.waiters \cup {w} ELSE lock.waiters]
<1>1. /\ tpWrite[w].at = "idle" /\ tpSubmitted' = tpSubmitted + 1 /\ ~Pending(w)
      /\ UNCHANGED <<tpChains, tpTampers, tpWritten, tailTampered, lockShared>>
  BY DEF SubmitEvent, Pending
<1>2. tpSubmitted \in Nat /\ tpSubmitted' \in 0..MaxTpEvents /\ \A x \in 1..tpSubmitted : x \in 1..tpSubmitted' /\ x # tpSubmitted + 1
  BY <1>1, TpAssumption DEF SubmitEvent, TpInv, TpTyped
<1>3. CASE ~(AssertTenantScope(i) /\ AssertDbRoleMatchesAuditClass(i.role, i.class))
  <2>1. UNCHANGED <<tpWrite, lockHolders>>
    BY <1>3 DEF SubmitEvent
  <2>2. TpTyped'
    BY <1>1, <1>2, <2>1 DEF TpInv, TpTyped
  <2>3. TpLocks' /\ TpAlone'
    BY <1>1, <2>1 DEF TpInv, TpLocks, TpAlone, KeyOf
  <2>4. TpIds'
    BY <1>1, <1>2, <2>1 DEF TpInv, TpIds, Pending, OwnTenantOnly
  <2>5. TpUntouched' /\ TpDetected'
    BY <1>1, <2>1 DEF TpInv, TpUntouched, TpDetected, KeyOf
  <2> QED BY <2>2, <2>3, <2>4, <2>5 DEF TpInv
<1>4. CASE AssertTenantScope(i) /\ AssertDbRoleMatchesAuditClass(i.role, i.class)
  <2>1. k \in ChainKeys
    BY TpAssumption DEF ChainKeys
  <2>2. lock \in [held : BOOLEAN, holders : SUBSET TpWriters, waiters : SUBSET TpWriters]
    BY <2>1 DEF TpInv, TpTyped
  <2>3. tpWrite' = [tpWrite EXCEPT ![w] = c]
    BY <1>4 DEF SubmitEvent
  <2>4. lockHolders' = [lockHolders EXCEPT ![k] = l]
    BY <1>4 DEF SubmitEvent, AcquireAdvisoryLock
  <2>5. /\ c.at = (IF lock.held THEN "waiting" ELSE "locked") /\ c.input = i /\ c.id = tpSubmitted + 1
        /\ l.held = TRUE /\ l.holders = (IF lock.held THEN lock.holders ELSE lock.holders \cup {w})
        /\ l.waiters = (IF lock.held THEN lock.waiters \cup {w} ELSE lock.waiters)
        /\ l \in [held : BOOLEAN, holders : SUBSET TpWriters, waiters : SUBSET TpWriters]
    BY <2>2
  <2>6. PICK H : /\ tpWrite \in [TpWriters -> TpWriteState(H)]
                 /\ tpChains \in [ChainKeys -> Seq(TpEvent(H))] /\ tpWritten \in [ChainKeys -> Seq(TpEvent(H))]
    BY DEF TpInv, TpTyped
  <2> DEFINE G == H \cup {tpSubmitted + 1, NoHash}
  <2>7. c \in TpWriteState(G)
    BY DEF TpWriteState
  <2> HIDE DEF c, l, k
  <2>8. /\ \A v \in TpWriters : tpWrite'[v] = IF v = w THEN c ELSE tpWrite[v]
        /\ \A q \in ChainKeys : lockHolders'[q] = IF q = k THEN l ELSE lockHolders[q]
    BY <2>1, <2>3, <2>4, <2>6 DEF TpInv, TpTyped
  <2>9. KeyOf(w)' = k /\ \A v \in TpWriters : v # w => KeyOf(v)' = KeyOf(v)
    BY <2>5, <2>8 DEF KeyOf, k
  <2>10. \A v \in TpWriters : Pending(v)' <=> v = w \/ Pending(v)
    BY <1>1, <2>5, <2>8 DEF Pending
  <2>11. TpTyped'
    <3>1. \A v \in TpWriters : tpWrite[v] \in TpWriteState(G)
      BY <2>6, TpWiden
    <3>2. tpWrite' \in [TpWriters -> TpWriteState(G)]
      BY <2>3, <2>6, <2>7, <3>1
    <3>3. tpChains' \in [ChainKeys -> Seq(TpEvent(G))] /\ tpWritten' \in [ChainKeys -> Seq(TpEvent(G))]
      <4>1. H \subseteq G
        OBVIOUS
      <4> HIDE DEF G
      <4> QED BY <1>1, <2>6, <4>1, TpWiden
    <3>4. lockHolders' \in [ChainKeys -> [held : BOOLEAN, holders : SUBSET TpWriters, waiters : SUBSET TpWriters]]
      BY <2>4, <2>5 DEF TpInv, TpTyped
    <3>5. tpTampers' \in 0..MaxTampers /\ tailTampered' \in BOOLEAN /\ lockShared' \in BOOLEAN
      BY <1>1 DEF TpInv, TpTyped
    <3> HIDE DEF G
    <3> QED BY <1>2, <3>2, <3>3, <3>4, <3>5 DEF TpTyped
  <2>12. \A q \in ChainKeys : w \notin lockHolders[q].holders /\ w \notin lockHolders[q].waiters
    BY <1>1 DEF TpInv, TpLocks
  <2>13. TpLocks'
    <3>1. ASSUME NEW v \in TpWriters
          PROVE  tpWrite'[v].at \in {"locked", "insert"} => v \in lockHolders'[KeyOf(v)'].holders
      <4>1. CASE v = w
        BY <2>1, <2>5, <2>8, <2>9, <4>1
      <4>2. CASE v # w
        <5>1. /\ tpWrite'[v] = tpWrite[v] /\ KeyOf(v)' = KeyOf(v)
              /\ tpWrite[v].at \in {"waiting", "locked", "insert"} => KeyOf(v) \in ChainKeys
          BY <2>8, <2>9, <4>2, TpShape DEF TpInv, Pending
        <5>2. tpWrite[v].at \in {"locked", "insert"} => v \in lockHolders[KeyOf(v)].holders
          BY DEF TpInv, TpLocks
        <5>3. ASSUME NEW q \in ChainKeys
              PROVE lockHolders[q].holders \subseteq lockHolders'[q].holders
          BY <2>5, <2>8
        <5> QED BY <5>1, <5>2, <5>3
      <4> QED BY <4>1, <4>2
    <3>2. ASSUME NEW q \in ChainKeys, NEW v \in TpWriters
          PROVE  /\ v \in lockHolders'[q].holders => tpWrite'[v].at \in {"locked", "insert"} /\ KeyOf(v)' = q
                 /\ v \in lockHolders'[q].waiters => tpWrite'[v].at = "waiting" /\ KeyOf(v)' = q
                 /\ ~lockHolders'[q].held => lockHolders'[q].waiters = {}
      <4>1. CASE v = w
        BY <2>5, <2>8, <2>9, <2>12, <4>1 DEF TpInv, TpLocks
      <4>2. CASE v # w
        BY <2>5, <2>8, <2>9, <4>2 DEF TpInv, TpLocks
      <4> QED BY <4>1, <4>2
    <3>3. \A q \in ChainKeys : ~lockHolders'[q].held => lockHolders'[q].waiters = {}
      BY <2>5, <2>8 DEF TpInv, TpLocks
    <3> QED BY <3>1, <3>2, <3>3 DEF TpLocks
  <2>14. TpAlone'
    BY <1>1, <2>1, <2>5, <2>8 DEF TpInv, TpAlone
  <2>15. TpIds'
    <3>1. \A v \in TpWriters : Pending(v)' => tpWrite'[v].id \in 1..tpSubmitted' /\ AssertTenantScope(tpWrite'[v].input)
      <4>1. AssertTenantScope(i) /\ tpSubmitted + 1 \in 1..tpSubmitted'
        BY <1>1, <1>2, <1>4
      <4> QED BY <1>2, <2>5, <2>8, <2>10, <4>1 DEF TpInv, TpIds
    <3>2. ASSUME NEW u \in TpWriters, NEW v \in TpWriters, u # v, Pending(u)', Pending(v)'
          PROVE tpWrite'[u].id # tpWrite'[v].id
      BY <1>2, <2>5, <2>8, <2>10, <3>2 DEF TpInv, TpIds
    <3>3. ASSUME NEW q \in ChainKeys, NEW x \in 1..Len(tpWritten[q])
          PROVE  /\ tpWritten[q][x].id \in 1..tpSubmitted'
                 /\ \A v \in TpWriters : Pending(v)' => tpWritten[q][x].id # tpWrite'[v].id
                 /\ \A y \in 1..Len(tpWritten[q]) : x # y => tpWritten[q][x].id # tpWritten[q][y].id
      <4>1. /\ tpWritten[q][x].id \in 1..tpSubmitted
            /\ \A v \in TpWriters : Pending(v) => tpWritten[q][x].id # tpWrite[v].id
            /\ \A y \in 1..Len(tpWritten[q]) : x # y => tpWritten[q][x].id # tpWritten[q][y].id
        BY DEF TpInv, TpIds
      <4>2. \A v \in TpWriters : Pending(v)' => tpWritten[q][x].id # tpWrite'[v].id
        BY <1>2, <2>5, <2>8, <2>10, <4>1
      <4> QED BY <1>2, <4>1, <4>2
    <3>4. OwnTenantOnly'
      BY <1>1 DEF TpInv, TpIds, OwnTenantOnly
    <3>5. tpWritten' = tpWritten
      BY <1>1
    <3> QED BY <3>1, <3>2, <3>3, <3>4, <3>5 DEF TpIds
  <2>16. TpUntouched'
    <3>1. \A v \in TpWriters : tpWrite'[v].at = "insert" => v # w /\ tpWrite'[v] = tpWrite[v] /\ KeyOf(v)' = KeyOf(v)
      BY <2>5, <2>8, <2>9
    <3> QED BY <1>1, <3>1 DEF TpInv, TpUntouched
  <2>17. TpDetected'
    BY <1>1 DEF TpInv, TpDetected
  <2> QED BY <2>11, <2>13, <2>14, <2>15, <2>16, <2>17 DEF TpInv
<1> QED BY <1>3, <1>4

\* What the locks say depends on where the writes are and on the locks.
LEMMA TpFetches ==
    ASSUME TpInv, NEW w \in TpWriters, FetchLastTamperProofHash(w)
    PROVE  TpInv'
<1> DEFINE k == KeyOf(w)
           c == [at |-> "insert", input |-> tpWrite[w].input, id |-> tpWrite[w].id, previous |-> LastHash(tpChains[k])]
<1>1. /\ tpWrite[w].at = "locked" /\ Pending(w) /\ tpWrite' = [tpWrite EXCEPT ![w] = c]
      /\ UNCHANGED <<tpChains, lockHolders, tpSubmitted, tpTampers, tpWritten, tailTampered, lockShared>>
  BY DEF FetchLastTamperProofHash, Pending, LastHash
<1>2. PICK H : /\ tpWrite \in [TpWriters -> TpWriteState(H)]
               /\ tpChains \in [ChainKeys -> Seq(TpEvent(H))] /\ tpWritten \in [ChainKeys -> Seq(TpEvent(H))]
  BY DEF TpInv, TpTyped
<1> DEFINE G == H \cup {LastHash(tpChains[k])}
<1>3. /\ tpWrite[w].input \in TpInputs /\ k \in ChainKeys
      /\ tpWrite[w] = [at |-> tpWrite[w].at, input |-> tpWrite[w].input, id |-> tpWrite[w].id, previous |-> tpWrite[w].previous]
  BY <1>1, TpShape DEF TpInv
<1>4. /\ c.at = "insert" /\ c.input = tpWrite[w].input /\ c.id = tpWrite[w].id /\ c.previous = LastHash(tpChains[k])
  BY <1>3
<1>5. c \in TpWriteState(G)
  <2>1. tpWrite[w] \in TpWriteState(H) /\ tpWrite[w] # NoWrite
    BY <1>1, <1>2 DEF NoWrite
  <2>2. tpWrite[w].id \in H
    BY <2>1 DEF TpWriteState
  <2> QED BY <1>3, <2>2 DEF TpWriteState
<1> HIDE DEF c, k
<1>6. \A v \in TpWriters : tpWrite'[v] = IF v = w THEN c ELSE tpWrite[v]
  BY <1>1, <1>2
<1>7. \A v \in TpWriters : /\ KeyOf(v)' = KeyOf(v) /\ (Pending(v)' <=> Pending(v))
                           /\ tpWrite'[v].id = tpWrite[v].id /\ tpWrite'[v].input = tpWrite[v].input
                           /\ tpWrite'[v].at \in {"locked", "insert"} <=> tpWrite[v].at \in {"locked", "insert"}
                           /\ tpWrite'[v].at = "waiting" <=> tpWrite[v].at = "waiting"
  BY <1>1, <1>4, <1>6 DEF KeyOf, Pending
<1>8. TpTyped'
  <2>1. H \subseteq G
    OBVIOUS
  <2> HIDE DEF G
  <2>2. /\ \A v \in TpWriters : tpWrite[v] \in TpWriteState(G)
        /\ tpChains' \in [ChainKeys -> Seq(TpEvent(G))] /\ tpWritten' \in [ChainKeys -> Seq(TpEvent(G))]
    BY <1>1, <1>2, <2>1, TpWiden
  <2>3. tpWrite' \in [TpWriters -> TpWriteState(G)]
    BY <1>1, <1>2, <1>5, <2>2
  <2> QED BY <1>1, <2>2, <2>3 DEF TpInv, TpTyped
<1>9. TpLocks' /\ TpAlone'
  BY <1>1, <1>7 DEF TpInv, TpLocks, TpAlone
<1>10. TpIds'
  <2>1. OwnTenantOnly'
    BY <1>1 DEF TpInv, TpIds, OwnTenantOnly
  <2> QED BY <1>1, <1>7, <2>1 DEF TpInv, TpIds
<1>11. TpUntouched' /\ TpDetected'
  BY <1>1, <1>4, <1>6, <1>7 DEF TpInv, TpUntouched, TpDetected, k
<1> QED BY <1>8, <1>9, <1>10, <1>11 DEF TpInv

\* The event a write stores.
LEMMA TpEventShape ==
    ASSUME NEW w \in TpWriters
    PROVE  /\ EventOf(w) = [id |-> tpWrite[w].id, by |-> tpWrite[w].input.actor, body |-> tpWrite[w].input.body,
                            previous |-> tpWrite[w].previous, hash |-> TamperProofHash(EventOf(w))]
           /\ EventOf(w).id = tpWrite[w].id /\ EventOf(w).by = tpWrite[w].input.actor
           /\ EventOf(w).previous = tpWrite[w].previous /\ EventOf(w).hash = TamperProofHash(EventOf(w))
BY DEF EventOf, TamperProofHash

LEMMA TpInserts ==
    ASSUME TpInv, NEW w \in TpWriters, InsertEvent(w)
    PROVE  TpInv'
<1> DEFINE k == KeyOf(w)
           ev == EventOf(w)
           lock == lockHolders[k]
           l == LetGo(lock, w)
           stored == tpWrite[w].input.body # BadBody
<1>1. /\ tpWrite[w].at = "insert" /\ Pending(w) /\ UNCHANGED <<tpSubmitted, tpTampers, tailTampered, lockShared>>
      /\ lockHolders' = [lockHolders EXCEPT ![k] = l]
      /\ tpWrite' = [x \in TpWriters |-> IF x = w THEN NoWrite
                                         ELSE IF x \in lock.waiters
                                         THEN [tpWrite[x] EXCEPT !.at = "woken"] ELSE tpWrite[x]]
  BY DEF InsertEvent, ReleaseAdvisoryLock, Pending
<1>2. k \in ChainKeys /\ tpWrite[w].input \in TpInputs
  BY <1>1, TpShape DEF TpInv
<1>3. lock \in [held : BOOLEAN, holders : SUBSET TpWriters, waiters : SUBSET TpWriters]
  BY <1>2 DEF TpInv, TpTyped
<1>4. /\ l.held = FALSE /\ l.holders = lock.holders \ {w} /\ l.waiters = {}
      /\ l \in [held : BOOLEAN, holders : SUBSET TpWriters, waiters : SUBSET TpWriters]
  BY <1>3 DEF LetGo
<1>5. PICK H : /\ tpWrite \in [TpWriters -> TpWriteState(H)]
               /\ tpChains \in [ChainKeys -> Seq(TpEvent(H))] /\ tpWritten \in [ChainKeys -> Seq(TpEvent(H))]
  BY DEF TpInv, TpTyped
<1> DEFINE G == H \cup {tpWrite[w].id, tpWrite[w].input.actor, tpWrite[w].input.body, tpWrite[w].previous, TamperProofHash(ev)}
<1>6. ev \in TpEvent(G)
  BY TpEventShape DEF TpEvent
<1>7. H \subseteq G
  OBVIOUS
<1>8. /\ ev.id = tpWrite[w].id /\ ev.by = tpWrite[w].input.actor
      /\ ev.previous = tpWrite[w].previous /\ ev.hash = TamperProofHash(ev)
  BY TpEventShape
<1>9. /\ stored => tpChains' = [tpChains EXCEPT ![k] = Append(tpChains[k], ev)]
                   /\ tpWritten' = [tpWritten EXCEPT ![k] = Append(tpWritten[k], ev)]
      /\ ~stored => UNCHANGED <<tpChains, tpWritten>>
  BY DEF InsertEvent
<1> HIDE DEF k, ev, l, stored, G
<1>10. /\ \A v \in TpWriters : tpWrite[v] \in TpWriteState(G)
       /\ tpChains \in [ChainKeys -> Seq(TpEvent(G))] /\ tpWritten \in [ChainKeys -> Seq(TpEvent(G))]
  BY <1>5, <1>7, TpWiden
<1>11. \A q \in ChainKeys : /\ q = k /\ stored => tpChains'[q] = Append(tpChains[q], ev) /\ tpWritten'[q] = Append(tpWritten[q], ev)
                            /\ ~(q = k /\ stored) => tpChains'[q] = tpChains[q] /\ tpWritten'[q] = tpWritten[q]
  BY <1>2, <1>9, <1>10
<1>12. \A q \in ChainKeys : lockHolders'[q] = IF q = k THEN l ELSE lockHolders[q]
  BY <1>1, <1>2 DEF TpInv, TpTyped
<1>13. tpWrite'[w] = NoWrite /\ ~Pending(w)'
  BY <1>1 DEF NoWrite, Pending
<1>14. ASSUME NEW v \in TpWriters, v # w
       PROVE  /\ tpWrite'[v].at = IF v \in lock.waiters THEN "woken" ELSE tpWrite[v].at
              /\ v \in lock.waiters => tpWrite[v].at = "waiting" /\ KeyOf(v) = k
              /\ (Pending(v)' <=> Pending(v))
              /\ Pending(v) => tpWrite'[v].id = tpWrite[v].id /\ tpWrite'[v].input = tpWrite[v].input
                               /\ KeyOf(v)' = KeyOf(v) /\ tpWrite'[v].previous = tpWrite[v].previous
              /\ tpWrite'[v] \in TpWriteState(G)
  <2>1. v \in lock.waiters => tpWrite[v].at = "waiting" /\ KeyOf(v) = k
    BY <1>2 DEF TpInv, TpLocks, k
  <2>2. CASE v \in lock.waiters
    <3>1. tpWrite'[v] = [tpWrite[v] EXCEPT !.at = "woken"]
      BY <1>1, <1>14, <2>2
    <3>2. Pending(v) /\ tpWrite[v] = [at |-> tpWrite[v].at, input |-> tpWrite[v].input, id |-> tpWrite[v].id, previous |-> tpWrite[v].previous]
      BY <2>1, <2>2, TpShape DEF TpInv, Pending
    <3>3. tpWrite'[v] = [at |-> "woken", input |-> tpWrite[v].input, id |-> tpWrite[v].id, previous |-> tpWrite[v].previous]
      BY <3>1, <3>2
    <3>4. /\ tpWrite'[v].at = "woken" /\ tpWrite'[v].id = tpWrite[v].id /\ tpWrite'[v].input = tpWrite[v].input
          /\ tpWrite'[v].previous = tpWrite[v].previous
      BY <3>3
    <3>5. tpWrite[v].input \in TpInputs /\ tpWrite[v].id \in G /\ tpWrite[v].previous \in G
      <4>1. tpWrite[v] \in TpWriteState(G) /\ tpWrite[v] # NoWrite
        BY <1>10, <2>1, <2>2 DEF NoWrite
      <4> QED BY <4>1 DEF TpWriteState
    <3>6. tpWrite'[v] \in TpWriteState(G)
      BY <3>3, <3>5 DEF TpWriteState
    <3>7. KeyOf(v)' = KeyOf(v) /\ Pending(v)'
      BY <3>4 DEF KeyOf, Pending
    <3> QED BY <2>1, <2>2, <3>2, <3>4, <3>6, <3>7
  <2>3. CASE v \notin lock.waiters
    <3>1. tpWrite'[v] = tpWrite[v]
      BY <1>1, <1>14, <2>3
    <3> QED BY <1>10, <2>3, <3>1 DEF Pending, KeyOf
  <2> QED BY <2>2, <2>3
<1>15. TpTyped'
  <2>1. tpWrite' \in [TpWriters -> TpWriteState(G)]
    <3>1. tpWrite' = [x \in TpWriters |-> tpWrite'[x]]
      BY <1>1
    <3>2. \A x \in TpWriters : tpWrite'[x] \in TpWriteState(G)
      BY <1>13, <1>14 DEF TpWriteState
    <3> QED BY <3>1, <3>2
  <2>2. tpChains' \in [ChainKeys -> Seq(TpEvent(G))] /\ tpWritten' \in [ChainKeys -> Seq(TpEvent(G))]
    <3>1. CASE stored
      <4>1. Append(tpChains[k], ev) \in Seq(TpEvent(G)) /\ Append(tpWritten[k], ev) \in Seq(TpEvent(G))
        BY <1>2, <1>6, <1>10
      <4> QED BY <1>9, <1>10, <3>1, <4>1
    <3>2. CASE ~stored
      BY <1>9, <1>10, <3>2
    <3> QED BY <3>1, <3>2
  <2>3. lockHolders' \in [ChainKeys -> [held : BOOLEAN, holders : SUBSET TpWriters, waiters : SUBSET TpWriters]]
    BY <1>1, <1>4 DEF TpInv, TpTyped
  <2> QED BY <1>1, <2>1, <2>2, <2>3 DEF TpInv, TpTyped
<1>16. TpLocks'
  <2>1. ASSUME NEW v \in TpWriters
        PROVE  tpWrite'[v].at \in {"locked", "insert"} => v \in lockHolders'[KeyOf(v)'].holders
    <3>1. CASE v = w
      BY <1>13, <3>1 DEF NoWrite
    <3>2. CASE v # w
      <4>1. SUFFICES ASSUME Pending(v) PROVE tpWrite'[v].at \in {"locked", "insert"} => v \in lockHolders'[KeyOf(v)'].holders
        BY <1>14, <3>2 DEF Pending
      <4>2. KeyOf(v) \in ChainKeys /\ KeyOf(v)' = KeyOf(v)
        BY <1>14, <3>2, <4>1, TpShape DEF TpInv
      <4>3. tpWrite[v].at \in {"locked", "insert"} => v \in lockHolders[KeyOf(v)].holders
        BY DEF TpInv, TpLocks
      <4> QED BY <1>4, <1>12, <1>14, <3>2, <4>2, <4>3
    <3> QED BY <3>1, <3>2
  <2>2. ASSUME NEW q \in ChainKeys, NEW v \in TpWriters
        PROVE  /\ v \in lockHolders'[q].holders => tpWrite'[v].at \in {"locked", "insert"} /\ KeyOf(v)' = q
               /\ v \in lockHolders'[q].waiters => tpWrite'[v].at = "waiting" /\ KeyOf(v)' = q
    <3>1. /\ v \in lockHolders[q].holders => tpWrite[v].at \in {"locked", "insert"} /\ KeyOf(v) = q
          /\ v \in lockHolders[q].waiters => tpWrite[v].at = "waiting" /\ KeyOf(v) = q
      BY DEF TpInv, TpLocks
    <3>2. w \in lockHolders[q].holders => q = k
      BY DEF TpInv, TpLocks, k
    <3>3. w \notin lockHolders[q].waiters
      BY <1>1 DEF TpInv, TpLocks
    <3>4. CASE v = w
      BY <1>4, <1>12, <3>2, <3>3, <3>4
    <3>5. CASE v # w
      <4>1. v \in lock.waiters => lock.waiters = lockHolders[k].waiters /\ KeyOf(v) = k
        BY <1>14, <3>5
      <4> QED BY <1>4, <1>12, <1>14, <3>1, <3>5, <4>1 DEF Pending
    <3> QED BY <3>4, <3>5
  <2>3. \A q \in ChainKeys : ~lockHolders'[q].held => lockHolders'[q].waiters = {}
    BY <1>4, <1>12 DEF TpInv, TpLocks
  <2> QED BY <2>1, <2>2, <2>3 DEF TpLocks
<1>17. w \in lock.holders
  BY <1>1, <1>2 DEF TpInv, TpLocks, k
<1>18. TpAlone'
  <2> SUFFICES ASSUME ~lockShared', NEW q \in ChainKeys
               PROVE  /\ \A x, y \in lockHolders'[q].holders : x = y
                      /\ ~lockHolders'[q].held => lockHolders'[q].holders = {}
    BY DEF TpAlone
  <2>1. ~lockShared
    BY <1>1
  <2>2. CASE q = k
    <3>1. \A x \in lock.holders : x = w
      BY <1>2, <1>17, <2>1 DEF TpInv, TpAlone
    <3> QED BY <1>4, <1>12, <2>2, <3>1
  <2>3. CASE q # k
    BY <1>12, <2>1, <2>3 DEF TpInv, TpAlone
  <2> QED BY <2>2, <2>3
<1>19. \A q \in ChainKeys : tpWritten[q] \in Seq(TpEvent(G)) /\ Len(tpWritten[q]) \in Nat
  BY <1>10
<1>20. TpIds'
  <2>1. \A v \in TpWriters : Pending(v)' => v # w /\ Pending(v) /\ tpWrite'[v].id = tpWrite[v].id /\ tpWrite'[v].input = tpWrite[v].input
    BY <1>13, <1>14
  <2>2. ASSUME NEW q \in ChainKeys, NEW x \in 1..Len(tpWritten'[q])
        PROVE  \/ x \in 1..Len(tpWritten[q]) /\ tpWritten'[q][x] = tpWritten[q][x]
               \/ x = Len(tpWritten[q]) + 1 /\ tpWritten'[q][x] = ev /\ q = k
    BY <1>6, <1>11, <1>19
  <2>3. ev.id \in 1..tpSubmitted /\ \A v \in TpWriters : v # w /\ Pending(v) => ev.id # tpWrite[v].id
    BY <1>1, <1>8 DEF TpInv, TpIds
  <2>4. \A q \in ChainKeys : \A x \in 1..Len(tpWritten[q]) : ev.id # tpWritten[q][x].id
    BY <1>1, <1>8 DEF TpInv, TpIds
  <2>5. \A v \in TpWriters : Pending(v)' => tpWrite'[v].id \in 1..tpSubmitted' /\ AssertTenantScope(tpWrite'[v].input)
    BY <1>1, <2>1 DEF TpInv, TpIds
  <2>6. \A u, v \in TpWriters : u # v /\ Pending(u)' /\ Pending(v)' => tpWrite'[u].id # tpWrite'[v].id
    BY <2>1 DEF TpInv, TpIds
  <2>7. ASSUME NEW q \in ChainKeys, NEW x \in 1..Len(tpWritten'[q])
        PROVE  /\ tpWritten'[q][x].id \in 1..tpSubmitted'
               /\ \A v \in TpWriters : Pending(v)' => tpWritten'[q][x].id # tpWrite'[v].id
               /\ \A y \in 1..Len(tpWritten'[q]) : x # y => tpWritten'[q][x].id # tpWritten'[q][y].id
    <3>0. /\ \A z \in 1..Len(tpWritten[q]) :
                /\ tpWritten[q][z].id \in 1..tpSubmitted
                /\ \A v \in TpWriters : Pending(v) => tpWritten[q][z].id # tpWrite[v].id
                /\ \A y \in 1..Len(tpWritten[q]) : z # y => tpWritten[q][z].id # tpWritten[q][y].id
      BY DEF TpInv, TpIds
    <3>1. tpWritten'[q][x].id \in 1..tpSubmitted'
      BY <1>1, <2>2, <2>3, <3>0
    <3>2. \A v \in TpWriters : Pending(v)' => tpWritten'[q][x].id # tpWrite'[v].id
      BY <2>1, <2>2, <2>3, <3>0
    <3>3. ASSUME NEW y \in 1..Len(tpWritten'[q]), x # y PROVE tpWritten'[q][x].id # tpWritten'[q][y].id
      <4>1. \/ y \in 1..Len(tpWritten[q]) /\ tpWritten'[q][y] = tpWritten[q][y]
            \/ y = Len(tpWritten[q]) + 1 /\ tpWritten'[q][y] = ev
        BY <2>2
      <4>2. \/ x \in 1..Len(tpWritten[q]) /\ tpWritten'[q][x] = tpWritten[q][x]
            \/ x = Len(tpWritten[q]) + 1 /\ tpWritten'[q][x] = ev
        BY <2>2
      <4> QED BY <2>4, <3>0, <3>3, <4>1, <4>2
    <3> QED BY <3>1, <3>2, <3>3
  <2>8. OwnTenantOnly'
    <3> SUFFICES ASSUME NEW q \in ChainKeys, NEW x \in DOMAIN tpWritten'[q]
                 PROVE  TpActorTenant[tpWritten'[q][x].by] = q[1]
      BY DEF OwnTenantOnly
    <3>1. tpWritten'[q] \in Seq(TpEvent(G))
      <4>1. Append(tpWritten[q], ev) \in Seq(TpEvent(G))
        BY <1>6, <1>19
      <4>2. tpWritten'[q] = tpWritten[q] \/ tpWritten'[q] = Append(tpWritten[q], ev)
        BY <1>11
      <4> QED BY <1>19, <4>1, <4>2
    <3>2. x \in 1..Len(tpWritten'[q]) /\ \A z \in 1..Len(tpWritten[q]) : z \in DOMAIN tpWritten[q]
      BY <1>19, <3>1
    <3>3. CASE x \in 1..Len(tpWritten[q]) /\ tpWritten'[q][x] = tpWritten[q][x]
      BY <3>2, <3>3 DEF TpInv, TpIds, OwnTenantOnly
    <3>4. CASE x = Len(tpWritten[q]) + 1 /\ tpWritten'[q][x] = ev /\ q = k
      <4>1. TpActorTenant[tpWrite[w].input.actor] = tpWrite[w].input.tenant
        BY <1>1 DEF TpInv, TpIds, AssertTenantScope
      <4>2. k[1] = tpWrite[w].input.tenant
        BY DEF k, KeyOf
      <4> QED BY <1>8, <3>4, <4>1, <4>2
    <3> QED BY <2>2, <3>2, <3>3, <3>4
  <2> QED BY <2>5, <2>6, <2>7, <2>8 DEF TpIds
<1>21. TpUntouched'
  <2>1. tpTampers' = 0 => tpChains' = tpWritten'
    BY <1>1, <1>9 DEF TpInv, TpUntouched
  <2>2. ASSUME tpTampers' = 0, ~lockShared', NEW q \in ChainKeys
        PROVE  ReverseHashChainReplay(tpWritten'[q])
    <3>1. ReverseHashChainReplay(tpWritten[q]) /\ tpWrite[w].previous = LastHash(tpWritten[k])
      BY <1>1, <2>2 DEF TpInv, TpUntouched, k
    <3>2. CASE q = k /\ stored
      BY <1>6, <1>8, <1>11, <1>19, <3>1, <3>2, ReplayAppend
    <3>3. CASE ~(q = k /\ stored)
      BY <1>11, <3>1, <3>3
    <3> QED BY <3>2, <3>3
  <2>3. ASSUME tpTampers' = 0, ~lockShared', NEW v \in TpWriters, tpWrite'[v].at = "insert"
        PROVE  tpWrite'[v].previous = LastHash(tpWritten'[KeyOf(v)'])
    <3>1. v # w /\ tpWrite[v].at = "insert"
      BY <1>13, <1>14, <2>3 DEF NoWrite
    <3>2. Pending(v) /\ KeyOf(v) \in ChainKeys /\ KeyOf(v)' = KeyOf(v) /\ tpWrite'[v].previous = tpWrite[v].previous
      BY <1>14, <3>1, TpShape DEF TpInv, Pending
    <3>3. v \in lockHolders[KeyOf(v)].holders
      BY <3>1 DEF TpInv, TpLocks
    <3>4. KeyOf(v) # k
      BY <1>1, <1>2, <1>17, <2>3, <3>1, <3>3 DEF TpInv, TpAlone
    <3>5. tpWrite[v].previous = LastHash(tpWritten[KeyOf(v)])
      BY <1>1, <2>3, <3>1 DEF TpInv, TpUntouched
    <3> QED BY <1>11, <3>2, <3>4, <3>5
  <2> QED BY <2>1, <2>2, <2>3 DEF TpUntouched
<1>22. TpDetected'
  <2> SUFFICES ASSUME tpTampers' <= 1, ~tailTampered', ~lockShared', NEW q \in ChainKeys
               PROVE  tpChains'[q] = tpWritten'[q] \/ ~ReverseHashChainReplay(tpChains'[q])
    BY DEF TpDetected
  <2>1. tpChains[q] = tpWritten[q] \/ ~ReverseHashChainReplay(tpChains[q])
    BY <1>1 DEF TpInv, TpDetected
  <2>2. CASE q = k /\ stored
    BY <1>6, <1>10, <1>11, <2>1, <2>2, ReplayStaysBroken
  <2>3. CASE ~(q = k /\ stored)
    BY <1>11, <2>1, <2>3
  <2> QED BY <2>2, <2>3
<1> QED BY <1>15, <1>16, <1>18, <1>20, <1>21, <1>22 DEF TpInv

LEMMA TpWakes ==
    ASSUME TpInv, NEW w \in TpWriters, WakeWriter(w)
    PROVE  TpInv'
<1> DEFINE k == KeyOf(w)
           lock == lockHolders[k]
           c == [tpWrite[w] EXCEPT !.at = "locked"]
           l == TakeLock(lock, w)
<1>1. /\ tpWrite[w].at = "woken" /\ Pending(w) /\ tpWrite' = [tpWrite EXCEPT ![w] = c]
      /\ lockHolders' = [lockHolders EXCEPT ![k] = l] /\ lockShared' = (lockShared \/ lock.holders # {})
      /\ UNCHANGED <<tpChains, tpSubmitted, tpTampers, tpWritten, tailTampered>>
  BY DEF WakeWriter, Pending
<1>2. PICK H : /\ tpWrite \in [TpWriters -> TpWriteState(H)]
               /\ tpChains \in [ChainKeys -> Seq(TpEvent(H))] /\ tpWritten \in [ChainKeys -> Seq(TpEvent(H))]
  BY DEF TpInv, TpTyped
<1>3. /\ k \in ChainKeys /\ tpWrite[w].input \in TpInputs
      /\ tpWrite[w] = [at |-> tpWrite[w].at, input |-> tpWrite[w].input, id |-> tpWrite[w].id, previous |-> tpWrite[w].previous]
  BY <1>1, TpShape DEF TpInv
<1>4. c = [at |-> "locked", input |-> tpWrite[w].input, id |-> tpWrite[w].id, previous |-> tpWrite[w].previous]
  BY <1>3
<1>5. /\ c.at = "locked" /\ c.input = tpWrite[w].input /\ c.id = tpWrite[w].id /\ c.previous = tpWrite[w].previous
  BY <1>4
<1>6. c \in TpWriteState(H)
  <2>1. tpWrite[w] \in TpWriteState(H) /\ tpWrite[w] # NoWrite
    BY <1>1, <1>2 DEF NoWrite
  <2>2. tpWrite[w].id \in H /\ tpWrite[w].previous \in H
    BY <2>1 DEF TpWriteState
  <2> QED BY <1>3, <1>4, <2>2 DEF TpWriteState
<1>7. lock \in [held : BOOLEAN, holders : SUBSET TpWriters, waiters : SUBSET TpWriters]
  BY <1>3 DEF TpInv, TpTyped
<1>8. /\ l.held = TRUE /\ l.holders = lock.holders \cup {w} /\ l.waiters = {}
      /\ l \in [held : BOOLEAN, holders : SUBSET TpWriters, waiters : SUBSET TpWriters]
  BY <1>7 DEF TakeLock
<1> HIDE DEF c, l, k
<1>9. /\ \A v \in TpWriters : tpWrite'[v] = IF v = w THEN c ELSE tpWrite[v]
      /\ \A q \in ChainKeys : lockHolders'[q] = IF q = k THEN l ELSE lockHolders[q]
  BY <1>1, <1>2, <1>3 DEF TpInv, TpTyped
<1>10. \A v \in TpWriters : /\ KeyOf(v)' = KeyOf(v) /\ (Pending(v)' <=> Pending(v))
                            /\ tpWrite'[v].id = tpWrite[v].id /\ tpWrite'[v].input = tpWrite[v].input
                            /\ tpWrite'[v].at = "insert" => tpWrite[v].at = "insert" /\ v # w
  BY <1>1, <1>5, <1>9 DEF KeyOf, Pending
<1>11. TpTyped'
  <2>1. tpWrite' \in [TpWriters -> TpWriteState(H)]
    BY <1>1, <1>2, <1>6
  <2>2. lockHolders' \in [ChainKeys -> [held : BOOLEAN, holders : SUBSET TpWriters, waiters : SUBSET TpWriters]]
    BY <1>1, <1>8 DEF TpInv, TpTyped
  <2>3. lockShared' \in BOOLEAN
    BY <1>1
  <2> QED BY <1>1, <1>2, <2>1, <2>2, <2>3 DEF TpInv, TpTyped
<1>12. \A q \in ChainKeys : w \notin lockHolders[q].holders /\ w \notin lockHolders[q].waiters
  BY <1>1 DEF TpInv, TpLocks
<1>13. TpLocks'
  <2>1. ASSUME NEW v \in TpWriters, tpWrite'[v].at \in {"locked", "insert"} PROVE v \in lockHolders'[KeyOf(v)'].holders
    <3>1. CASE v = w
      BY <1>3, <1>8, <1>9, <1>10, <3>1 DEF k
    <3>2. CASE v # w
      <4>1. tpWrite[v].at \in {"locked", "insert"} /\ Pending(v)
        BY <1>9, <2>1, <3>2 DEF Pending
      <4>2. KeyOf(v) \in ChainKeys /\ v \in lockHolders[KeyOf(v)].holders
        BY <4>1, TpShape DEF TpInv, TpLocks
      <4> QED BY <1>8, <1>9, <1>10, <4>2
    <3> QED BY <3>1, <3>2
  <2>2. ASSUME NEW q \in ChainKeys, NEW v \in TpWriters
        PROVE  /\ v \in lockHolders'[q].holders => tpWrite'[v].at \in {"locked", "insert"} /\ KeyOf(v)' = q
               /\ v \in lockHolders'[q].waiters => tpWrite'[v].at = "waiting" /\ KeyOf(v)' = q
    <3>1. /\ v \in lockHolders[q].holders => tpWrite[v].at \in {"locked", "insert"} /\ KeyOf(v) = q
          /\ v \in lockHolders[q].waiters => tpWrite[v].at = "waiting" /\ KeyOf(v) = q
      BY DEF TpInv, TpLocks
    <3>2. CASE v = w
      BY <1>5, <1>8, <1>9, <1>10, <1>12, <3>2 DEF k
    <3>3. CASE v # w
      BY <1>8, <1>9, <1>10, <3>1, <3>3
    <3> QED BY <3>2, <3>3
  <2>3. \A q \in ChainKeys : ~lockHolders'[q].held => lockHolders'[q].waiters = {}
    BY <1>8, <1>9 DEF TpInv, TpLocks
  <2> QED BY <2>1, <2>2, <2>3 DEF TpLocks
<1>14. TpAlone'
  <2> SUFFICES ASSUME ~lockShared', NEW q \in ChainKeys
               PROVE  /\ \A x, y \in lockHolders'[q].holders : x = y
                      /\ ~lockHolders'[q].held => lockHolders'[q].holders = {}
    BY DEF TpAlone
  <2>1. ~lockShared /\ lock.holders = {}
    BY <1>1
  <2>2. CASE q = k
    BY <1>8, <1>9, <2>1, <2>2
  <2>3. CASE q # k
    BY <1>9, <2>1, <2>3 DEF TpInv, TpAlone
  <2> QED BY <2>2, <2>3
<1>15. TpIds'
  <2>1. OwnTenantOnly'
    BY <1>1 DEF TpInv, TpIds, OwnTenantOnly
  <2> QED BY <1>1, <1>10, <2>1 DEF TpInv, TpIds
<1>16. TpUntouched' /\ TpDetected'
  <2>1. \A v \in TpWriters : tpWrite'[v].at = "insert" => tpWrite'[v] = tpWrite[v] /\ tpWrite[v].at = "insert" /\ KeyOf(v)' = KeyOf(v)
    BY <1>9, <1>10
  <2> QED BY <1>1, <2>1 DEF TpInv, TpUntouched, TpDetected
<1> QED BY <1>11, <1>13, <1>14, <1>15, <1>16 DEF TpInv

LEMMA TpTampers ==
    ASSUME TpInv, NEW k \in ChainKeys, Tamper(k)
    PROVE  TpInv'
<1>1. /\ tpTampers' = tpTampers + 1 /\ UNCHANGED <<lockHolders, tpWrite, tpSubmitted, tpWritten, lockShared>>
      /\ tpTampers \in Nat /\ tpTampers' \in 0..MaxTampers /\ tpTampers' # 0
  BY TpAssumption DEF Tamper, TpInv, TpTyped
<1>2. PICK H : /\ tpWrite \in [TpWriters -> TpWriteState(H)]
               /\ tpChains \in [ChainKeys -> Seq(TpEvent(H))] /\ tpWritten \in [ChainKeys -> Seq(TpEvent(H))]
  BY DEF TpInv, TpTyped
<1> DEFINE chain == tpChains[k]
<1>3. chain \in Seq(TpEvent(H)) /\ DOMAIN chain = 1..Len(chain)
  BY <1>2
<1>0. PICK i \in 1..Len(chain) : \E s :
         /\ tailTampered' = (tailTampered \/ i = Len(chain))
         /\ tpChains' = [tpChains EXCEPT ![k] = s]
         /\ \/ \E ev \in Tampered(chain[i]) : ev # chain[i] /\ s = [chain EXCEPT ![i] = ev]
            \/ s = SubSeq(chain, 1, i - 1) \o SubSeq(chain, i + 1, Len(chain))
  <2>1. PICK i \in DOMAIN chain :
           /\ tailTampered' = (tailTampered \/ i = Len(chain))
           /\ \/ \E ev \in Tampered(chain[i]) : ev # chain[i] /\ tpChains' = [tpChains EXCEPT ![k][i] = ev]
              \/ tpChains' = [tpChains EXCEPT ![k] = SubSeq(chain, 1, i - 1) \o SubSeq(chain, i + 1, Len(chain))]
    BY DEF Tamper
  <2>2. ASSUME NEW ev PROVE [tpChains EXCEPT ![k][i] = ev] = [tpChains EXCEPT ![k] = [chain EXCEPT ![i] = ev]]
    BY <1>2
  <2> QED BY <1>3, <2>1, <2>2
<1>4. PICK s :
         /\ tailTampered' = (tailTampered \/ i = Len(chain))
         /\ tpChains' = [tpChains EXCEPT ![k] = s]
         /\ \/ \E ev \in Tampered(chain[i]) : ev # chain[i] /\ s = [chain EXCEPT ![i] = ev]
            \/ s = SubSeq(chain, 1, i - 1) \o SubSeq(chain, i + 1, Len(chain))
  BY <1>0
<1> DEFINE old == chain[i]
           G == H \cup {"changed", NoHash, TamperProofHash([old EXCEPT !.body = "changed"])}
<1>5. s \in Seq(TpEvent(G))
  <2>1. H \subseteq G /\ chain \in Seq(TpEvent(G)) /\ old \in TpEvent(G)
    <3>1. H \subseteq G
      OBVIOUS
    <3> HIDE DEF G
    <3>2. chain \in Seq(TpEvent(G))
      BY <1>3, <3>1, TpWiden
    <3> QED BY <3>1, <3>2, ElementOfSeq
  <2>2. CASE \E ev \in Tampered(chain[i]) : ev # chain[i] /\ s = [chain EXCEPT ![i] = ev]
    <3>1. PICK ev \in Tampered(old) : s = [chain EXCEPT ![i] = ev]
      BY <2>2
    <3>2. ev \in TpEvent(G)
      BY <2>1 DEF Tampered, TpEvent
    <3> HIDE DEF G
    <3> QED BY <1>3, <2>1, <3>1, <3>2
  <2>3. CASE s = SubSeq(chain, 1, i - 1) \o SubSeq(chain, i + 1, Len(chain))
    <3> HIDE DEF G
    <3>1. PICK n \in Nat : n = Len(chain)
      BY <1>3
    <3>2. \A x \in 1..n : chain[x] \in TpEvent(G)
      BY <2>1, <3>1, ElementOfSeq
    <3>3. i \in Int /\ i >= 1 /\ i <= n /\ i - 1 \in Int /\ i + 1 \in Int
      BY <3>1
    <3>4. (\A x \in 1..(i - 1) : chain[x] \in TpEvent(G)) /\ \A x \in (i + 1)..n : chain[x] \in TpEvent(G)
      BY <3>2, <3>3
    <3>5. SubSeq(chain, 1, i - 1) \in Seq(TpEvent(G)) /\ SubSeq(chain, i + 1, n) \in Seq(TpEvent(G))
      BY <3>3, <3>4, SubSeqProperties
    <3> QED BY <2>3, <3>1, <3>5, ConcatProperties
  <2> QED BY <1>4, <2>2, <2>3
<1>6. TpTyped'
  <2>1. H \subseteq G
    OBVIOUS
  <2> HIDE DEF G
  <2>2. tpWrite \in [TpWriters -> TpWriteState(G)] /\ tpChains \in [ChainKeys -> Seq(TpEvent(G))] /\ tpWritten \in [ChainKeys -> Seq(TpEvent(G))]
    BY <1>2, <2>1, TpWiden
  <2>3. tpChains' \in [ChainKeys -> Seq(TpEvent(G))]
    BY <1>4, <1>5, <2>2
  <2>4. tailTampered' \in BOOLEAN
    BY <1>4
  <2> QED BY <1>1, <2>2, <2>3, <2>4 DEF TpInv, TpTyped
<1>7. TpLocks' /\ TpAlone'
  BY <1>1 DEF TpInv, TpLocks, TpAlone, KeyOf
<1>8. TpIds'
  BY <1>1 DEF TpInv, TpIds, Pending, OwnTenantOnly
<1>9. TpUntouched'
  BY <1>1 DEF TpUntouched
<1>10. TpDetected'
  <2> SUFFICES ASSUME tpTampers' <= 1, ~tailTampered', ~lockShared', NEW q \in ChainKeys
               PROVE  tpChains'[q] = tpWritten'[q] \/ ~ReverseHashChainReplay(tpChains'[q])
    BY DEF TpDetected
  <2>a. ~lockShared /\ i # Len(chain)
    BY <1>1, <1>4
  <2>b. tpTampers = 0
    BY <1>1
  <2>1. tpTampers = 0 /\ ~lockShared /\ i # Len(chain)
    BY <2>a, <2>b
  <2>2. tpChains = tpWritten /\ ReverseHashChainReplay(tpWritten[k])
    BY <2>1 DEF TpInv, TpUntouched
  <2>3. CASE q # k
    BY <1>1, <1>2, <1>4, <2>2, <2>3
  <2>4. CASE q = k
    <3>1. tpChains'[q] = s /\ ReverseHashChainReplay(chain)
      BY <1>2, <1>4, <2>2, <2>4
    <3>2. CASE \E ev \in Tampered(chain[i]) : ev # chain[i] /\ s = [chain EXCEPT ![i] = ev]
      <4> HIDE DEF chain
      <4>1. PICK ev \in Tampered(chain[i]) : ev # chain[i] /\ s = [chain EXCEPT ![i] = ev]
        BY <3>2
      <4>2. ~ReverseHashChainReplay([chain EXCEPT ![i] = ev])
        BY <1>3, <2>1, <3>1, <4>1, ChangeIsFound
      <4> QED BY <3>1, <4>1, <4>2
    <3>3. CASE s = SubSeq(chain, 1, i - 1) \o SubSeq(chain, i + 1, Len(chain))
      <4>1. \A x, y \in 1..Len(chain) : x # y => chain[x].id # chain[y].id
        BY <2>2 DEF TpInv, TpIds
      <4> HIDE DEF chain
      <4>2. ~ReverseHashChainReplay(SubSeq(chain, 1, i - 1) \o SubSeq(chain, i + 1, Len(chain)))
        BY <1>3, <2>1, <3>1, <4>1, GapIsFound
      <4> QED BY <3>1, <3>3, <4>2
    <3> QED BY <1>4, <3>2, <3>3
  <2> QED BY <2>3, <2>4
<1> QED BY <1>6, <1>7, <1>8, <1>9, <1>10 DEF TpInv

LEMMA TpStep == TpInv /\ [TpNext]_tpVars => TpInv'
<1> SUFFICES ASSUME TpInv, [TpNext]_tpVars PROVE TpInv'
  OBVIOUS
<1>1. CASE UNCHANGED tpVars
  <2>1. /\ UNCHANGED <<tpChains, lockHolders, tpWrite, tpSubmitted>>
        /\ UNCHANGED <<tpTampers, tpWritten, tailTampered, lockShared>>
    BY <1>1 DEF tpVars
  <2>2. TpTyped'
    BY <2>1 DEF TpInv, TpTyped
  <2>5. TpLocks' /\ TpAlone'
    BY <2>1 DEF TpInv, TpLocks, TpAlone, KeyOf
  <2>3. TpIds'
    BY <2>1 DEF TpInv, TpIds, Pending, OwnTenantOnly
  <2>4. TpUntouched' /\ TpDetected'
    BY <2>1 DEF TpInv, TpUntouched, TpDetected, KeyOf
  <2> QED BY <2>2, <2>3, <2>4, <2>5 DEF TpInv
<1> QED BY <1>1, TpSubmits, TpFetches, TpInserts, TpWakes, TpTampers DEF TpNext

LEMMA TpStart == TpInit => TpInv
<1> SUFFICES ASSUME TpInit PROVE TpInv
  OBVIOUS
<1>1. TpTyped
  <2> DEFINE H == {}
  <2>1. tpWrite \in [TpWriters -> TpWriteState(H)]
    BY DEF TpInit, TpWriteState
  <2>2. tpChains \in [ChainKeys -> Seq(TpEvent(H))] /\ tpWritten \in [ChainKeys -> Seq(TpEvent(H))]
    BY DEF TpInit
  <2> HIDE DEF H
  <2>3. tpSubmitted \in 0..MaxTpEvents /\ tpTampers \in 0..MaxTampers
    BY TpAssumption DEF TpInit
  <2> QED BY <2>1, <2>2, <2>3 DEF TpInit, TpTyped
<1>2. TpLocks /\ TpAlone
  BY DEF TpInit, TpLocks, TpAlone, NoWrite
<1>3. TpIds
  <2>1. \A w \in TpWriters : ~Pending(w)
    BY DEF TpInit, Pending, NoWrite
  <2>2. \A k \in ChainKeys : Len(tpWritten[k]) = 0 /\ DOMAIN tpWritten[k] = {}
    BY DEF TpInit
  <2> QED BY <2>1, <2>2 DEF TpIds, OwnTenantOnly
<1>4. TpUntouched /\ TpDetected
  BY DEF TpInit, TpUntouched, TpDetected, NoWrite, ReverseHashChainReplay
<1> QED BY <1>1, <1>2, <1>3, <1>4 DEF TpInv

LEMMA TpConcludes == TpInv => TpTypeOK /\ AuditChainsHold
<1> SUFFICES ASSUME TpInv PROVE TpTypeOK /\ AuditChainsHold
  OBVIOUS
<1>1. TpTypeOK
  <2>1. \A w \in TpWriters : tpWrite[w].at \in {"idle", "waiting", "woken", "locked", "insert"}
    BY TpShape DEF TpInv
  <2>2. \A k \in ChainKeys : lockHolders[k] \in [held : BOOLEAN, holders : SUBSET TpWriters, waiters : SUBSET TpWriters]
    BY DEF TpInv, TpTyped
  <2> QED BY <2>1, <2>2 DEF TpInv, TpTyped, TpTypeOK
<1>2. tpTampers = 0 /\ ~lockShared => \A k \in ChainKeys : ReverseHashChainReplay(tpChains[k])
  BY DEF TpInv, TpUntouched
<1>3. VerifiedIsAsWritten
  BY DEF TpInv, TpDetected, VerifiedIsAsWritten, VerifyAuditEvent
<1> QED BY <1>1, <1>2, <1>3 DEF AuditChainsHold, TpInv, TpIds

-----------------------------------------------------------------------------
(* The parts in MCRecords.                                                 *)

recordsVars == <<part, vars, abVars, cdVars, chainVars>>

\* Whatever part of MCRecords runs, a step of it is one of that part alone.
LEMMA RecordsParts ==
    [RecordsNext]_recordsVars => /\ UNCHANGED part /\ [CdNext]_cdVars /\ [PcNext]_pcVars /\ [TpNext]_tpVars
                                 /\ [CaseNext]_caseVars /\ [SideNext]_sideVars
<1> SUFFICES ASSUME [RecordsNext]_recordsVars
             PROVE  /\ UNCHANGED part /\ [CdNext]_cdVars /\ [PcNext]_pcVars /\ [TpNext]_tpVars
                    /\ [CaseNext]_caseVars /\ [SideNext]_sideVars
  OBVIOUS
<1>1. UNCHANGED part /\ [CdNext]_cdVars /\ [PcNext]_pcVars /\ [TpNext]_tpVars
  BY DEF RecordsNext, recordsVars, chainVars
<1>2. (CaseNext /\ UNCHANGED sideVars) \/ (SideNext /\ UNCHANGED caseVars) \/ UNCHANGED govVars
  <2>1. CaseNext => UNCHANGED sideVars
    BY DEF CaseNext, RequestArbitration, ExplainRefusal, SubmitVerdict, SubmitMisses
  <2>2. SideNext => UNCHANGED caseVars
    BY DEF SideNext, AppendRow, TamperRow, StartVerify, VerifyRow
  <2>3. CaseNext \/ SideNext \/ UNCHANGED govVars
    BY DEF RecordsNext, recordsVars, chainVars
  <2> QED BY <2>1, <2>2, <2>3
<1>3. UNCHANGED govVars => UNCHANGED caseVars /\ UNCHANGED sideVars
  BY DEF govVars, caseVars, sideVars
<1> QED BY <1>1, <1>2, <1>3

\* The reconciliation cursor passes only records that were read or came in late (querySettles,
\* updateCursor and reapExpiredPending of cross-domain-reconcile): for every number of settles,
\* deliveries and reconcilers and every page size.
THEOREM ReconciliationHolds == RecordsSpec => []ReconciliationIsSound
<1>1. RecordsInit => CdInv
  BY CdStart DEF RecordsInit
<1>2. CdInv /\ [RecordsNext]_recordsVars => CdInv'
  BY RecordsParts, CdStep
<1>3. CdInv => ReconciliationIsSound
  BY CdConcludes DEF ReconciliationIsSound
<1> QED BY <1>1, <1>2, <1>3, PTL DEF RecordsSpec, recordsVars

\* Every policy change has its record in its agent's chain and filtered pages skip none of them;
\* a replay of a tamper-proof chain and the verifier of the side table report a change of what is
\* stored and nothing else; an arbitration has one verdict (recordPolicyChange, listRecords,
\* reverseHashChainReplay, operator-override): for every number of writers, readers and events.
THEOREM AuditChainsHoldAlways == RecordsSpec => []AuditChainsAreSound
<1>1. RecordsInit => PcInv /\ TpInv /\ GovInv
  BY PcStart, TpStart, GovStart DEF RecordsInit
<1>2. PcInv /\ [RecordsNext]_recordsVars => PcInv'
  BY RecordsParts, PcStep
<1>3. TpInv /\ [RecordsNext]_recordsVars => TpInv'
  BY RecordsParts, TpStep
<1>4. GovInv /\ [RecordsNext]_recordsVars => GovInv'
  BY RecordsParts, CaseStep, SideStep DEF GovInv
<1>5. PcInv /\ TpInv /\ GovInv => AuditChainsAreSound
  BY PcConcludes, TpConcludes, GovConcludes DEF AuditChainsAreSound
<1> QED BY <1>1, <1>2, <1>3, <1>4, <1>5, PTL DEF RecordsSpec, recordsVars

=============================================================================
